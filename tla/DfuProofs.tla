------------------------------ MODULE DfuProofs ------------------------------
(* Proofs about Dfu: its type invariant, that nothing is activated that was not
   validated, that a request starts one update, that no more chunks than a window are
   on their way, and that a completed update has installed what was downloaded. *)
EXTENDS Dfu, FiniteSetTheorems, TLAPS

-----------------------------------------------------------------------------
(* Messages and notes.                                                      *)

Message ==
    [op : {"start"}, len : Nat] \cup [op : {"receive"}]
    \cup [op : {"init", "validate", "activate"}, dat : Maybe(Versions)]
    \cup [op : {"chunk"}, ver : Maybe(Versions), no : Nat]

ActivateIn(q) == \E i \in DOMAIN q : q[i].op = "activate"
ValidatedIn(q) == \E i \in DOMAIN q : q[i] = "validated"

\* Every element of q is one of p.
From(q, p) == \A i \in DOMAIN q : \E j \in DOMAIN p : q[i] = p[j]

LEMMA FromKeeps ==
  ASSUME NEW q, NEW p, From(q, p)
  PROVE  /\ ActivateIn(q) => ActivateIn(p)
         /\ ValidatedIn(q) => ValidatedIn(p)
  BY DEF From, ActivateIn, ValidatedIn

LEMMA TailFrom ==
  ASSUME NEW S, NEW q \in Seq(S), q # <<>>
  PROVE  /\ Tail(q) \in Seq(S) /\ Head(q) \in S /\ From(Tail(q), q)
         /\ Head(q) = q[1] /\ 1 \in DOMAIN q
<1>1. /\ Tail(q) \in Seq(S) /\ Head(q) \in S /\ Head(q) = q[1]
      /\ Len(q) \in Nat /\ Len(q) >= 1 /\ DOMAIN q = 1..Len(q)
      /\ DOMAIN Tail(q) = 1..(Len(q) - 1)
      /\ \A i \in 1..(Len(q) - 1) : Tail(q)[i] = q[i + 1]
  OBVIOUS
<1>2. ASSUME NEW i \in 1..(Len(q) - 1) PROVE i + 1 \in 1..Len(q)
  BY <1>1
<1>3. From(Tail(q), q)
  BY <1>1, <1>2 DEF From
<1> QED BY <1>1, <1>3

LEMMA PrefixFrom ==
  ASSUME NEW S, NEW q \in Seq(S), NEW n \in 0..Len(q)
  PROVE  SubSeq(q, 1, n) \in Seq(S) /\ From(SubSeq(q, 1, n), q)
<1>1. /\ SubSeq(q, 1, n) \in Seq(S) /\ DOMAIN SubSeq(q, 1, n) = 1..n
      /\ \A i \in 1..n : SubSeq(q, 1, n)[i] = q[i]
      /\ DOMAIN q = 1..Len(q) /\ Len(q) \in Nat /\ n \in Nat /\ n <= Len(q)
  OBVIOUS
<1>2. 1..n \subseteq 1..Len(q)
  BY <1>1
<1> QED BY <1>1, <1>2 DEF From

LEMMA SuffixFrom ==
  ASSUME NEW S, NEW q \in Seq(S), NEW i \in DOMAIN q
  PROVE  /\ SubSeq(q, i + 1, Len(q)) \in Seq(S)
         /\ From(SubSeq(q, i + 1, Len(q)), q)
<1> DEFINE r == SubSeq(q, i + 1, Len(q))
<1>1. Len(q) \in Nat /\ DOMAIN q = 1..Len(q) /\ i \in 1..Len(q)
  OBVIOUS
<1>2. r \in Seq(S) /\ DOMAIN r = 1..(Len(q) - i)
  BY <1>1
<1>3. ASSUME NEW k \in 1..(Len(q) - i) PROVE r[k] = q[i + k] /\ i + k \in 1..Len(q)
  BY <1>1, <1>3
<1>4. From(r, q)
  BY <1>1, <1>2, <1>3 DEF From
<1> QED BY <1>2, <1>4

LEMMA ConcatFrom ==
  ASSUME NEW S, NEW p \in Seq(S), NEW q \in Seq(S)
  PROVE  /\ p \o q \in Seq(S)
         /\ \A i \in DOMAIN (p \o q) :
               \/ \E j \in DOMAIN p : (p \o q)[i] = p[j]
               \/ \E j \in DOMAIN q : (p \o q)[i] = q[j]
<1>1. /\ Len(p) \in Nat /\ Len(q) \in Nat /\ p \o q \in Seq(S)
      /\ DOMAIN p = 1..Len(p) /\ DOMAIN q = 1..Len(q)
      /\ DOMAIN (p \o q) = 1..(Len(p) + Len(q))
  OBVIOUS
<1>2. ASSUME NEW i \in 1..(Len(p) + Len(q))
      PROVE  \/ \E j \in DOMAIN p : (p \o q)[i] = p[j]
             \/ \E j \in DOMAIN q : (p \o q)[i] = q[j]
  <2>1. CASE i <= Len(p)
    <3>1. i \in 1..Len(p) /\ (p \o q)[i] = p[i]
      BY <1>1, <2>1
    <3> QED BY <1>1, <3>1
  <2>2. CASE i > Len(p)
    <3>1. i - Len(p) \in 1..Len(q) /\ (p \o q)[i] = q[i - Len(p)]
      BY <1>1, <2>2
    <3> QED BY <1>1, <3>1
  <2> QED BY <1>1, <2>1, <2>2
<1> QED BY <1>1, <1>2

LEMMA ConcatKeepsFrom ==
  ASSUME NEW S, NEW p \in Seq(S), NEW q \in Seq(S), NEW r, From(p, r), From(q, r)
  PROVE  From(p \o q, r)
<1> SUFFICES ASSUME NEW k \in DOMAIN (p \o q)
             PROVE  \E j \in DOMAIN r : (p \o q)[k] = r[j]
  BY Zenon DEF From
<1>1. \/ \E j \in DOMAIN p : (p \o q)[k] = p[j]
      \/ \E j \in DOMAIN q : (p \o q)[k] = q[j]
  BY ConcatFrom
<1>2. CASE \E j \in DOMAIN p : (p \o q)[k] = p[j]
  BY <1>2 DEF From
<1>3. CASE \E j \in DOMAIN q : (p \o q)[k] = q[j]
  BY <1>3 DEF From
<1> QED BY <1>1, <1>2, <1>3

LEMMA RemoveFrom ==
  ASSUME NEW S, NEW q \in Seq(S), NEW i \in DOMAIN q
  PROVE  /\ SubSeq(q, 1, i - 1) \o SubSeq(q, i + 1, Len(q)) \in Seq(S)
         /\ From(SubSeq(q, 1, i - 1) \o SubSeq(q, i + 1, Len(q)), q)
<1>1. i - 1 \in 0..Len(q)
  OBVIOUS
<1>2. /\ SubSeq(q, 1, i - 1) \in Seq(S) /\ From(SubSeq(q, 1, i - 1), q)
      /\ SubSeq(q, i + 1, Len(q)) \in Seq(S) /\ From(SubSeq(q, i + 1, Len(q)), q)
  BY <1>1, PrefixFrom, SuffixFrom
<1> QED BY <1>2, ConcatFrom, ConcatKeepsFrom

LEMMA NoteAppended ==
  ASSUME NEW q \in Seq(NoteKind), NEW n \in NoteKind
  PROVE  /\ Append(q, n) \in Seq(NoteKind)
         /\ n # "validated" /\ ValidatedIn(Append(q, n)) => ValidatedIn(q)
<1>1. /\ Append(q, n) \in Seq(NoteKind) /\ Len(q) \in Nat /\ DOMAIN q = 1..Len(q)
      /\ DOMAIN Append(q, n) = 1..(Len(q) + 1)
      /\ \A i \in 1..Len(q) : Append(q, n)[i] = q[i]
      /\ Append(q, n)[Len(q) + 1] = n
  OBVIOUS
<1>2. 1..(Len(q) + 1) = (1..Len(q)) \cup {Len(q) + 1}
  BY <1>1
<1> QED BY <1>1, <1>2 DEF ValidatedIn

LEMMA OneMessage ==
  ASSUME NEW m \in Message
  PROVE  /\ <<m>> \in Seq(Message)
         /\ ActivateIn(<<m>>) => m.op = "activate"
  BY DEF ActivateIn

LEMMA EmptyQueue ==
  /\ <<>> \in Seq(Message) /\ <<>> \in Seq(NoteKind)
  /\ ~ActivateIn(<<>>) /\ ~ValidatedIn(<<>>)
  BY DEF ActivateIn, ValidatedIn

\* What each kind of message carries.
LEMMA MessageFields ==
  ASSUME NEW m \in Message
  PROVE  /\ m.op \in Ops
         /\ m.op = "start" => m.len \in Nat
         /\ m.op = "init" => m.dat \in Maybe(Versions)
         /\ m.op = "chunk" => m.ver \in Maybe(Versions)
  BY DEF Message, Ops

-----------------------------------------------------------------------------
(* The invariant.                                                           *)

ServerType ==
    /\ request \in BOOLEAN /\ uploading \in Maybe(Versions)
    /\ files \in [bin : Versions, dat : Versions]
    /\ requests \in Nat /\ uploads \in Nat /\ lostClears \in Nat

\* No more is sent than there is, and nothing before the download is over.
SentInv ==
    /\ Active => bytes_sent_ <= have.len
    /\ state_ = "DOWNLOADING" => bytes_sent_ = 0

ClientType ==
    /\ state_ \in DfuState
    /\ have \in [bin : Maybe(Versions), len : 0..Capacity, dat : Maybe(Versions)]
    /\ bytes_sent_ \in Nat /\ packets_since_receipt_ \in 0..RECEIPT_INTERVAL
    /\ waiting_for_notification_ \in BOOLEAN
    /\ stale \in BOOLEAN /\ starts \in Nat
    /\ SentInv

LinkType ==
    /\ link \in {"down", "opening", "searching", "ready"}
    /\ air \in Seq(Message) /\ notes \in Seq(NoteKind)

WatchType ==
    /\ wstate \in {"Idle", "Init", "Data", "Validate", "Validated"}
    /\ wimage \in [dat : Maybe(Versions), len : Nat, ver : Maybe(Versions), got : Nat]
    /\ slot \in Maybe(Versions) /\ running \in Maybe(Versions)

\* On an open link, a "validated" on its way to the bridge, or the activation on its way
\* back, means that the watch still is where it sent it: an old note cannot outlive
\* its link, because the next one opens after the notes are read.
ActivateInv ==
    /\ ~Up => air = <<>>
    /\ Up /\ ValidatedIn(notes) => wstate = "Validated"
    /\ ActivateIn(air) => wstate = "Validated"

\* A request that is still there has not been counted as a start.
CountInv ==
    /\ starts <= requests + lostClears
    /\ request => starts + 1 <= requests + lostClears

IInv ==
    /\ ServerType /\ ClientType /\ LinkType /\ WatchType /\ faults \in Nat
    /\ ActivateInv /\ CountInv

LEMMA IInvImplies == IInv => TypeOK /\ NoBlindActivate /\ OneUpdatePerRequest
<1> SUFFICES ASSUME IInv PROVE TypeOK /\ NoBlindActivate /\ OneUpdatePerRequest
  OBVIOUS
<1>1. \A i \in DOMAIN air : air[i] \in Message
  BY DEF IInv, LinkType
<1>2. \A i \in DOMAIN air : air[i].op \in Ops
  BY <1>1, MessageFields
<1>3. TypeOK
  BY <1>2 DEF IInv, ServerType, ClientType, LinkType, WatchType, TypeOK
<1>4. NoBlindActivate
  BY DEF IInv, ActivateInv, ActivateIn, NoBlindActivate
<1>5. OneUpdatePerRequest
  BY DEF IInv, CountInv, ServerType, ClientType, OneUpdatePerRequest
<1> QED BY <1>3, <1>4, <1>5

LEMMA InitIInv == Init => IInv
<1> SUFFICES ASSUME Init PROVE IInv
  OBVIOUS
<1>1. ServerType
  <2>1. PICK v \in Versions : files = [bin |-> v, dat |-> v]
    BY DEF Init
  <2> QED BY <2>1 DEF Init, ServerType, Maybe
<1>2. ClientType
  <2>1. have \in [bin : Maybe(Versions), len : 0..Capacity, dat : Maybe(Versions)]
        /\ have.len = 0
    BY DfuAssumption DEF Init, NoImage, Maybe
  <2>2. packets_since_receipt_ \in 0..RECEIPT_INTERVAL
    BY DfuAssumption DEF Init
  <2>3. SentInv
    BY DEF Init, SentInv, Active
  <2> QED BY <2>1, <2>2, <2>3 DEF Init, ClientType, DfuState
<1>3. LinkType /\ ActivateInv
  BY EmptyQueue DEF Init, LinkType, ActivateInv, Up
<1>4. WatchType
  BY DEF Init, WatchType, NoTransfer, Maybe
<1>5. faults \in Nat /\ CountInv
  BY DEF Init, CountInv
<1> QED BY <1>1, <1>2, <1>3, <1>4, <1>5 DEF IInv

-----------------------------------------------------------------------------
(* Steps that leave a group of variables alone.                             *)

LEMMA ServerUnchanged ==
  ASSUME IInv, UNCHANGED serverVars PROVE ServerType'
  BY DEF IInv, ServerType, serverVars

LEMMA ClientUnchanged ==
  ASSUME IInv, UNCHANGED clientVars PROVE ClientType'
  BY DEF IInv, ClientType, SentInv, Active, clientVars

LEMMA WatchUnchanged ==
  ASSUME IInv, UNCHANGED watchVars PROVE WatchType'
  BY DEF IInv, WatchType, watchVars

LEMMA LinkUnchanged ==
  ASSUME IInv, UNCHANGED linkVars, UNCHANGED wstate
  PROVE  LinkType' /\ ActivateInv'
  BY DEF IInv, LinkType, ActivateInv, Up, ActivateIn, ValidatedIn, linkVars

LEMMA FaultCounts ==
  ASSUME IInv, NEW kind, Fault(kind) \/ UNCHANGED faults
  PROVE  faults' \in Nat /\ faults <= faults'
  BY DEF IInv, Fault

LEMMA CountsKept ==
  ASSUME IInv, UNCHANGED starts, UNCHANGED request, UNCHANGED requests,
         UNCHANGED lostClears
  PROVE  CountInv'
BY DEF IInv, CountInv

LEMMA SendQueues ==
  ASSUME IInv, NEW msgs \in Seq(Message), Send(msgs)
  PROVE  /\ air' \in Seq(Message)
         /\ ~Up => air' = <<>>
         /\ ActivateIn(air') => ActivateIn(air) \/ (Up /\ ActivateIn(msgs))
<1>1. air \in Seq(Message)
  BY DEF IInv, LinkType
<1>2. CASE Up
  <2>1. air' = air \o msgs
    BY <1>2 DEF Send
  <2> QED BY <1>1, <1>2, <2>1, ConcatFrom DEF ActivateIn
<1>3. CASE ~Up
  BY <1>1, <1>3 DEF Send, IInv, ActivateInv
<1> QED BY <1>2, <1>3

-----------------------------------------------------------------------------
(* The server and the requests.                                             *)

LEMMA RequestDfuStep == ASSUME IInv, RequestDfu PROVE IInv'
<1>1. /\ requests' = requests + 1 /\ request' = TRUE /\ UNCHANGED faults
      /\ UNCHANGED <<files, uploading, uploads, lostClears>> /\ UNCHANGED clientVars
      /\ UNCHANGED linkVars /\ UNCHANGED watchVars
  BY DEF RequestDfu
<1>2. ServerType'
  BY <1>1 DEF IInv, ServerType
<1>3. CountInv'
  <2>1. starts' = starts
    BY <1>1 DEF clientVars
  <2>2. /\ starts + 1 <= (requests + 1) + lostClears
        /\ starts <= (requests + 1) + lostClears
    BY DEF IInv, CountInv, ServerType, ClientType
  <2>3. starts' + 1 <= requests' + lostClears' /\ starts' <= requests' + lostClears'
    BY <1>1, <2>1, <2>2
  <2> QED BY <2>3 DEF CountInv
<1>4. ClientType' /\ WatchType' /\ LinkType' /\ ActivateInv'
  BY <1>1, ClientUnchanged, WatchUnchanged, LinkUnchanged DEF watchVars
<1>5. faults' \in Nat
  BY <1>1 DEF IInv
<1> QED BY <1>2, <1>3, <1>4, <1>5 DEF IInv

LEMMA UploadBinStep == ASSUME IInv, NEW v \in Versions, UploadBin(v) PROVE IInv'
<1>1. /\ uploading' = v /\ files' = [files EXCEPT !.bin = v] /\ uploads' = uploads + 1
      /\ UNCHANGED request /\ UNCHANGED requests /\ UNCHANGED lostClears
      /\ UNCHANGED clientVars /\ UNCHANGED linkVars /\ UNCHANGED watchVars
      /\ UNCHANGED faults
  BY DEF UploadBin
<1>2. ServerType'
  BY <1>1 DEF IInv, ServerType, Maybe
<1>3. ClientType' /\ WatchType' /\ LinkType' /\ ActivateInv'
  BY <1>1, ClientUnchanged, WatchUnchanged, LinkUnchanged DEF watchVars
<1>4. faults' \in Nat /\ faults <= faults' /\ UNCHANGED starts
  BY <1>1 DEF IInv, clientVars
<1>5. CountInv'
  BY <1>1, <1>4, CountsKept
<1> QED BY <1>2, <1>3, <1>4, <1>5 DEF IInv

LEMMA UploadDatStep ==
  ASSUME IInv, NEW written \in BOOLEAN, UploadDat(written) PROVE IInv'
<1>1. /\ uploading # NoVersion /\ uploading' = NoVersion
      /\ UNCHANGED request /\ UNCHANGED requests /\ UNCHANGED uploads
      /\ UNCHANGED lostClears /\ UNCHANGED clientVars /\ UNCHANGED linkVars /\ UNCHANGED watchVars
  BY DEF UploadDat
<1>2. Fault("upload_fails") \/ UNCHANGED faults
  BY DEF UploadDat
<1>3. files' = [files EXCEPT !.dat = uploading] \/ UNCHANGED files
  BY DEF UploadDat
<1>4. ServerType'
  BY <1>1, <1>3 DEF IInv, ServerType, Maybe
<1>5. ClientType' /\ WatchType' /\ LinkType' /\ ActivateInv'
  BY <1>1, ClientUnchanged, WatchUnchanged, LinkUnchanged DEF watchVars
<1>6. faults' \in Nat /\ faults <= faults' /\ UNCHANGED starts
  BY <1>1, <1>2, FaultCounts DEF clientVars
<1>7. CountInv'
  BY <1>1, <1>6, CountsKept
<1> QED BY <1>4, <1>5, <1>6, <1>7 DEF IInv

LEMMA StartDfuStep ==
  ASSUME IInv, NEW posted \in BOOLEAN, StartDfu(posted) PROVE IInv'
<1>1. /\ state_' = "DOWNLOADING" /\ have' = NoImage /\ bytes_sent_' = 0
      /\ packets_since_receipt_' = 0 /\ waiting_for_notification_' = FALSE
      /\ starts' = starts + 1 /\ UNCHANGED stale /\ request
      /\ UNCHANGED files /\ UNCHANGED uploading /\ UNCHANGED requests
      /\ UNCHANGED uploads /\ UNCHANGED linkVars /\ UNCHANGED watchVars
  BY DEF StartDfu
<1>2. \/ request' = FALSE /\ UNCHANGED lostClears /\ UNCHANGED faults
      \/ UNCHANGED request /\ lostClears' = lostClears + 1 /\ faults' = faults + 1
  BY DEF StartDfu, ClearRequest, Fault
<1>3. ServerType' /\ faults' \in Nat
  <2>1. request \in BOOLEAN /\ faults \in Nat /\ lostClears \in Nat
    BY DEF IInv, ServerType
  <2>2. request' \in BOOLEAN
    <3>1. request' = FALSE \/ request' = request
      BY <1>2
    <3> QED BY <2>1, <3>1, Zenon
  <2>3. faults' \in Nat /\ lostClears' \in Nat
    <3>1. /\ faults' = faults \/ faults' = faults + 1
          /\ lostClears' = lostClears \/ lostClears' = lostClears + 1
      BY <1>2
    <3> QED BY <2>1, <3>1
  <2> QED BY <1>1, <2>2, <2>3 DEF IInv, ServerType
<1>4. ClientType'
  <2>1. have' \in [bin : Maybe(Versions), len : 0..Capacity, dat : Maybe(Versions)]
        /\ have'.len = 0
    BY <1>1, DfuAssumption DEF NoImage, Maybe
  <2>2. packets_since_receipt_' \in 0..RECEIPT_INTERVAL
    BY <1>1, DfuAssumption
  <2>3. SentInv'
    BY <1>1, <2>1 DEF SentInv
  <2>4. starts' \in Nat /\ stale' \in BOOLEAN
    BY <1>1 DEF IInv, ClientType
  <2> QED BY <1>1, <2>1, <2>2, <2>3, <2>4 DEF ClientType, DfuState
<1>5. WatchType' /\ LinkType' /\ ActivateInv'
  BY <1>1, WatchUnchanged, LinkUnchanged DEF watchVars
<1>6. CountInv'
  <2>1. starts + 1 <= requests + lostClears
    BY <1>1 DEF IInv, CountInv
  <2>2. starts \in Nat /\ requests \in Nat /\ lostClears \in Nat
    BY DEF IInv, ServerType, ClientType
  <2>3. CASE request' = FALSE /\ UNCHANGED lostClears
    BY <1>1, <2>1, <2>3 DEF CountInv
  <2>4. CASE UNCHANGED request /\ lostClears' = lostClears + 1
    <3>1. /\ (starts + 1) + 1 <= requests + (lostClears + 1)
          /\ starts + 1 <= requests + (lostClears + 1)
      BY <2>1, <2>2
    <3>2. /\ starts' + 1 <= requests' + lostClears'
          /\ starts' <= requests' + lostClears'
      BY <1>1, <2>4, <3>1
    <3> QED BY <3>2 DEF CountInv
  <2> QED BY <1>2, <2>3, <2>4
<1> QED BY <1>3, <1>4, <1>5, <1>6 DEF IInv

-----------------------------------------------------------------------------
(* The client.                                                              *)

\* What the steps from here on have in common.
LEMMA RestOfStep ==
  ASSUME IInv, UNCHANGED serverVars, UNCHANGED starts, faults' \in Nat, faults <= faults',
         ClientType', LinkType', WatchType', ActivateInv'
  PROVE  IInv'
<1>1. ServerType'
  BY ServerUnchanged
<1>2. UNCHANGED request /\ UNCHANGED requests /\ UNCHANGED lostClears
  BY DEF serverVars
<1>3. CountInv'
  BY <1>2, CountsKept
<1> QED BY <1>1, <1>3 DEF IInv

LEMMA DownloadBinStep ==
  ASSUME IInv, NEW answered \in BOOLEAN, DownloadBin(answered) PROVE IInv'
<1>1. /\ state_ = "DOWNLOADING" /\ UNCHANGED serverVars /\ UNCHANGED bytes_sent_
      /\ UNCHANGED packets_since_receipt_ /\ UNCHANGED waiting_for_notification_
      /\ UNCHANGED stale /\ UNCHANGED starts /\ UNCHANGED linkVars /\ UNCHANGED watchVars
  BY DEF DownloadBin
<1>2. \/ /\ have' = [have EXCEPT !.bin = files.bin,
                                 !.len = AtMost(BinChunks[files.bin], Capacity)]
         /\ UNCHANGED state_ /\ UNCHANGED faults
      \/ Fault("download_fails") /\ state_' = "FAILED" /\ UNCHANGED have
  BY DEF DownloadBin
<1>3. faults' \in Nat /\ faults <= faults'
  BY <1>2, FaultCounts
<1>4. files.bin \in Versions /\ AtMost(BinChunks[files.bin], Capacity) \in 0..Capacity
  BY DfuAssumption DEF IInv, ServerType, AtMost
<1>5. have' \in [bin : Maybe(Versions), len : 0..Capacity, dat : Maybe(Versions)]
  BY <1>2, <1>4 DEF IInv, ClientType, Maybe
<1>6. bytes_sent_' = 0 /\ state_' \in {"DOWNLOADING", "FAILED"}
  BY <1>1, <1>2 DEF IInv, ClientType, SentInv
<1>7. 0 <= have'.len
  BY <1>5, DfuAssumption
<1>8. SentInv'
  BY <1>6, <1>7 DEF SentInv
<1>9. ClientType'
  BY <1>1, <1>5, <1>6, <1>8 DEF IInv, ClientType, DfuState
<1>10. LinkType' /\ WatchType' /\ ActivateInv'
  BY <1>1, WatchUnchanged, LinkUnchanged DEF watchVars
<1> QED BY <1>1, <1>3, <1>9, <1>10, RestOfStep

LEMMA DownloadDatStep ==
  ASSUME IInv, NEW answered \in BOOLEAN, DownloadDat(answered) PROVE IInv'
<1>1. /\ state_ = "DOWNLOADING" /\ UNCHANGED serverVars /\ UNCHANGED bytes_sent_
      /\ UNCHANGED packets_since_receipt_ /\ UNCHANGED waiting_for_notification_
      /\ UNCHANGED stale /\ UNCHANGED starts /\ UNCHANGED air /\ UNCHANGED notes
      /\ UNCHANGED watchVars
  BY DEF DownloadDat
<1>2. \/ /\ have' = [have EXCEPT !.dat = files.dat] /\ state_' = "CONNECTING"
         /\ link' = (IF Up THEN "searching" ELSE "opening") /\ UNCHANGED faults
      \/ /\ Fault("download_fails") /\ state_' = "FAILED"
         /\ UNCHANGED have /\ UNCHANGED link
  BY DEF DownloadDat
<1>3. faults' \in Nat /\ faults <= faults'
  BY <1>2, FaultCounts
<1>4. files.dat \in Versions
  BY DEF IInv, ServerType
<1>5. /\ have' \in [bin : Maybe(Versions), len : 0..Capacity, dat : Maybe(Versions)]
      /\ have'.len = have.len
  BY <1>2, <1>4 DEF IInv, ClientType, Maybe
<1>6. bytes_sent_' <= have'.len /\ state_' \in {"CONNECTING", "FAILED"}
  BY <1>1, <1>2, <1>5 DEF IInv, ClientType, SentInv, Active
<1>7. ClientType'
  BY <1>1, <1>5, <1>6 DEF IInv, ClientType, SentInv, DfuState
<1>8. WatchType' /\ UNCHANGED wstate
  BY <1>1, WatchUnchanged DEF watchVars
<1>9. link' \in {"down", "opening", "searching", "ready"} /\ (Up' <=> Up)
  BY <1>2 DEF IInv, LinkType, Up
<1>10. LinkType' /\ ActivateInv'
  BY <1>1, <1>8, <1>9 DEF IInv, LinkType, ActivateInv, ActivateIn, ValidatedIn
<1> QED BY <1>1, <1>3, <1>7, <1>8, <1>10, RestOfStep

LEMMA ReconnectStep == ASSUME IInv, Reconnect PROVE IInv'
<1>1. /\ link = "down" /\ link' = "opening" /\ UNCHANGED serverVars
      /\ UNCHANGED clientVars /\ UNCHANGED air /\ UNCHANGED notes
      /\ UNCHANGED watchVars /\ UNCHANGED faults
  BY DEF Reconnect
<1>2. ClientType' /\ WatchType' /\ UNCHANGED wstate /\ UNCHANGED starts
  BY <1>1, ClientUnchanged, WatchUnchanged DEF watchVars, clientVars
<1>3. LinkType' /\ ActivateInv'
  BY <1>1, <1>2 DEF IInv, LinkType, ActivateInv, Up, ActivateIn, ValidatedIn
<1> QED BY <1>1, <1>2, <1>3, RestOfStep, FaultCounts

\* No note is left over when a link opens.
LEMMA OpenedStep == ASSUME IInv, Opened PROVE IInv'
<1>1. /\ link = "opening" /\ notes = <<>> /\ link' = "searching" /\ UNCHANGED serverVars
      /\ UNCHANGED clientVars /\ UNCHANGED air /\ UNCHANGED notes
      /\ UNCHANGED watchVars /\ UNCHANGED faults
  BY DEF Opened
<1>2. ClientType' /\ WatchType' /\ UNCHANGED wstate /\ UNCHANGED starts
  BY <1>1, ClientUnchanged, WatchUnchanged DEF watchVars, clientVars
<1>3. air' = <<>>
  BY <1>1 DEF IInv, ActivateInv, Up
<1>4. LinkType'
  BY <1>1 DEF IInv, LinkType
<1>5. ActivateInv'
  BY <1>1, <1>3, EmptyQueue DEF ActivateInv
<1> QED BY <1>1, <1>2, <1>4, <1>5, RestOfStep, FaultCounts

\* A step that sends something on the link as it is, and answers a note or none.
LEMMA SendStep ==
  ASSUME IInv, NEW msgs \in Seq(Message), Send(msgs),
         (Up' <=> Up), link' \in {"down", "opening", "searching", "ready"},
         notes' \in Seq(NoteKind), ValidatedIn(notes') => ValidatedIn(notes),
         ActivateIn(msgs) => ValidatedIn(notes), UNCHANGED wstate
  PROVE  LinkType' /\ ActivateInv'
<1>1. /\ air' \in Seq(Message) /\ (~Up => air' = <<>>)
      /\ ActivateIn(air') => ActivateIn(air) \/ (Up /\ ActivateIn(msgs))
  BY SendQueues
<1>2. Up /\ ValidatedIn(notes) => wstate = "Validated"
  BY DEF IInv, ActivateInv
<1>3. ActivateIn(air') => wstate' = "Validated"
  BY <1>1, <1>2 DEF IInv, ActivateInv
<1>4. ActivateInv'
  <2>1. ActivateInv' <=>
          /\ ~Up' => air' = <<>>
          /\ Up' /\ ValidatedIn(notes') => wstate' = "Validated"
          /\ ActivateIn(air') => wstate' = "Validated"
    BY DEF ActivateInv, ActivateIn, ValidatedIn
  <2> QED BY <1>1, <1>2, <1>3, <2>1
<1> QED BY <1>1, <1>4 DEF LinkType

LEMMA SearchStep == ASSUME IInv, NEW found \in BOOLEAN, SearchCompletes(found) PROVE IInv'
<1>1. /\ link = "searching" /\ link' = "ready" /\ UNCHANGED serverVars
      /\ UNCHANGED have /\ UNCHANGED bytes_sent_ /\ UNCHANGED packets_since_receipt_
      /\ UNCHANGED stale /\ UNCHANGED starts /\ UNCHANGED notes /\ UNCHANGED watchVars
  BY DEF SearchCompletes
<1>2. Fault("no_service") \/ UNCHANGED faults
  BY DEF SearchCompletes
<1>3. faults' \in Nat /\ faults <= faults'
  BY <1>2, FaultCounts
<1>4. WatchType' /\ UNCHANGED wstate /\ Up /\ Up'
  BY <1>1, WatchUnchanged DEF watchVars, Up
<1>5. CASE state_ = "CONNECTING" /\ found
  <2> DEFINE m == [op |-> "start", len |-> have.len]
  <2>1. state_' = "STARTING" /\ Send(<<m>>) /\ waiting_for_notification_' = TRUE
    BY <1>5 DEF SearchCompletes
  <2>2. ClientType'
    BY <1>1, <1>5, <2>1 DEF IInv, ClientType, SentInv, Active, DfuState
  <2>3. m \in Message /\ m.op = "start"
    BY DEF Message, IInv, ClientType
  <2>4. <<m>> \in Seq(Message) /\ ~ActivateIn(<<m>>)
    BY <2>3, OneMessage
  <2>5. notes' \in Seq(NoteKind) /\ notes' = notes
    BY <1>1 DEF IInv, LinkType
  <2>6. LinkType' /\ ActivateInv'
    BY <1>1, <1>4, <2>1, <2>4, <2>5, SendStep
  <2> QED BY <1>1, <1>3, <1>4, <2>2, <2>6, RestOfStep
<1>6. CASE ~(state_ = "CONNECTING" /\ found)
  <2>1. UNCHANGED state_ /\ UNCHANGED air /\ UNCHANGED waiting_for_notification_
    BY <1>6 DEF SearchCompletes
  <2>2. ClientType'
    BY <1>1, <2>1, ClientUnchanged DEF clientVars
  <2>3. LinkType' /\ ActivateInv'
    BY <1>1, <1>4, <2>1 DEF IInv, LinkType, ActivateInv, ActivateIn, ValidatedIn
  <2> QED BY <1>1, <1>3, <1>4, <2>2, <2>3, RestOfStep
<1> QED BY <1>5, <1>6

\* Chunks are sent as long as there are any and the window has room.
LEMMA BurstFits ==
  ASSUME IInv, NEW sent \in Nat, sent <= have.len, NEW packets \in 0..RECEIPT_INTERVAL
  PROVE  /\ Burst(sent, packets) \in Nat
         /\ sent + Burst(sent, packets) <= have.len
         /\ packets + Burst(sent, packets) \in 0..RECEIPT_INTERVAL
<1>1. have.len \in Nat /\ RECEIPT_INTERVAL \in Nat
  BY DfuAssumption DEF IInv, ClientType
<1>2. have.len - sent \in Nat /\ RECEIPT_INTERVAL - packets \in Nat
  BY <1>1
<1>3. \/ have.len - sent < RECEIPT_INTERVAL - packets /\ Burst(sent, packets) = have.len - sent
      \/ /\ have.len - sent >= RECEIPT_INTERVAL - packets
         /\ Burst(sent, packets) = RECEIPT_INTERVAL - packets
  BY <1>2 DEF Burst, AtMost
<1> QED BY <1>1, <1>2, <1>3

LEMMA ChunksType ==
  ASSUME IInv, NEW from \in Nat, NEW n \in Nat
  PROVE  Chunks(from, n) \in Seq(Message) /\ ~ActivateIn(Chunks(from, n))
<1>1. have.bin \in Maybe(Versions)
  BY DEF IInv, ClientType
<1>2. \A i \in 1..n : from + i \in Nat
  OBVIOUS
<1>3. \A i \in 1..n : [op |-> "chunk", ver |-> have.bin, no |-> from + i] \in Message
  BY <1>1, <1>2 DEF Message
<1>4. Chunks(from, n) \in [1..n -> Message]
  BY <1>3 DEF Chunks
<1>5. Chunks(from, n) \in Seq(Message)
  BY <1>4
<1>6. \A i \in 1..n : Chunks(from, n)[i].op = "chunk"
  BY DEF Chunks
<1>7. DOMAIN Chunks(from, n) = 1..n
  BY DEF Chunks
<1> QED BY <1>5, <1>6, <1>7 DEF ActivateIn

LEMMA ChunksStep ==
  ASSUME IInv, NEW prefix \in Seq(Message), ~ActivateIn(prefix),
         NEW sent \in Nat, sent <= have.len, NEW packets \in 0..RECEIPT_INTERVAL,
         SendChunks(prefix, sent, packets), state_' \in DfuState \ {"DOWNLOADING"},
         UNCHANGED have, UNCHANGED stale, UNCHANGED starts, UNCHANGED link,
         notes' \in Seq(NoteKind), ValidatedIn(notes') => ValidatedIn(notes),
         UNCHANGED wstate
  PROVE  ClientType' /\ LinkType' /\ ActivateInv'
<1> DEFINE n == Burst(sent, packets)
<1> HIDE DEF n
<1>1. n \in Nat /\ sent + n <= have.len /\ packets + n \in 0..RECEIPT_INTERVAL
  BY BurstFits DEF n
<1>2. /\ Send(prefix \o Chunks(sent, n)) /\ bytes_sent_' = sent + n
      /\ packets_since_receipt_' = packets + n /\ waiting_for_notification_' = TRUE
  BY DEF SendChunks, n
<1>3. prefix \o Chunks(sent, n) \in Seq(Message) /\ ~ActivateIn(prefix \o Chunks(sent, n))
  <2>1. Chunks(sent, n) \in Seq(Message) /\ ~ActivateIn(Chunks(sent, n))
    BY <1>1, ChunksType
  <2> QED BY <2>1, ConcatFrom DEF ActivateIn
<1>4. (Up' <=> Up) /\ link' \in {"down", "opening", "searching", "ready"}
  BY DEF Up, IInv, LinkType
<1>5. LinkType' /\ ActivateInv'
  BY <1>2, <1>3, <1>4, SendStep
<1>6. bytes_sent_' <= have'.len /\ bytes_sent_' \in Nat
      /\ packets_since_receipt_' \in 0..RECEIPT_INTERVAL
  BY <1>1, <1>2
<1>7. SentInv'
  BY <1>6 DEF SentInv
<1>8. ClientType'
  BY <1>2, <1>6, <1>7 DEF IInv, ClientType
<1> QED BY <1>5, <1>8

LEMMA HandleStep == ASSUME IInv, HandleNotification PROVE IInv'
<1> DEFINE n == Head(notes)
<1>1. /\ notes # <<>> /\ state_ # "DOWNLOADING" /\ notes' = Tail(notes)
      /\ UNCHANGED serverVars /\ UNCHANGED have /\ UNCHANGED stale /\ UNCHANGED starts
      /\ UNCHANGED link /\ UNCHANGED watchVars /\ UNCHANGED faults
  BY DEF HandleNotification
<1>2. notes \in Seq(NoteKind) /\ air \in Seq(Message)
  BY DEF IInv, LinkType
<1>3. /\ notes' \in Seq(NoteKind) /\ n \in NoteKind
      /\ ValidatedIn(notes') => ValidatedIn(notes)
      /\ n = "validated" => ValidatedIn(notes)
  BY <1>1, <1>2, TailFrom, FromKeeps DEF ValidatedIn
<1>4. WatchType' /\ UNCHANGED wstate /\ faults' \in Nat /\ faults <= faults'
  BY <1>1, WatchUnchanged, FaultCounts DEF watchVars
<1>5. (Up' <=> Up) /\ link' \in {"down", "opening", "searching", "ready"}
  BY <1>1 DEF Up, IInv, LinkType
<1>6. SUFFICES ClientType' /\ LinkType' /\ ActivateInv'
  BY <1>1, <1>4, RestOfStep
<1>7. CASE ~Active /\ UNCHANGED <<state_, air, bytes_sent_, packets_since_receipt_,
                                  waiting_for_notification_>>
  <2>1. ClientType'
    BY <1>1, <1>7, ClientUnchanged DEF clientVars
  <2>2. LinkType'
    BY <1>1, <1>3, <1>7 DEF IInv, LinkType
  <2>3. ActivateInv'
    BY <1>3, <1>4, <1>5, <1>7 DEF IInv, ActivateInv, ActivateIn, ValidatedIn
  <2> QED BY <2>1, <2>2, <2>3
<1>8. CASE /\ Active /\ n \in {"started", "received", "validated"}
           /\ state_' = PhaseAfter(n) /\ Send(<<Reply(n)>>)
           /\ waiting_for_notification_' = (n # "validated")
           /\ UNCHANGED <<bytes_sent_, packets_since_receipt_>>
  <2>1. state_' \in {"SENDING_INIT", "VALIDATING", "COMPLETE"}
    BY <1>8 DEF PhaseAfter
  <2>2. bytes_sent_ <= have.len
    BY <1>8 DEF IInv, ClientType, SentInv
  <2>3. SentInv'
    BY <1>1, <1>8, <2>1, <2>2 DEF SentInv
  <2>4. waiting_for_notification_' \in BOOLEAN
    BY <1>8
  <2>5. ClientType'
    BY <1>1, <1>8, <2>1, <2>3, <2>4 DEF IInv, ClientType, DfuState
  <2>6. Reply(n) \in Message /\ (Reply(n).op = "activate" => n = "validated")
    BY <1>8 DEF Reply, Message, IInv, ClientType
  <2>7. <<Reply(n)>> \in Seq(Message) /\ (ActivateIn(<<Reply(n)>>) => ValidatedIn(notes))
    BY <1>3, <2>6, OneMessage
  <2>8. LinkType' /\ ActivateInv'
    BY <1>3, <1>4, <1>5, <1>8, <2>7, SendStep
  <2> QED BY <2>5, <2>8
<1>9. CASE /\ Active /\ n = "initialised" /\ state_' = "SENDING_FIRMWARE"
           /\ SendChunks(<<[op |-> "receive"]>>, 0, 0)
  <2>1. [op |-> "receive"] \in Message
    BY DEF Message
  <2>2. <<[op |-> "receive"]>> \in Seq(Message) /\ ~ActivateIn(<<[op |-> "receive"]>>)
    BY <2>1, OneMessage
  <2>3. 0 <= have.len /\ 0 \in 0..RECEIPT_INTERVAL
    BY DfuAssumption DEF IInv, ClientType
  <2>4. state_' \in DfuState \ {"DOWNLOADING"}
    BY <1>9 DEF DfuState
  <2> QED BY <1>1, <1>3, <1>4, <1>9, <2>2, <2>3, <2>4, ChunksStep
<1>10. CASE Active /\ n = "receipt" /\ SendChunks(<<>>, bytes_sent_, 0) /\ UNCHANGED state_
  <2>1. bytes_sent_ <= have.len /\ bytes_sent_ \in Nat
    BY <1>10 DEF IInv, ClientType, SentInv
  <2>2. 0 \in 0..RECEIPT_INTERVAL
    BY DfuAssumption
  <2>3. state_' \in DfuState \ {"DOWNLOADING"}
    BY <1>1, <1>10 DEF IInv, ClientType
  <2> QED BY <1>1, <1>3, <1>4, <1>10, <2>1, <2>2, <2>3, EmptyQueue, ChunksStep
<1>11. CASE /\ Active /\ n \in {"error", "other"}
            /\ state_' = (IF n = "error" THEN "FAILED" ELSE state_)
            /\ waiting_for_notification_' = FALSE
            /\ UNCHANGED <<air, bytes_sent_, packets_since_receipt_>>
  <2>1. state_' \in {"FAILED", state_}
    BY <1>11
  <2>2. bytes_sent_ <= have.len
    BY <1>11 DEF IInv, ClientType, SentInv
  <2>3. SentInv'
    BY <1>1, <1>11, <2>1, <2>2 DEF SentInv
  <2>4. ClientType'
    BY <1>1, <1>11, <2>1, <2>3 DEF IInv, ClientType, DfuState
  <2>5. LinkType'
    BY <1>1, <1>3, <1>11 DEF IInv, LinkType
  <2>6. ActivateInv'
    BY <1>3, <1>4, <1>5, <1>11 DEF IInv, ActivateInv, ActivateIn, ValidatedIn
  <2> QED BY <2>4, <2>5, <2>6
<1> QED BY <1>7, <1>8, <1>9, <1>10, <1>11 DEF HandleNotification

LEMMA ProcessStep == ASSUME IInv, Process PROVE IInv'
<1>1. /\ state_ = "SENDING_FIRMWARE" /\ UNCHANGED state_ /\ UNCHANGED have
      /\ UNCHANGED stale /\ UNCHANGED starts /\ UNCHANGED link /\ UNCHANGED notes
      /\ UNCHANGED serverVars /\ UNCHANGED watchVars /\ UNCHANGED faults
      /\ SendChunks(<<>>, bytes_sent_, packets_since_receipt_)
  BY DEF Process
<1>2. /\ bytes_sent_ <= have.len /\ bytes_sent_ \in Nat
      /\ packets_since_receipt_ \in 0..RECEIPT_INTERVAL
  BY <1>1 DEF IInv, ClientType, SentInv, Active
<1>3. state_' \in DfuState \ {"DOWNLOADING"}
  BY <1>1 DEF DfuState
<1>4. WatchType' /\ UNCHANGED wstate /\ faults' \in Nat /\ faults <= faults'
  BY <1>1, WatchUnchanged, FaultCounts DEF watchVars
<1>5. notes' \in Seq(NoteKind) /\ notes' = notes
  BY <1>1 DEF IInv, LinkType
<1>6. ClientType' /\ LinkType' /\ ActivateInv'
  BY <1>1, <1>2, <1>3, <1>4, <1>5, EmptyQueue, ChunksStep
<1> QED BY <1>1, <1>4, <1>6, RestOfStep

LEMMA TimesOutStep == ASSUME IInv, NEW early \in BOOLEAN, TimesOut(early) PROVE IInv'
<1>1. /\ state_' = "IDLE" /\ have' = NoImage /\ stale' = (stale \/ early)
      /\ UNCHANGED serverVars /\ UNCHANGED bytes_sent_
      /\ UNCHANGED packets_since_receipt_ /\ UNCHANGED waiting_for_notification_
      /\ UNCHANGED starts /\ UNCHANGED linkVars /\ UNCHANGED watchVars
  BY DEF TimesOut
<1>2. Fault("slow") \/ UNCHANGED faults
  BY DEF TimesOut
<1>3. faults' \in Nat /\ faults <= faults'
  BY <1>2, FaultCounts
<1>4. have' \in [bin : Maybe(Versions), len : 0..Capacity, dat : Maybe(Versions)]
  BY <1>1, DfuAssumption DEF NoImage, Maybe
<1>5. stale' \in BOOLEAN
  BY <1>1
<1>6. SentInv'
  BY <1>1 DEF SentInv, Active
<1>7. ClientType'
  BY <1>1, <1>4, <1>5, <1>6 DEF IInv, ClientType, DfuState
<1>8. WatchType' /\ LinkType' /\ ActivateInv'
  BY <1>1, WatchUnchanged, LinkUnchanged DEF watchVars
<1> QED BY <1>1, <1>3, <1>7, <1>8, RestOfStep

LEMMA DfuDoneStep == ASSUME IInv, DfuDone PROVE IInv'
<1>1. /\ state_' = "IDLE" /\ have' = NoImage /\ UNCHANGED stale
      /\ UNCHANGED serverVars /\ UNCHANGED bytes_sent_
      /\ UNCHANGED packets_since_receipt_ /\ UNCHANGED waiting_for_notification_
      /\ UNCHANGED starts /\ UNCHANGED linkVars /\ UNCHANGED watchVars
      /\ UNCHANGED faults
  BY DEF DfuDone
<1>2. have' \in [bin : Maybe(Versions), len : 0..Capacity, dat : Maybe(Versions)]
  BY <1>1, DfuAssumption DEF NoImage, Maybe
<1>3. SentInv'
  BY <1>1 DEF SentInv, Active
<1>4. ClientType'
  BY <1>1, <1>2, <1>3 DEF IInv, ClientType, DfuState
<1>5. WatchType' /\ LinkType' /\ ActivateInv'
  BY <1>1, WatchUnchanged, LinkUnchanged DEF watchVars
<1> QED BY <1>1, <1>4, <1>5, RestOfStep, FaultCounts

-----------------------------------------------------------------------------
(* The link and the watch.                                                  *)

LEMMA LinkLostStep == ASSUME IInv, LinkLost PROVE IInv'
<1>1. /\ link' = "down" /\ air' = <<>> /\ wstate' = "Idle" /\ wimage' = NoTransfer
      /\ UNCHANGED serverVars /\ UNCHANGED clientVars /\ UNCHANGED slot
      /\ UNCHANGED running /\ Fault("link_lost")
  BY DEF LinkLost
<1>2. PICK n \in 0..Len(notes) : notes' = SubSeq(notes, 1, n)
  BY DEF LinkLost
<1>3. notes' \in Seq(NoteKind)
  BY <1>2, PrefixFrom DEF IInv, LinkType
<1>4. LinkType'
  BY <1>1, <1>3, EmptyQueue DEF LinkType
<1>5. ActivateInv'
  BY <1>1, EmptyQueue DEF ActivateInv, Up
<1>6. WatchType'
  BY <1>1 DEF IInv, WatchType, NoTransfer, Maybe
<1>7. ClientType' /\ faults' \in Nat /\ faults <= faults' /\ UNCHANGED starts
  BY <1>1, ClientUnchanged, FaultCounts DEF clientVars
<1> QED BY <1>1, <1>4, <1>5, <1>6, <1>7, RestOfStep

LEMMA WriteRefusedStep == ASSUME IInv, WriteRefused PROVE IInv'
<1>1. /\ UNCHANGED serverVars /\ UNCHANGED clientVars /\ UNCHANGED link
      /\ UNCHANGED notes /\ UNCHANGED watchVars /\ Fault("write_refused")
  BY DEF WriteRefused
<1>2. PICK i \in DOMAIN air : air' = SubSeq(air, 1, i - 1) \o SubSeq(air, i + 1, Len(air))
  BY DEF WriteRefused
<1>3. air' \in Seq(Message) /\ (ActivateIn(air') => ActivateIn(air))
  BY <1>2, RemoveFrom, FromKeeps DEF IInv, LinkType
<1>4. Up
  <2>1. air # <<>>
    BY <1>2
  <2> QED BY <2>1 DEF IInv, ActivateInv
<1>5. LinkType'
  BY <1>1, <1>3 DEF IInv, LinkType
<1>6. WatchType' /\ UNCHANGED wstate /\ ClientType' /\ UNCHANGED starts
  BY <1>1, WatchUnchanged, ClientUnchanged DEF watchVars, clientVars
<1>7. Up' /\ notes' = notes
  BY <1>1, <1>4 DEF Up
<1>8. ActivateInv'
  BY <1>3, <1>4, <1>6, <1>7 DEF IInv, ActivateInv, ActivateIn, ValidatedIn
<1>9. faults' \in Nat /\ faults <= faults'
  BY <1>1, FaultCounts
<1> QED BY <1>1, <1>5, <1>6, <1>8, <1>9, RestOfStep

\* The watch takes the oldest write and answers with a note, or with none; only what it
\* does in Validated may disturb the activation.
LEMMA TakeStep ==
  ASSUME IInv, Up, air # <<>>, air' = Tail(air), UNCHANGED link,
         UNCHANGED notes \/ \E n \in NoteKind :
             /\ notes' = Append(notes, n)
             /\ n = "validated" => wstate' = "Validated",
         wstate = "Validated" => wstate' = "Validated",
         WatchType', UNCHANGED serverVars, UNCHANGED clientVars,
         faults' \in Nat, faults <= faults'
  PROVE  IInv'
<1>1. air \in Seq(Message) /\ notes \in Seq(NoteKind)
  BY DEF IInv, LinkType
<1>2. air' \in Seq(Message) /\ (ActivateIn(air') => ActivateIn(air))
  BY <1>1, TailFrom, FromKeeps
<1>3. /\ notes' \in Seq(NoteKind)
      /\ ValidatedIn(notes') => ValidatedIn(notes) \/ wstate' = "Validated"
  <2>1. CASE UNCHANGED notes
    BY <1>1, <2>1 DEF ValidatedIn
  <2>2. CASE \E n \in NoteKind : /\ notes' = Append(notes, n)
                                 /\ n = "validated" => wstate' = "Validated"
    BY <1>1, <2>2, NoteAppended
  <2> QED BY <2>1, <2>2
<1>4. LinkType'
  BY <1>2, <1>3 DEF IInv, LinkType
<1>5. Up'
  BY DEF Up
<1>6. ActivateInv'
  <2>1. ValidatedIn(notes) => wstate = "Validated"
    BY DEF IInv, ActivateInv
  <2>2. ActivateIn(air) => wstate = "Validated"
    BY DEF IInv, ActivateInv
  <2>3. ValidatedIn(notes') => wstate' = "Validated"
    BY <1>3, <2>1
  <2>4. ActivateIn(air') => wstate' = "Validated"
    BY <1>2, <2>2
  <2> QED BY <1>5, <2>3, <2>4 DEF ActivateInv, ActivateIn, ValidatedIn
<1>7. ClientType' /\ UNCHANGED starts
  BY ClientUnchanged DEF clientVars
<1> QED BY <1>4, <1>6, <1>7, RestOfStep

LEMMA HeadType == ASSUME IInv, air # <<>> PROVE Head(air) \in Message
  BY TailFrom DEF IInv, LinkType

LEMMA WatchIgnoresStep == ASSUME IInv, WatchIgnores PROVE IInv'
<1>1. /\ Up /\ air # <<>> /\ air' = Tail(air) /\ UNCHANGED serverVars
      /\ UNCHANGED clientVars /\ UNCHANGED link /\ UNCHANGED notes
      /\ UNCHANGED watchVars /\ UNCHANGED faults
  BY DEF WatchIgnores
<1>2. WatchType' /\ UNCHANGED wstate
  BY <1>1, WatchUnchanged DEF watchVars
<1>3. faults' \in Nat /\ faults <= faults'
  BY <1>1, FaultCounts
<1> QED BY <1>1, <1>2, <1>3, TakeStep

LEMMA WatchReportsErrorStep == ASSUME IInv, WatchReportsError PROVE IInv'
<1>1. PICK op \in {"start", "init", "chunk"} : Takes(op)
  BY DEF WatchReportsError
<1>2. /\ air' = Tail(air) /\ notes' = Append(notes, "error") /\ wstate' = "Idle"
      /\ wimage' = NoTransfer /\ UNCHANGED serverVars /\ UNCHANGED clientVars
      /\ UNCHANGED link /\ UNCHANGED slot /\ UNCHANGED running /\ Fault("error")
  BY DEF WatchReportsError, Answer
<1>3. Up /\ air # <<>> /\ wstate # "Validated"
  BY <1>1 DEF Takes, StateFor
<1>4. WatchType'
  BY <1>2 DEF IInv, WatchType, NoTransfer, Maybe
<1>5. "error" \in NoteKind /\ faults' \in Nat /\ faults <= faults'
  BY <1>2, FaultCounts DEF NoteKind
<1> QED BY <1>2, <1>3, <1>4, <1>5, TakeStep

LEMMA WatchStartsStep == ASSUME IInv, WatchStarts PROVE IInv'
<1>1. /\ Takes("start") /\ wstate' = "Init"
      /\ wimage' = [NoTransfer EXCEPT !.len = Head(air).len]
      /\ air' = Tail(air) /\ notes' = Append(notes, "started")
      /\ UNCHANGED serverVars /\ UNCHANGED clientVars /\ UNCHANGED link
      /\ UNCHANGED slot /\ UNCHANGED running /\ UNCHANGED faults
  BY DEF WatchStarts, Answer
<1>2. Up /\ air # <<>> /\ wstate = "Idle" /\ Head(air).op = "start"
  BY <1>1 DEF Takes, StateFor
<1>3. Head(air).len \in Nat
  BY <1>2, HeadType, MessageFields
<1>4. WatchType'
  BY <1>1, <1>3 DEF IInv, WatchType, NoTransfer, Maybe
<1>5. "started" \in NoteKind /\ faults' \in Nat /\ faults <= faults'
  BY <1>1, FaultCounts DEF NoteKind
<1> QED BY <1>1, <1>2, <1>4, <1>5, TakeStep

LEMMA WatchInitsStep == ASSUME IInv, WatchInits PROVE IInv'
<1>1. /\ Takes("init") /\ wimage' = [wimage EXCEPT !.dat = Head(air).dat]
      /\ air' = Tail(air) /\ notes' = Append(notes, "initialised")
      /\ UNCHANGED serverVars /\ UNCHANGED clientVars /\ UNCHANGED link
      /\ UNCHANGED wstate /\ UNCHANGED slot /\ UNCHANGED running /\ UNCHANGED faults
  BY DEF WatchInits, Answer
<1>2. Up /\ air # <<>> /\ Head(air).op = "init"
  BY <1>1 DEF Takes
<1>3. Head(air).dat \in Maybe(Versions)
  BY <1>2, HeadType, MessageFields
<1>4. WatchType'
  BY <1>1, <1>3 DEF IInv, WatchType
<1>5. "initialised" \in NoteKind /\ faults' \in Nat /\ faults <= faults'
  BY <1>1, FaultCounts DEF NoteKind
<1> QED BY <1>1, <1>2, <1>4, <1>5, TakeStep

LEMMA WatchPreparesStep ==
  ASSUME IInv, NEW answers \in BOOLEAN, WatchPrepares(answers) PROVE IInv'
<1>1. /\ Takes("receive") /\ wstate' = "Data" /\ air' = Tail(air)
      /\ notes' = Append(notes, "other") \/ UNCHANGED notes
      /\ UNCHANGED serverVars /\ UNCHANGED clientVars /\ UNCHANGED link
      /\ UNCHANGED wimage /\ UNCHANGED slot /\ UNCHANGED running /\ UNCHANGED faults
  BY DEF WatchPrepares, Answer
<1>2. Up /\ air # <<>> /\ wstate = "Init"
  BY <1>1 DEF Takes, StateFor
<1>3. WatchType'
  BY <1>1 DEF IInv, WatchType
<1>4. "other" \in NoteKind /\ faults' \in Nat /\ faults <= faults'
  BY <1>1, FaultCounts DEF NoteKind
<1> QED BY <1>1, <1>2, <1>3, <1>4, TakeStep

LEMMA WatchStoresStep == ASSUME IInv, WatchStores PROVE IInv'
<1> DEFINE c == Head(air)
           next == wimage.got + 1
           fits == c.no = next /\ (wimage.got = 0 \/ wimage.ver = c.ver)
<1>1. /\ Takes("chunk") /\ air' = Tail(air)
      /\ wimage' = [wimage EXCEPT !.got = next, !.ver = IF fits THEN c.ver ELSE NoVersion]
      /\ wstate' \in {"Validate", "Data"}
      /\ UNCHANGED serverVars /\ UNCHANGED clientVars /\ UNCHANGED link
      /\ UNCHANGED slot /\ UNCHANGED running /\ UNCHANGED faults
  BY DEF WatchStores
<1>2. \/ notes' = Append(notes, "received") \/ notes' = Append(notes, "receipt")
      \/ UNCHANGED notes
  BY DEF WatchStores
<1>3. Up /\ air # <<>> /\ wstate = "Data" /\ c.op = "chunk"
  BY <1>1 DEF Takes, StateFor
<1>4. c.ver \in Maybe(Versions)
  BY <1>3, HeadType, MessageFields
<1>5. (IF fits THEN c.ver ELSE NoVersion) \in Maybe(Versions) /\ next \in Nat
  BY <1>4 DEF Maybe, IInv, WatchType
<1>6. WatchType'
  BY <1>1, <1>5 DEF IInv, WatchType
<1>7. /\ "received" \in NoteKind /\ "receipt" \in NoteKind
      /\ faults' \in Nat /\ faults <= faults'
  BY <1>1, FaultCounts DEF NoteKind
<1> QED BY <1>1, <1>2, <1>3, <1>6, <1>7, TakeStep

LEMMA WatchValidatesStep == ASSUME IInv, WatchValidates PROVE IInv'
<1>1. /\ Takes("validate") /\ air' = Tail(air) /\ UNCHANGED serverVars
      /\ UNCHANGED clientVars /\ UNCHANGED link /\ UNCHANGED wimage
      /\ UNCHANGED running /\ UNCHANGED faults
  BY DEF WatchValidates
<1>2. \/ /\ wstate' = "Validated" /\ slot' = wimage.ver
         /\ notes' = Append(notes, "validated")
      \/ wstate' = "Idle" /\ UNCHANGED slot /\ notes' = Append(notes, "error")
  BY DEF WatchValidates, Answer
<1>3. Up /\ air # <<>> /\ wstate = "Validate"
  BY <1>1 DEF Takes, StateFor
<1>4. WatchType'
  BY <1>1, <1>2 DEF IInv, WatchType
<1>5. /\ "validated" \in NoteKind /\ "error" \in NoteKind
      /\ faults' \in Nat /\ faults <= faults'
  BY <1>1, FaultCounts DEF NoteKind
<1> QED BY <1>1, <1>2, <1>3, <1>4, <1>5, TakeStep

LEMMA WatchActivatesStep == ASSUME IInv, WatchActivates PROVE IInv'
<1>1. /\ running' = slot /\ wstate' = "Idle" /\ wimage' = NoTransfer /\ link' = "down"
      /\ air' = <<>> /\ UNCHANGED serverVars /\ UNCHANGED clientVars
      /\ UNCHANGED notes /\ UNCHANGED slot /\ UNCHANGED faults
  BY DEF WatchActivates
<1>2. LinkType'
  BY <1>1, EmptyQueue DEF IInv, LinkType
<1>3. ActivateInv'
  BY <1>1, EmptyQueue DEF ActivateInv, Up
<1>4. WatchType'
  BY <1>1 DEF IInv, WatchType, NoTransfer, Maybe
<1>5. ClientType' /\ faults' \in Nat /\ faults <= faults' /\ UNCHANGED starts
  BY <1>1, ClientUnchanged, FaultCounts DEF clientVars
<1> QED BY <1>1, <1>2, <1>3, <1>4, <1>5, RestOfStep

-----------------------------------------------------------------------------
(* The theorems.                                                            *)

LEMMA NextKeeps == ASSUME IInv, [Next]_vars PROVE IInv'
<1>1. CASE UNCHANGED vars
  <2>1. /\ UNCHANGED serverVars /\ UNCHANGED clientVars /\ UNCHANGED linkVars
        /\ UNCHANGED watchVars /\ UNCHANGED faults
    BY <1>1 DEF vars
  <2>2. UNCHANGED starts /\ UNCHANGED wstate
    BY <2>1 DEF clientVars, watchVars
  <2> QED BY <2>1, <2>2, ClientUnchanged, WatchUnchanged, LinkUnchanged, FaultCounts,
             RestOfStep
<1>2. CASE RequestDfu
  BY <1>2, RequestDfuStep
<1>3. CASE \E v \in Versions : UploadBin(v)
  BY <1>3, UploadBinStep
<1>4. CASE \E written \in BOOLEAN : UploadDat(written)
  BY <1>4, UploadDatStep
<1>5. CASE \E posted \in BOOLEAN : StartDfu(posted)
  BY <1>5, StartDfuStep
<1>6. CASE \E answered \in BOOLEAN : DownloadBin(answered)
  BY <1>6, DownloadBinStep
<1>7. CASE \E answered \in BOOLEAN : DownloadDat(answered)
  BY <1>7, DownloadDatStep
<1>8. CASE Reconnect \/ Opened
  BY <1>8, ReconnectStep, OpenedStep
<1>9. CASE \E found \in BOOLEAN : SearchCompletes(found)
  BY <1>9, SearchStep
<1>10. CASE HandleNotification \/ Process
  BY <1>10, HandleStep, ProcessStep
<1>11. CASE \E early \in BOOLEAN : TimesOut(early)
  BY <1>11, TimesOutStep
<1>12. CASE DfuDone \/ LinkLost \/ WriteRefused
  BY <1>12, DfuDoneStep, LinkLostStep, WriteRefusedStep
<1>13. CASE WatchReportsError \/ WatchIgnores \/ WatchStarts \/ WatchInits
  BY <1>13, WatchReportsErrorStep, WatchIgnoresStep, WatchStartsStep, WatchInitsStep
<1>14. CASE \E answers \in BOOLEAN : WatchPrepares(answers)
  BY <1>14, WatchPreparesStep
<1>15. CASE WatchStores \/ WatchValidates \/ WatchActivates
  BY <1>15, WatchStoresStep, WatchValidatesStep, WatchActivatesStep
<1> QED
  BY <1>1, <1>2, <1>3, <1>4, <1>5, <1>6, <1>7, <1>8, <1>9, <1>10, <1>11, <1>12, <1>13,
     <1>14, <1>15 DEF Next

LEMMA InvariantHolds == Spec => []IInv
<1>1. IInv /\ [Next]_vars => IInv'
  BY NextKeeps
<1> QED BY <1>1, InitIInv, PTL DEF Spec

\* The client never counts beyond its window or the image it has, and what is sent and
\* answered has its types, whatever is repeated, lost or late (dfu_client.cpp:190-330).
THEOREM DfuTypeCorrect == Spec => []TypeOK
<1>1. IInv => TypeOK
  BY IInvImplies
<1> QED BY <1>1, InvariantHolds, PTL

\* The watch is told to activate only while it holds the image it has just validated:
\* an answer of an earlier link or update does not lead to it (dfu_client.cpp:263-330).
THEOREM NeverBlindActivate == Spec => []NoBlindActivate
<1>1. IInv => NoBlindActivate
  BY IInvImplies
<1> QED BY <1>1, InvariantHolds, PTL

\* Updates start no more often than they are requested, and once more for each post
\* that should have cleared a request and was lost (pinetime_bridge.cpp:868-873).
THEOREM AlwaysOneUpdate == Spec => []OneUpdatePerRequest
<1>1. IInv => OneUpdatePerRequest
  BY IInvImplies
<1> QED BY <1>1, InvariantHolds, PTL

-----------------------------------------------------------------------------
(* Remainders.                                                              *)

LEMMA DivMod ==
  ASSUME NEW R \in Nat \ {0}, NEW g \in Nat
  PROVE  /\ g = R * (g \div R) + (g % R)
         /\ g \div R \in Nat /\ g % R \in 0..(R - 1)
  OBVIOUS
LEMMA OneRemainder ==
  ASSUME NEW R \in Nat \ {0}, NEW a \in Int, NEW b \in Int,
         NEW r \in 0..(R - 1), NEW s \in 0..(R - 1), R * a + r = R * b + s
  PROVE  a = b /\ r = s
<1>1. R * (a - b) = s - r
  OBVIOUS
<1>2. CASE a - b >= 1
  <2>1. R * (a - b) >= R
    BY <1>2
  <2> QED BY <1>1, <2>1
<1>3. CASE a - b <= -1
  <2>1. R * (a - b) <= -R
    BY <1>3
  <2> QED BY <1>1, <2>1
<1> QED BY <1>1, <1>2, <1>3

LEMMA NextRemainder ==
  ASSUME NEW R \in Nat \ {0}, NEW g \in Nat
  PROVE  (g + 1) % R = IF g % R = R - 1 THEN 0 ELSE (g % R) + 1
<1> DEFINE h == g + 1
           a == g \div R
           r == g % R
           b == h \div R
           s == h % R
<1>1. h \in Nat /\ h = g + 1
  OBVIOUS
<1> HIDE DEF h
<1>2. g = R * a + r /\ a \in Nat /\ r \in 0..(R - 1)
  BY DivMod
<1>3. h = R * b + s /\ b \in Nat /\ s \in 0..(R - 1)
  BY <1>1, DivMod
<1> HIDE DEF a, r, b, s
<1>4. CASE r = R - 1
  <2>1. R * (a + 1) + 0 = R * b + s
    BY <1>1, <1>2, <1>3, <1>4
  <2>2. 0 = s
    BY <1>2, <1>3, <2>1, OneRemainder
  <2> QED BY <1>4, <2>2 DEF r, s, h
<1>5. CASE r # R - 1
  <2>1. R * a + (r + 1) = R * b + s /\ r + 1 \in 0..(R - 1)
    BY <1>1, <1>2, <1>3, <1>5
  <2>2. r + 1 = s
    BY <1>2, <1>3, <2>1, OneRemainder
  <2> QED BY <1>5, <2>2 DEF r, s, h
<1> QED BY <1>4, <1>5

-----------------------------------------------------------------------------
(* Queues that lose elements and keep the order of the rest.                *)

Increasing(f, q) == \A i, j \in DOMAIN q : i < j => f[i] < f[j]
Embeds(q, p) ==
    \E f \in [DOMAIN q -> DOMAIN p] :
        Increasing(f, q) /\ \A i \in DOMAIN q : q[i] = p[f[i]]

Places(q) == {i \in DOMAIN q : IsChunk(q[i])}
Has(q, ops) == \E i \in DOMAIN q : q[i].op \in ops
OneOf(q, ops) == \A i, j \in DOMAIN q : q[i].op \in ops /\ q[j].op \in ops => i = j

\* A chunk follows a start; and when it does, every chunk does.
Behind(q) == \E i, k \in DOMAIN q : q[i].op = "start" /\ q[k].op = "chunk" /\ i < k
StartFirst(q) ==
    \A i, k \in DOMAIN q : q[i].op = "start" /\ q[k].op = "chunk" /\ i < k =>
        \A j \in DOMAIN q : q[j].op = "chunk" => i < j

Noted(q, kinds) == \E i \in DOMAIN q : q[i] \in kinds
OneNote(q, kinds) == \A i, j \in DOMAIN q : q[i] \in kinds /\ q[j] \in kinds => i = j

LEMMA TailEmbeds ==
  ASSUME NEW S, NEW q \in Seq(S), q # <<>>
  PROVE  Embeds(Tail(q), q)
<1> DEFINE t == Tail(q)
           f == [i \in DOMAIN t |-> i + 1]
<1>1. /\ Len(q) \in Nat /\ Len(q) >= 1 /\ DOMAIN q = 1..Len(q)
      /\ DOMAIN t = 1..(Len(q) - 1)
      /\ \A i \in 1..(Len(q) - 1) : t[i] = q[i + 1]
  OBVIOUS
<1> HIDE DEF t
<1>2. f \in [DOMAIN t -> DOMAIN q] /\ \A i \in DOMAIN t : t[i] = q[f[i]]
  BY <1>1
<1>3. Increasing(f, t)
  BY <1>1 DEF Increasing
<1>4. Embeds(t, q)
  BY <1>2, <1>3 DEF Embeds
<1> QED BY <1>4 DEF t

LEMMA PrefixEmbeds ==
  ASSUME NEW S, NEW q \in Seq(S), NEW n \in 0..Len(q)
  PROVE  Embeds(SubSeq(q, 1, n), q)
<1> DEFINE t == SubSeq(q, 1, n)
           f == [i \in DOMAIN t |-> i]
<1>1. /\ DOMAIN t = 1..n /\ \A i \in 1..n : t[i] = q[i]
      /\ DOMAIN q = 1..Len(q) /\ Len(q) \in Nat /\ n \in Nat /\ n <= Len(q)
  OBVIOUS
<1> HIDE DEF t
<1>2. f \in [DOMAIN t -> DOMAIN q] /\ \A i \in DOMAIN t : t[i] = q[f[i]]
  BY <1>1
<1>3. Increasing(f, t)
  BY <1>1 DEF Increasing
<1>4. Embeds(t, q)
  BY <1>2, <1>3 DEF Embeds
<1> QED BY <1>4 DEF t

LEMMA RemoveEmbeds ==
  ASSUME NEW S, NEW q \in Seq(S), NEW i \in DOMAIN q
  PROVE  Embeds(SubSeq(q, 1, i - 1) \o SubSeq(q, i + 1, Len(q)), q)
<1> DEFINE a == SubSeq(q, 1, i - 1)
           b == SubSeq(q, i + 1, Len(q))
           t == a \o b
           f == [k \in DOMAIN t |-> IF k < i THEN k ELSE k + 1]
<1>1. Len(q) \in Nat /\ DOMAIN q = 1..Len(q) /\ i \in 1..Len(q)
  OBVIOUS
<1>2. /\ a \in Seq(S) /\ Len(a) = i - 1 /\ DOMAIN a = 1..(i - 1)
      /\ \A k \in 1..(i - 1) : a[k] = q[k]
  BY <1>1
<1>3. b \in Seq(S) /\ Len(b) = Len(q) - i /\ DOMAIN b = 1..(Len(q) - i)
  BY <1>1
<1>4. ASSUME NEW k \in 1..(Len(q) - i) PROVE b[k] = q[i + k]
  BY <1>1, <1>4
<1> HIDE DEF a, b
<1>5. DOMAIN t = 1..(Len(q) - 1)
  <2>1. a \in Seq(S) /\ b \in Seq(S)
    BY <1>2, <1>3
  <2>2. DOMAIN t = 1..(Len(a) + Len(b))
    BY <2>1
  <2>3. Len(a) + Len(b) = Len(q) - 1
    BY <1>1, <1>2, <1>3
  <2> QED BY <2>2, <2>3
<1>6. ASSUME NEW k \in 1..(Len(q) - 1)
      PROVE  t[k] = q[IF k < i THEN k ELSE k + 1]
  <2>1. CASE k < i
    <3>1. k \in 1..(i - 1) /\ t[k] = a[k]
      BY <1>1, <1>2, <1>3, <1>6, <2>1
    <3> QED BY <1>2, <2>1, <3>1
  <2>2. CASE ~(k < i)
    <3>1. /\ k - (i - 1) \in 1..(Len(q) - i) /\ i + (k - (i - 1)) = k + 1
          /\ t[k] = b[k - (i - 1)]
      BY <1>1, <1>2, <1>3, <1>6, <2>2
    <3> QED BY <1>4, <2>2, <3>1
  <2> QED BY <2>1, <2>2
<1> HIDE DEF t
<1>7. f \in [DOMAIN t -> DOMAIN q]
  BY <1>1, <1>5
<1>8. \A k \in DOMAIN t : t[k] = q[f[k]]
  BY <1>5, <1>6
<1>9. Increasing(f, t)
  BY <1>1, <1>5 DEF Increasing
<1>10. Embeds(t, q)
  BY <1>7, <1>8, <1>9 DEF Embeds
<1> QED BY <1>10 DEF t, a, b

LEMMA SameEmbeds ==
  ASSUME NEW S, NEW q \in Seq(S)
  PROVE  Embeds(q, q)
<1> DEFINE f == [i \in DOMAIN q |-> i]
<1>1. f \in [DOMAIN q -> DOMAIN q] /\ Increasing(f, q) /\ \A i \in DOMAIN q : q[i] = q[f[i]]
  BY DEF Increasing
<1> QED BY <1>1 DEF Embeds

LEMMA PlacesFinite ==
  ASSUME NEW S, NEW q \in Seq(S)
  PROVE  /\ IsFiniteSet(Places(q)) /\ ChunksIn(q) = Cardinality(Places(q))
         /\ ChunksIn(q) \in Nat
<1>1. DOMAIN q = 1..Len(q) /\ Len(q) \in Int /\ 1 \in Int
  OBVIOUS
<1>2. \A a, b \in Int : IsFiniteSet(a..b)
  BY FS_Interval
<1>3. IsFiniteSet(DOMAIN q) /\ Places(q) \subseteq DOMAIN q
  BY <1>1, <1>2 DEF Places
<1>4. IsFiniteSet(Places(q))
  BY <1>3, FS_Subset
<1> QED BY <1>4, FS_CardinalityType DEF ChunksIn, Places

\* What holds of every pair of positions survives.
LEMMA EmbedsKeeps ==
  ASSUME NEW S, NEW q \in Seq(S), NEW p \in Seq(S), Embeds(q, p)
  PROVE  /\ \A ops : Has(q, ops) => Has(p, ops)
         /\ \A ops : OneOf(p, ops) => OneOf(q, ops)
         /\ Behind(q) => Behind(p)
         /\ StartFirst(p) => StartFirst(q)
         /\ ChunksIn(q) <= ChunksIn(p)
         /\ \A kinds : Noted(q, kinds) => Noted(p, kinds)
         /\ \A kinds : OneNote(p, kinds) => OneNote(q, kinds)
         /\ From(q, p)
<1>1. PICK f \in [DOMAIN q -> DOMAIN p] :
           Increasing(f, q) /\ \A i \in DOMAIN q : q[i] = p[f[i]]
  BY DEF Embeds
<1>2. \A i \in DOMAIN q : i \in Int /\ f[i] \in DOMAIN p /\ f[i] \in Int
  <2>1. DOMAIN q \subseteq Int /\ DOMAIN p \subseteq Int
    OBVIOUS
  <2> QED BY <1>1, <2>1
<1>3. \A i, j \in DOMAIN q : (i < j <=> f[i] < f[j]) /\ (f[i] = f[j] => i = j)
  <2> SUFFICES ASSUME NEW i \in DOMAIN q, NEW j \in DOMAIN q
               PROVE  (i < j <=> f[i] < f[j]) /\ (f[i] = f[j] => i = j)
    OBVIOUS
  <2>1. /\ i < j => f[i] < f[j]
        /\ j < i => f[j] < f[i]
    BY <1>1 DEF Increasing
  <2>2. i \in Int /\ j \in Int /\ f[i] \in Int /\ f[j] \in Int
    BY <1>2
  <2> QED BY <2>1, <2>2
<1>4. From(q, p) /\ (\A ops : Has(q, ops) => Has(p, ops))
      /\ \A kinds : Noted(q, kinds) => Noted(p, kinds)
  BY <1>1, <1>2 DEF From, Has, Noted
<1>5. \A ops : OneOf(p, ops) => OneOf(q, ops)
  BY <1>1, <1>2, <1>3 DEF OneOf
<1>6. \A kinds : OneNote(p, kinds) => OneNote(q, kinds)
  BY <1>1, <1>2, <1>3 DEF OneNote
<1>7. Behind(q) => Behind(p)
  BY <1>1, <1>2, <1>3 DEF Behind
<1>8. StartFirst(p) => StartFirst(q)
  <2> SUFFICES ASSUME StartFirst(p), NEW i \in DOMAIN q, NEW k \in DOMAIN q,
                      q[i].op = "start", q[k].op = "chunk", i < k,
                      NEW j \in DOMAIN q, q[j].op = "chunk"
               PROVE  i < j
    BY DEF StartFirst
  <2>1. p[f[i]].op = "start" /\ p[f[k]].op = "chunk" /\ f[i] < f[k] /\ p[f[j]].op = "chunk"
    BY <1>1, <1>3
  <2>2. f[i] < f[j]
    BY <1>2, <2>1 DEF StartFirst
  <2> QED BY <1>3, <2>2
<1>9. ChunksIn(q) <= ChunksIn(p)
  <2> DEFINE g == [i \in Places(q) |-> f[i]]
  <2>1. \A i \in Places(q) : g[i] \in Places(p)
    BY <1>1, <1>2 DEF Places
  <2>2. \A i, j \in Places(q) : g[i] = g[j] => i = j
    BY <1>3 DEF Places
  <2>3. g \in Injection(Places(q), Places(p))
    BY <2>1, <2>2 DEF Injection, IsInjective
  <2>4. IsFiniteSet(Places(p))
    BY PlacesFinite
  <2>5. Cardinality(Places(q)) <= Cardinality(Places(p))
    BY <2>3, <2>4, FS_Injection
  <2> QED BY <2>5, PlacesFinite
<1> QED BY <1>4, <1>5, <1>6, <1>7, <1>8, <1>9

LEMMA Joined ==
  ASSUME NEW S, NEW p \in Seq(S), NEW q \in Seq(S)
  PROVE  /\ p \o q \in Seq(S) /\ Len(p) \in Nat /\ Len(q) \in Nat
         /\ DOMAIN p = 1..Len(p) /\ DOMAIN q = 1..Len(q)
         /\ DOMAIN (p \o q) = 1..(Len(p) + Len(q))
         /\ \A i \in 1..Len(p) : (p \o q)[i] = p[i]
         /\ \A i \in 1..Len(q) : (p \o q)[Len(p) + i] = q[i]
         /\ \A i \in DOMAIN (p \o q) :
               i \in 1..Len(p) \/ \E j \in 1..Len(q) : i = Len(p) + j
<1>1. /\ Len(p) \in Nat /\ Len(q) \in Nat /\ p \o q \in Seq(S)
      /\ DOMAIN p = 1..Len(p) /\ DOMAIN q = 1..Len(q)
      /\ DOMAIN (p \o q) = 1..(Len(p) + Len(q))
      /\ \A i \in 1..Len(p) : (p \o q)[i] = p[i]
  OBVIOUS
<1>2. \A i \in 1..Len(q) : (p \o q)[Len(p) + i] = q[i]
  OBVIOUS
<1>3. ASSUME NEW i \in 1..(Len(p) + Len(q)), i \notin 1..Len(p)
      PROVE  \E j \in 1..Len(q) : i = Len(p) + j
  <2>1. i - Len(p) \in 1..Len(q) /\ i = Len(p) + (i - Len(p))
    BY <1>1, <1>3
  <2> QED BY <2>1
<1> QED BY <1>1, <1>2, <1>3

\* A message that is no chunk joins the queue.
LEMMA OneSent ==
  ASSUME NEW q \in Seq(Message), NEW m \in Message, m.op # "chunk"
  PROVE  /\ \A ops : Has(q \o <<m>>, ops) => Has(q, ops) \/ m.op \in ops
         /\ \A ops : OneOf(q, ops) /\ (m.op \in ops => ~Has(q, ops))
                       => OneOf(q \o <<m>>, ops)
         /\ Behind(q \o <<m>>) => Behind(q)
         /\ StartFirst(q) => StartFirst(q \o <<m>>)
         /\ ChunksIn(q \o <<m>>) = ChunksIn(q)
         /\ \A i \in DOMAIN (q \o <<m>>) :
               (q \o <<m>>)[i] = m \/ \E j \in DOMAIN q : (q \o <<m>>)[i] = q[j]
<1> DEFINE r == q \o <<m>>
           k == Len(q) + 1
<1>1. <<m>> \in Seq(Message) /\ Len(<<m>>) = 1 /\ <<m>>[1] = m
  OBVIOUS
<1>2. /\ Len(q) \in Nat /\ DOMAIN q = 1..Len(q) /\ DOMAIN r = 1..(Len(q) + 1)
      /\ \A i \in 1..Len(q) : r[i] = q[i]
  BY <1>1, Joined
<1>3. r[k] = m
  <2>1. \A i \in 1..Len(<<m>>) : r[Len(q) + i] = <<m>>[i]
    BY <1>1, Joined
  <2> QED BY <1>1, <2>1
<1> HIDE DEF r
<1>4. /\ DOMAIN r = DOMAIN q \cup {k} /\ k \in Int
      /\ \A i \in DOMAIN q : i \in Int /\ i < k /\ i # k /\ r[i] = q[i]
  BY <1>2
<1> HIDE DEF k
<1>5. /\ \A ops : Has(r, ops) => Has(q, ops) \/ m.op \in ops
      /\ \A i \in DOMAIN r : r[i] = m \/ \E j \in DOMAIN q : r[i] = q[j]
  BY <1>3, <1>4 DEF Has
<1>6. \A ops : OneOf(q, ops) /\ (m.op \in ops => ~Has(q, ops)) => OneOf(r, ops)
  BY <1>3, <1>4 DEF OneOf, Has
<1>7. Behind(r) => Behind(q)
  <2> SUFFICES ASSUME NEW i \in DOMAIN r, NEW j \in DOMAIN r,
                      r[i].op = "start", r[j].op = "chunk", i < j
               PROVE  Behind(q)
    BY DEF Behind
  <2>1. j \in DOMAIN q
    BY <1>3, <1>4
  <2>2. i \in DOMAIN q
    BY <1>4, <2>1
  <2> QED BY <1>4, <2>1, <2>2 DEF Behind
<1>8. StartFirst(q) => StartFirst(r)
  <2> SUFFICES ASSUME StartFirst(q), NEW i \in DOMAIN r, NEW j \in DOMAIN r,
                      r[i].op = "start", r[j].op = "chunk", i < j,
                      NEW l \in DOMAIN r, r[l].op = "chunk"
               PROVE  i < l
    BY DEF StartFirst
  <2>1. j \in DOMAIN q /\ l \in DOMAIN q
    BY <1>3, <1>4
  <2>2. i \in DOMAIN q
    BY <1>4, <2>1
  <2> QED BY <1>4, <2>1, <2>2 DEF StartFirst
<1>9. ChunksIn(r) = ChunksIn(q)
  <2>1. Places(r) = Places(q)
    BY <1>3, <1>4 DEF Places, IsChunk
  <2> QED BY <2>1 DEF ChunksIn, Places
<1> QED BY <1>5, <1>6, <1>7, <1>8, <1>9 DEF r

\* Chunks join a queue without any, all at its end.
LEMMA BurstSent ==
  ASSUME NEW q \in Seq(Message), NEW prefix \in Seq(Message), NEW c \in Seq(Message),
         ~Has(q, {"chunk"}), ~Has(prefix, {"chunk"}),
         \A i \in DOMAIN c : c[i].op = "chunk"
  PROVE  LET r == q \o (prefix \o c) IN
         /\ \A ops : Has(r, ops) => Has(q, ops) \/ Has(prefix, ops) \/ "chunk" \in ops
         /\ \A ops : ~Has(q, ops) /\ OneOf(prefix, ops) /\ "chunk" \notin ops
                       => OneOf(r, ops)
         /\ \A ops : OneOf(q, ops) /\ ~Has(prefix, ops) /\ "chunk" \notin ops
                       => OneOf(r, ops)
         /\ ~Has(prefix, {"start"}) => StartFirst(r)
         /\ ChunksIn(r) <= Len(c)
         /\ \A i \in DOMAIN r :
               \/ \E j \in DOMAIN q : r[i] = q[j]
               \/ \E j \in DOMAIN prefix : r[i] = prefix[j]
               \/ \E j \in DOMAIN c : r[i] = c[j]
<1> DEFINE s == prefix \o c
           r == q \o s
           a == Len(q)
           b == Len(q) + Len(prefix)
<1>1. /\ s \in Seq(Message) /\ Len(prefix) \in Nat /\ Len(c) \in Nat
      /\ DOMAIN prefix = 1..Len(prefix) /\ DOMAIN c = 1..Len(c)
      /\ DOMAIN s = 1..(Len(prefix) + Len(c))
      /\ \A i \in 1..Len(prefix) : s[i] = prefix[i]
      /\ \A i \in 1..Len(c) : s[Len(prefix) + i] = c[i]
      /\ \A i \in DOMAIN s :
            i \in 1..Len(prefix) \/ \E j \in 1..Len(c) : i = Len(prefix) + j
  BY Joined
<1> HIDE DEF s
<1>2. /\ r \in Seq(Message) /\ Len(q) \in Nat
      /\ DOMAIN q = 1..Len(q)
      /\ \A i \in 1..Len(q) : r[i] = q[i]
      /\ \A i \in 1..Len(s) : r[Len(q) + i] = s[i]
      /\ \A i \in DOMAIN r : i \in 1..Len(q) \/ \E j \in 1..Len(s) : i = Len(q) + j
  BY <1>1, Joined
<1>3. DOMAIN s = 1..Len(s) /\ Len(s) \in Nat
  BY <1>1
<1> HIDE DEF r
<1>4. ASSUME NEW i \in DOMAIN r
      PROVE  \/ i \in DOMAIN q /\ i <= a /\ r[i] = q[i]
             \/ \E j \in DOMAIN prefix : i = a + j /\ r[i] = prefix[j]
             \/ \E j \in DOMAIN c : i = b + j /\ r[i] = c[j]
  <2>1. CASE i \in 1..Len(q)
    BY <1>2, <2>1
  <2>2. CASE \E j \in DOMAIN s : i = Len(q) + j
    <3>1. PICK j \in DOMAIN s : i = Len(q) + j
      BY <2>2
    <3>2. r[i] = s[j]
      BY <1>2, <1>3, <3>1
    <3>3. CASE j \in 1..Len(prefix)
      <4>1. s[j] = prefix[j]
        BY <1>1, <3>3
      <4> QED BY <1>1, <3>1, <3>2, <3>3, <4>1
    <3>4. CASE \E l \in 1..Len(c) : j = Len(prefix) + l
      <4>1. PICK l \in 1..Len(c) : j = Len(prefix) + l
        BY <3>4
      <4>2. s[j] = c[l]
        BY <1>1, <4>1
      <4>3. i = b + l
        BY <1>1, <1>2, <3>1, <4>1
      <4> QED BY <1>1, <3>2, <4>1, <4>2, <4>3
    <3> QED BY <1>1, <3>3, <3>4
  <2> QED BY <1>2, <1>3, <2>1, <2>2
<1>5. a \in Nat /\ b \in Nat /\ a <= b
  BY <1>1, <1>2
<1>6. ASSUME NEW i \in DOMAIN r, r[i].op = "chunk" PROVE i > b /\ i <= b + Len(c)
  <2>1. ~\E j \in DOMAIN q : r[i] = q[j]
    BY <1>6 DEF Has
  <2>2. ~\E j \in DOMAIN prefix : r[i] = prefix[j]
    BY <1>6 DEF Has
  <2>3. PICK j \in DOMAIN c : i = b + j
    BY <1>4, <2>1, <2>2
  <2> QED BY <1>1, <1>5, <2>3
<1>7. \A i \in DOMAIN r :
         \/ \E j \in DOMAIN q : r[i] = q[j]
         \/ \E j \in DOMAIN prefix : r[i] = prefix[j]
         \/ \E j \in DOMAIN c : r[i] = c[j]
  BY <1>4
<1>8. \A ops : Has(r, ops) => Has(q, ops) \/ Has(prefix, ops) \/ "chunk" \in ops
  BY <1>7 DEF Has
<1>9. ASSUME NEW ops, ~Has(q, ops), OneOf(prefix, ops), "chunk" \notin ops,
             NEW i \in DOMAIN r, NEW j \in DOMAIN r, r[i].op \in ops, r[j].op \in ops
      PROVE  i = j
  <2>1. \E k \in DOMAIN prefix : i = a + k /\ r[i] = prefix[k]
    BY <1>4, <1>9 DEF Has
  <2>2. \E k \in DOMAIN prefix : j = a + k /\ r[j] = prefix[k]
    BY <1>4, <1>9 DEF Has
  <2> QED BY <1>9, <2>1, <2>2 DEF OneOf
<1>10. ASSUME NEW ops, OneOf(q, ops), ~Has(prefix, ops), "chunk" \notin ops,
              NEW i \in DOMAIN r, NEW j \in DOMAIN r, r[i].op \in ops, r[j].op \in ops
       PROVE  i = j
  <2>1. i \in DOMAIN q /\ r[i] = q[i]
    BY <1>4, <1>10 DEF Has
  <2>2. j \in DOMAIN q /\ r[j] = q[j]
    BY <1>4, <1>10 DEF Has
  <2> QED BY <1>10, <2>1, <2>2 DEF OneOf
<1>11. ASSUME ~Has(prefix, {"start"}), NEW i \in DOMAIN r, r[i].op = "start",
              NEW l \in DOMAIN r, r[l].op = "chunk"
       PROVE  i < l
  <2>1. ~\E j \in DOMAIN prefix : r[i] = prefix[j]
    BY <1>11 DEF Has
  <2>2. ~\E j \in DOMAIN c : r[i] = c[j]
    BY <1>11
  <2>3. i \in DOMAIN q /\ i <= a
    BY <1>4, <2>1, <2>2
  <2>4. l > b
    BY <1>6, <1>11
  <2>5. i \in Int /\ l \in Int
    BY <1>2
  <2> QED BY <1>5, <2>3, <2>4, <2>5
<1>12. ChunksIn(r) <= Len(c)
  <2>1. Places(r) \subseteq (b + 1)..(b + Len(c))
    <3>1. DOMAIN r \subseteq Int
      BY <1>2
    <3> QED BY <1>1, <1>5, <1>6, <3>1 DEF Places, IsChunk
  <2> DEFINE x == b + 1
             y == b + Len(c)
  <2>2. x \in Int /\ y \in Int /\ (x > y => Len(c) = 0) /\ y - x + 1 = Len(c)
    BY <1>1, <1>5
  <2> HIDE DEF x, y
  <2>3. IsFiniteSet(x..y) /\ Cardinality(x..y) = Len(c)
    BY <2>2, FS_Interval
  <2>4. Places(r) \in SUBSET (x..y)
    BY <2>1 DEF x, y
  <2>5. Cardinality(Places(r)) <= Len(c)
    BY <2>3, <2>4, FS_Subset
  <2> QED BY <1>2, <2>5, PlacesFinite
<1>13. \A ops : ~Has(q, ops) /\ OneOf(prefix, ops) /\ "chunk" \notin ops => OneOf(r, ops)
  BY <1>9 DEF OneOf
<1>14. \A ops : OneOf(q, ops) /\ ~Has(prefix, ops) /\ "chunk" \notin ops => OneOf(r, ops)
  BY <1>10 DEF OneOf
<1>15. ~Has(prefix, {"start"}) => StartFirst(r)
  BY <1>11 DEF StartFirst
<1> QED BY <1>7, <1>8, <1>12, <1>13, <1>14, <1>15 DEF r, s

\* The oldest message is taken.
LEMMA OneTaken ==
  ASSUME NEW q \in Seq(Message), q # <<>>
  PROVE  /\ Has(q, {Head(q).op})
         /\ \A ops : OneOf(q, ops) /\ Head(q).op \in ops => ~Has(Tail(q), ops)
         /\ Head(q).op = "start" /\ ~Behind(q) => ~Has(Tail(q), {"chunk"})
         /\ Head(q).op = "chunk" /\ StartFirst(q) => ~Behind(Tail(q))
         /\ Head(q).op = "chunk" => ChunksIn(Tail(q)) + 1 <= ChunksIn(q)
         /\ ChunksIn(Tail(q)) = 0 => ~Has(Tail(q), {"chunk"})
<1> DEFINE t == Tail(q)
<1>1. /\ Len(q) \in Nat /\ Len(q) >= 1 /\ DOMAIN q = 1..Len(q) /\ Head(q) = q[1]
      /\ t \in Seq(Message) /\ DOMAIN t = 1..(Len(q) - 1)
      /\ \A i \in 1..(Len(q) - 1) : t[i] = q[i + 1]
  OBVIOUS
<1> HIDE DEF t
<1>2. /\ 1 \in DOMAIN q
      /\ \A i \in DOMAIN t : /\ i \in Int /\ i + 1 \in DOMAIN q /\ t[i] = q[i + 1]
                             /\ 1 < i + 1 /\ i + 1 # 1
  BY <1>1
<1>3. Has(q, {Head(q).op})
  BY <1>1, <1>2 DEF Has
<1>4. \A ops : OneOf(q, ops) /\ Head(q).op \in ops => ~Has(t, ops)
  BY <1>1, <1>2 DEF OneOf, Has
<1>5. Head(q).op = "start" /\ ~Behind(q) => ~Has(t, {"chunk"})
  BY <1>1, <1>2 DEF Behind, Has
<1>6. ASSUME Head(q).op = "chunk", StartFirst(q), Behind(t) PROVE FALSE
  <2>1. PICK i, k \in DOMAIN t : t[i].op = "start" /\ t[k].op = "chunk" /\ i < k
    BY <1>6 DEF Behind
  <2>2. q[i + 1].op = "start" /\ q[k + 1].op = "chunk" /\ i + 1 < k + 1 /\ q[1].op = "chunk"
    BY <1>1, <1>2, <1>6, <2>1
  <2>3. i + 1 < 1
    BY <1>2, <1>6, <2>2 DEF StartFirst
  <2> QED BY <1>2, <2>3
<1>7. IsFiniteSet(Places(q)) /\ IsFiniteSet(Places(t)) /\ ChunksIn(t) \in Nat
      /\ ChunksIn(t) = Cardinality(Places(t)) /\ ChunksIn(q) = Cardinality(Places(q))
      /\ ChunksIn(q) \in Nat
  BY <1>1, PlacesFinite
<1>8. ASSUME Head(q).op = "chunk" PROVE ChunksIn(t) + 1 <= ChunksIn(q)
  <2> DEFINE P == Places(q) \ {1}
             f == [i \in Places(t) |-> i + 1]
  <2>1. \A i \in Places(t) : i \in Int /\ f[i] \in P
    BY <1>2 DEF Places
  <2>2. \A i, j \in Places(t) : f[i] = f[j] => i = j
    BY <2>1
  <2>3. f \in Injection(Places(t), P)
    BY <2>1, <2>2 DEF Injection, IsInjective
  <2>4. 1 \in Places(q)
    BY <1>1, <1>2, <1>8 DEF Places, IsChunk
  <2>5. IsFiniteSet(P) /\ Cardinality(P) = Cardinality(Places(q)) - 1
    BY <1>7, <2>4, FS_RemoveElement
  <2>6. Cardinality(Places(t)) <= Cardinality(P)
    BY <2>3, <2>5, FS_Injection
  <2> HIDE DEF P
  <2> QED BY <1>7, <2>5, <2>6
<1>9. ChunksIn(t) = 0 => ~Has(t, {"chunk"})
  <2>1. ChunksIn(t) = 0 => Places(t) = {}
    BY <1>7, FS_EmptySet
  <2> QED BY <2>1 DEF Places, IsChunk, Has
<1> QED BY <1>3, <1>4, <1>5, <1>6, <1>8, <1>9 DEF t

\* A note joins those on their way.
LEMMA OneNoted ==
  ASSUME NEW q \in Seq(NoteKind), NEW k \in NoteKind
  PROVE  /\ \A kinds : Noted(Append(q, k), kinds) => Noted(q, kinds) \/ k \in kinds
         /\ \A kinds : OneNote(q, kinds) /\ (k \in kinds => ~Noted(q, kinds))
                         => OneNote(Append(q, k), kinds)
         /\ \A i \in DOMAIN Append(q, k) :
               Append(q, k)[i] = k \/ \E j \in DOMAIN q : Append(q, k)[i] = q[j]
<1> DEFINE r == Append(q, k)
           l == Len(q) + 1
<1>1. /\ Len(q) \in Nat /\ DOMAIN q = 1..Len(q) /\ DOMAIN r = 1..(Len(q) + 1)
      /\ \A i \in 1..Len(q) : r[i] = q[i]
      /\ r[l] = k
  OBVIOUS
<1> HIDE DEF r
<1>2. DOMAIN r = DOMAIN q \cup {l} /\ \A i \in DOMAIN q : i # l /\ r[i] = q[i]
  BY <1>1
<1> HIDE DEF l
<1>3. \A i \in DOMAIN r : r[i] = k \/ \E j \in DOMAIN q : r[i] = q[j]
  BY <1>1, <1>2
<1>4. \A kinds : Noted(r, kinds) => Noted(q, kinds) \/ k \in kinds
  BY <1>3 DEF Noted
<1>5. \A kinds : OneNote(q, kinds) /\ (k \in kinds => ~Noted(q, kinds)) => OneNote(r, kinds)
  BY <1>1, <1>2 DEF OneNote, Noted
<1> QED BY <1>3, <1>4, <1>5 DEF r

-----------------------------------------------------------------------------
(* The window.                                                              *)

\* A transfer has one next step: a note the client will act on, or a message the
\* watch will, and whoever holds it the other is in the state for it.
Grants == {"started", "initialised", "receipt"}
Progress == Grants \cup {"received", "validated"}
WatchIn == [started |-> "Init", initialised |-> "Init", receipt |-> "Data",
            received |-> "Validate", validated |-> "Validated"]
Batons == {"init", "receive", "validate"}

\* The messages q on their way to a watch in state w that has g chunks.  A chunk
\* behind a start belongs to the transfer before that start.
AirOK(q, w, g) ==
    /\ OneOf(q, Batons)
    /\ \A op \in Batons : Has(q, {op}) => w = StateFor[op]
    /\ Has(q, {"init"}) => ~Has(q, {"chunk"})
    /\ StartFirst(q) /\ (Behind(q) => w \in {"Init", "Data"})
    /\ ChunksIn(q) <= RECEIPT_INTERVAL
    /\ w = "Data" => (g % RECEIPT_INTERVAL) + ChunksIn(q) <= RECEIPT_INTERVAL
    /\ w = "Init" => g = 0

\* The notes n on their way back: those of a grant leave no chunk on its way.
NotesOK(up, n, q, w, g) ==
    /\ OneNote(n, Progress)
    /\ up => \A k \in Progress : Noted(n, {k}) =>
          /\ w = WatchIn[k] /\ ~Has(q, Batons)
          /\ k \in Grants => ~Has(q, {"chunk"})
          /\ k = "receipt" => g % RECEIPT_INTERVAL = 0

\* The client that waits for a receipt has nothing left to send.
PacketInv ==
    state_ = "SENDING_FIRMWARE" =>
        bytes_sent_ = have.len \/ packets_since_receipt_ = RECEIPT_INTERVAL

WindowInv ==
    /\ AirOK(air, wstate, wimage.got)
    /\ NotesOK(Up, notes, air, wstate, wimage.got)
    /\ PacketInv

LEMMA WindowNext ==
  ASSUME AirOK(air', wstate', wimage'.got),
         NotesOK(Up', notes', air', wstate', wimage'.got), PacketInv'
  PROVE  WindowInv'
<1>1. AirOK(air, wstate, wimage.got)'
  BY DEF AirOK, OneOf, Has, StartFirst, Behind, ChunksIn
<1>2. NotesOK(Up, notes, air, wstate, wimage.got)'
  BY DEF NotesOK, OneNote, Noted, Has, Up
<1> QED BY <1>1, <1>2 DEF WindowInv

LEMMA WindowTypes ==
  ASSUME IInv
  PROVE  /\ air \in Seq(Message) /\ notes \in Seq(NoteKind) /\ wimage.got \in Nat
         /\ RECEIPT_INTERVAL \in Nat \ {0}
         /\ wimage.got % RECEIPT_INTERVAL \in 0..(RECEIPT_INTERVAL - 1)
<1>1. /\ air \in Seq(Message) /\ notes \in Seq(NoteKind) /\ wimage.got \in Nat
      /\ RECEIPT_INTERVAL \in Nat \ {0}
  BY DfuAssumption DEF IInv, LinkType, WatchType
<1> QED BY <1>1, DivMod

LEMMA AirEmpty ==
  ASSUME NEW w, NEW g \in Nat, w # "Init"
  PROVE  AirOK(<<>>, w, g)
<1>1. RECEIPT_INTERVAL \in Nat \ {0} /\ g % RECEIPT_INTERVAL \in 0..(RECEIPT_INTERVAL - 1)
  BY DfuAssumption, DivMod
<1>2. DOMAIN <<>> = {}
  OBVIOUS
<1>3. Places(<<>>) = {}
  BY <1>2 DEF Places
<1>4. ChunksIn(<<>>) = 0
  BY <1>3, FS_EmptySet DEF ChunksIn, Places
<1>5. OneOf(<<>>, Batons) /\ StartFirst(<<>>) /\ ~Behind(<<>>) /\ \A ops : ~Has(<<>>, ops)
  BY <1>2 DEF OneOf, StartFirst, Behind, Has
<1> QED BY <1>1, <1>4, <1>5 DEF AirOK

LEMMA NotesEmpty ==
  ASSUME NEW up, NEW q, NEW w, NEW g
  PROVE  NotesOK(up, <<>>, q, w, g)
  BY DEF NotesOK, OneNote, Noted

LEMMA AirShrinks ==
  ASSUME NEW q \in Seq(Message), NEW p \in Seq(Message), Embeds(q, p),
         NEW w, NEW g \in Nat, AirOK(p, w, g)
  PROVE  AirOK(q, w, g)
<1>1. RECEIPT_INTERVAL \in Nat \ {0} /\ g % RECEIPT_INTERVAL \in 0..(RECEIPT_INTERVAL - 1)
  BY DfuAssumption, DivMod
<1>2. ChunksIn(q) \in Nat /\ ChunksIn(p) \in Nat /\ ChunksIn(q) <= ChunksIn(p)
  BY PlacesFinite, EmbedsKeeps
<1>3. /\ ChunksIn(q) <= RECEIPT_INTERVAL
      /\ w = "Data" => (g % RECEIPT_INTERVAL) + ChunksIn(q) <= RECEIPT_INTERVAL
  BY <1>1, <1>2 DEF AirOK
<1>4. /\ OneOf(q, Batons) /\ StartFirst(q) /\ (Behind(q) => Behind(p))
      /\ \A ops : Has(q, ops) => Has(p, ops)
  BY EmbedsKeeps DEF AirOK
<1> QED BY <1>3, <1>4 DEF AirOK

LEMMA NotesShrink ==
  ASSUME NEW m \in Seq(NoteKind), NEW n \in Seq(NoteKind), Embeds(m, n),
         NEW q \in Seq(Message), NEW p \in Seq(Message), Embeds(q, p),
         NEW up, NEW later, later => up, NEW w, NEW g, NotesOK(up, n, p, w, g)
  PROVE  NotesOK(later, m, q, w, g)
<1>1. OneNote(m, Progress) /\ \A kinds : Noted(m, kinds) => Noted(n, kinds)
  BY EmbedsKeeps DEF NotesOK
<1>2. \A ops : Has(q, ops) => Has(p, ops)
  BY EmbedsKeeps
<1> QED BY <1>1, <1>2 DEF NotesOK

\* Steps that at most lose something on the way.
LEMMA WindowFrame ==
  ASSUME IInv, IInv', WindowInv, Embeds(air', air), Embeds(notes', notes), Up' => Up,
         wstate' = wstate, wimage'.got = wimage.got, PacketInv'
  PROVE  WindowInv'
<1>1. /\ air \in Seq(Message) /\ notes \in Seq(NoteKind) /\ wimage.got \in Nat
      /\ air' \in Seq(Message) /\ notes' \in Seq(NoteKind)
  BY WindowTypes DEF IInv, LinkType
<1>2. AirOK(air', wstate', wimage'.got)
  BY <1>1, AirShrinks DEF WindowInv
<1>3. NotesOK(Up', notes', air', wstate', wimage'.got)
  BY <1>1, NotesShrink DEF WindowInv
<1> QED BY <1>2, <1>3, WindowNext

LEMMA AllEmbed == ASSUME IInv PROVE Embeds(air, air) /\ Embeds(notes, notes)
  BY SameEmbeds, WindowTypes

\* The link goes down.
LEMMA WindowDown ==
  ASSUME IInv, IInv', WindowInv, air' = <<>>, Embeds(notes', notes), ~Up',
         wstate' = "Idle", UNCHANGED clientVars
  PROVE  WindowInv'
<1>1. notes \in Seq(NoteKind) /\ notes' \in Seq(NoteKind) /\ wimage'.got \in Nat
  BY DEF IInv, LinkType, WatchType
<1>2. AirOK(air', wstate', wimage'.got)
  BY <1>1, AirEmpty
<1>3. OneNote(notes', Progress)
  BY <1>1, EmbedsKeeps DEF WindowInv, NotesOK
<1>4. NotesOK(Up', notes', air', wstate', wimage'.got)
  BY <1>3 DEF NotesOK
<1>5. PacketInv'
  BY DEF WindowInv, PacketInv, clientVars
<1> QED BY <1>2, <1>4, <1>5, WindowNext

-----------------------------------------------------------------------------
(* The window and the client.                                               *)

\* A message other than a chunk is sent, on a link that is up.
LEMMA AirSends ==
  ASSUME NEW q \in Seq(Message), NEW m \in Message, m.op # "chunk",
         NEW w, NEW g, AirOK(q, w, g),
         m.op \in Batons => /\ w = StateFor[m.op] /\ ~Has(q, Batons)
                            /\ m.op = "init" => ~Has(q, {"chunk"})
  PROVE  AirOK(q \o <<m>>, w, g)
<1> DEFINE r == q \o <<m>>
<1>1. /\ \A ops : Has(r, ops) => Has(q, ops) \/ m.op \in ops
      /\ \A ops : OneOf(q, ops) /\ (m.op \in ops => ~Has(q, ops)) => OneOf(r, ops)
      /\ Behind(r) => Behind(q)
      /\ StartFirst(q) => StartFirst(r)
      /\ ChunksIn(r) = ChunksIn(q)
  BY OneSent
<1> HIDE DEF r
<1>2. OneOf(r, Batons)
  BY <1>1 DEF AirOK
<1>3. \A op \in Batons : Has(r, {op}) => w = StateFor[op]
  BY <1>1 DEF AirOK
<1>4. Has(r, {"init"}) => ~Has(r, {"chunk"})
  BY <1>1 DEF AirOK, Batons
<1>5. AirOK(r, w, g)
  BY <1>1, <1>2, <1>3, <1>4 DEF AirOK
<1> QED BY <1>5 DEF r

\* Notes the client has just taken leave none that grants something.
LEMMA NoteTaken ==
  ASSUME IInv, WindowInv, notes # <<>>, Head(notes) \in Progress
  PROVE  ~Noted(Tail(notes), Progress)
<1>1. /\ Len(notes) \in Nat /\ DOMAIN notes = 1..Len(notes) /\ Head(notes) = notes[1]
      /\ Len(notes) >= 1 /\ DOMAIN Tail(notes) = 1..(Len(notes) - 1)
      /\ \A i \in 1..(Len(notes) - 1) : Tail(notes)[i] = notes[i + 1]
  BY WindowTypes
<1>2. 1 \in DOMAIN notes
  BY <1>1
<1>3. \A i \in DOMAIN Tail(notes) : /\ i + 1 \in DOMAIN notes /\ i + 1 # 1
                                     /\ Tail(notes)[i] = notes[i + 1]
  BY <1>1
<1>4. OneNote(notes, Progress)
  BY DEF WindowInv, NotesOK
<1> QED BY <1>1, <1>2, <1>3, <1>4 DEF Noted, OneNote

LEMMA QuietNotes ==
  ASSUME NEW n, ~Noted(n, Progress), NEW up, NEW q, NEW w, NEW g
  PROVE  NotesOK(up, n, q, w, g)
<1>1. \A k \in Progress : ~Noted(n, {k})
  BY DEF Noted
<1>2. OneNote(n, Progress)
  BY DEF Noted, OneNote
<1> QED BY <1>1, <1>2 DEF NotesOK

\* What a note at the head says of the watch.
LEMMA NoteMeans ==
  ASSUME IInv, WindowInv, Up, notes # <<>>, Head(notes) \in Progress
  PROVE  /\ wstate = WatchIn[Head(notes)] /\ ~Has(air, Batons)
         /\ Head(notes) \in Grants => ~Has(air, {"chunk"})
         /\ Head(notes) = "receipt" => wimage.got % RECEIPT_INTERVAL = 0
<1>1. Head(notes) = notes[1] /\ 1 \in DOMAIN notes
  BY WindowTypes, TailFrom
<1>2. Noted(notes, {Head(notes)})
  BY <1>1 DEF Noted
<1> QED BY <1>2 DEF WindowInv, NotesOK

LEMMA AirBursts ==
  ASSUME NEW q \in Seq(Message), NEW prefix \in Seq(Message), NEW c \in Seq(Message),
         ~Has(q, {"chunk"}), ~Has(q, Batons), OneOf(prefix, Batons),
         \A i \in DOMAIN c : c[i].op = "chunk", Len(c) <= RECEIPT_INTERVAL,
         NEW w \in {"Init", "Data"}, NEW g \in Nat,
         \A i \in DOMAIN prefix : prefix[i].op = "receive" /\ w = "Init",
         w = "Init" => g = 0, w = "Data" => g % RECEIPT_INTERVAL = 0
  PROVE  AirOK(q \o (prefix \o c), w, g)
<1> DEFINE r == q \o (prefix \o c)
<1>1. \A ops : Has(prefix, ops) => "receive" \in ops /\ w = "Init"
  BY DEF Has
<1>2. ~Has(prefix, {"chunk"}) /\ ~Has(prefix, {"start"})
  BY <1>1
<1>3. /\ \A ops : Has(r, ops) => Has(q, ops) \/ Has(prefix, ops) \/ "chunk" \in ops
      /\ \A ops : ~Has(q, ops) /\ OneOf(prefix, ops) /\ "chunk" \notin ops => OneOf(r, ops)
      /\ StartFirst(r)
      /\ ChunksIn(r) <= Len(c)
  BY <1>2, BurstSent
<1>4. r \in Seq(Message)
  BY Joined
<1> HIDE DEF r
<1>5. OneOf(r, Batons)
  BY <1>3 DEF Batons
<1>6. \A op \in Batons : ~Has(q, {op})
  BY DEF Has
<1>7. \A op \in Batons : Has(r, {op}) => op = "receive" /\ w = "Init"
  BY <1>1, <1>3, <1>6 DEF Batons
<1>8. ~Has(r, {"init"})
  BY <1>7 DEF Batons
<1>9. ChunksIn(r) <= RECEIPT_INTERVAL
  <2>1. ChunksIn(r) \in Nat /\ Len(c) \in Nat /\ RECEIPT_INTERVAL \in Nat
    BY <1>4, PlacesFinite, DfuAssumption
  <2> QED BY <1>3, <2>1
<1>10. w = "Data" => (g % RECEIPT_INTERVAL) + ChunksIn(r) <= RECEIPT_INTERVAL
  <2>1. ChunksIn(r) \in Nat
    BY <1>4, PlacesFinite
  <2>2. 0 + ChunksIn(r) <= RECEIPT_INTERVAL
    BY <1>9, <2>1
  <2> QED BY <2>2
<1>11. AirOK(r, w, g)
  BY <1>3, <1>5, <1>7, <1>8, <1>9, <1>10 DEF AirOK, StateFor
<1> QED BY <1>11 DEF r

LEMMA ChunksAre ==
  ASSUME IInv, NEW from \in Nat, NEW n \in Nat
  PROVE  /\ Chunks(from, n) \in Seq(Message) /\ Len(Chunks(from, n)) = n
         /\ DOMAIN Chunks(from, n) = 1..n
         /\ \A i \in 1..n : /\ Chunks(from, n)[i].op = "chunk"
                            /\ Chunks(from, n)[i].ver = have.bin
         /\ n = 0 => Chunks(from, n) = <<>>
<1>1. Chunks(from, n) \in Seq(Message)
  BY ChunksType
<1>2. /\ DOMAIN Chunks(from, n) = 1..n
      /\ \A i \in 1..n : /\ Chunks(from, n)[i].op = "chunk"
                         /\ Chunks(from, n)[i].ver = have.bin
  BY DEF Chunks
<1>3. Len(Chunks(from, n)) = n
  BY <1>1, <1>2
<1>4. n = 0 => Chunks(from, n) = <<>>
  BY <1>1, <1>3
<1> QED BY <1>1, <1>2, <1>3, <1>4

\* The client stops sending only when its image or its window is exhausted.
LEMMA BurstExhausts ==
  ASSUME IInv, NEW sent \in Nat, sent <= have.len, NEW packets \in 0..RECEIPT_INTERVAL
  PROVE  /\ \/ sent + Burst(sent, packets) = have.len
            \/ packets + Burst(sent, packets) = RECEIPT_INTERVAL
         /\ Burst(sent, packets) <= RECEIPT_INTERVAL
         /\ sent = have.len \/ packets = RECEIPT_INTERVAL => Burst(sent, packets) = 0
<1>1. have.len \in Nat /\ RECEIPT_INTERVAL \in Nat
  BY DfuAssumption DEF IInv, ClientType
<1>2. have.len - sent \in Nat /\ RECEIPT_INTERVAL - packets \in Nat
  BY <1>1
<1>3. \/ have.len - sent < RECEIPT_INTERVAL - packets /\ Burst(sent, packets) = have.len - sent
      \/ /\ have.len - sent >= RECEIPT_INTERVAL - packets
         /\ Burst(sent, packets) = RECEIPT_INTERVAL - packets
  BY <1>2 DEF Burst, AtMost
<1> QED BY <1>1, <1>2, <1>3

\* A burst on a granted window.
LEMMA WindowBurst ==
  ASSUME IInv, IInv', WindowInv, NEW prefix \in Seq(Message),
         NEW sent \in Nat, sent <= have.len,
         OneOf(prefix, Batons), SendChunks(prefix, sent, 0),
         notes # <<>>, Head(notes) \in Progress, notes' = Tail(notes),
         UNCHANGED link, UNCHANGED have, wstate' = wstate, wimage' = wimage,
         Up => /\ wstate \in {"Init", "Data"} /\ Head(notes) \in Grants
               /\ wstate = "Data" => wimage.got % RECEIPT_INTERVAL = 0
               /\ \A i \in DOMAIN prefix : prefix[i].op = "receive" /\ wstate = "Init"
  PROVE  WindowInv'
<1> DEFINE n == Burst(sent, 0)
           c == Chunks(sent, n)
<1>1. 0 \in 0..RECEIPT_INTERVAL
  BY DfuAssumption
<1>2. n \in Nat /\ n <= RECEIPT_INTERVAL /\ (sent + n = have.len \/ 0 + n = RECEIPT_INTERVAL)
  BY <1>1, BurstFits, BurstExhausts
<1>3. Send(prefix \o c) /\ bytes_sent_' = sent + n /\ packets_since_receipt_' = 0 + n
  BY DEF SendChunks
<1> HIDE DEF n
<1>4. /\ c \in Seq(Message) /\ Len(c) <= RECEIPT_INTERVAL
      /\ \A i \in DOMAIN c : c[i].op = "chunk"
  <2>1. /\ c \in Seq(Message) /\ Len(c) = n /\ DOMAIN c = 1..n
        /\ \A i \in 1..n : c[i].op = "chunk"
    BY <1>2, ChunksAre
  <2> HIDE DEF c
  <2> QED BY <1>2, <2>1
<1> HIDE DEF c
<1>5. AirOK(air', wstate', wimage'.got)
  <2>1. CASE Up
    <3>1. air' = air \o (prefix \o c)
      BY <1>3, <2>1 DEF Send
    <3>2. ~Has(air, Batons) /\ ~Has(air, {"chunk"})
      BY <2>1, NoteMeans
    <3>3. air \in Seq(Message) /\ wimage.got \in Nat
      BY WindowTypes
    <3>4. wstate = "Init" => wimage.got = 0
      BY DEF WindowInv, AirOK
    <3>5. /\ wstate \in {"Init", "Data"}
          /\ wstate = "Data" => wimage.got % RECEIPT_INTERVAL = 0
          /\ \A i \in DOMAIN prefix : prefix[i].op = "receive" /\ wstate = "Init"
      BY <2>1
    <3>6. AirOK(air \o (prefix \o c), wstate, wimage.got)
      BY <1>4, <3>2, <3>3, <3>4, <3>5, AirBursts
    <3> QED BY <3>1, <3>6
  <2>2. CASE ~Up
    BY <1>3, <2>2 DEF Send, WindowInv
  <2> QED BY <2>1, <2>2
<1>6. NotesOK(Up', notes', air', wstate', wimage'.got)
  BY NoteTaken, QuietNotes
<1>7. PacketInv'
  <2>1. bytes_sent_' = have'.len \/ packets_since_receipt_' = RECEIPT_INTERVAL
    BY <1>2, <1>3
  <2> QED BY <2>1 DEF PacketInv
<1> QED BY <1>5, <1>6, <1>7, WindowNext

LEMMA WindowSearch ==
  ASSUME IInv, IInv', WindowInv, NEW found \in BOOLEAN, SearchCompletes(found)
  PROVE  WindowInv'
<1>1. /\ link = "searching" /\ link' = "ready" /\ notes' = notes
      /\ wstate' = wstate /\ wimage' = wimage
      /\ UNCHANGED have /\ UNCHANGED bytes_sent_ /\ UNCHANGED packets_since_receipt_
  BY DEF SearchCompletes, watchVars
<1>2. Up /\ Up'
  BY <1>1 DEF Up
<1>3. CASE state_ = "CONNECTING" /\ found
  <2> DEFINE m == [op |-> "start", len |-> have.len]
  <2>1. state_' = "STARTING" /\ air' = air \o <<m>>
    BY <1>2, <1>3 DEF SearchCompletes, Send
  <2>2. m \in Message /\ m.op = "start"
    BY DEF Message, IInv, ClientType
  <2> HIDE DEF m
  <2>3. air \in Seq(Message)
    BY WindowTypes
  <2>4. AirOK(air', wstate', wimage'.got)
    BY <1>1, <2>1, <2>2, <2>3, AirSends DEF Batons, WindowInv
  <2>5. \A ops : Has(air', ops) => Has(air, ops) \/ "start" \in ops
    BY <2>1, <2>2, <2>3, OneSent
  <2>6. ~Has(air, Batons) => ~Has(air', Batons)
    BY <2>5 DEF Batons
  <2>7. ~Has(air, {"chunk"}) => ~Has(air', {"chunk"})
    BY <2>5
  <2>8. NotesOK(Up', notes', air', wstate', wimage'.got)
    BY <1>1, <1>2, <2>6, <2>7 DEF WindowInv, NotesOK
  <2>9. PacketInv'
    BY <2>1 DEF PacketInv
  <2> QED BY <2>4, <2>8, <2>9, WindowNext
<1>4. CASE ~(state_ = "CONNECTING" /\ found)
  <2>1. UNCHANGED state_ /\ UNCHANGED air
    BY <1>4 DEF SearchCompletes
  <2>2. PacketInv'
    BY <1>1, <2>1 DEF WindowInv, PacketInv
  <2> QED BY <1>1, <1>2, <2>1, <2>2, AllEmbed, WindowFrame
<1> QED BY <1>3, <1>4

LEMMA WindowHandle ==
  ASSUME IInv, IInv', WindowInv, HandleNotification
  PROVE  WindowInv'
<1> DEFINE n == Head(notes)
<1>1. /\ notes # <<>> /\ notes' = Tail(notes) /\ UNCHANGED have /\ UNCHANGED link
      /\ wstate' = wstate /\ wimage' = wimage
  BY DEF HandleNotification, watchVars
<1>2. (Up' <=> Up) /\ notes \in Seq(NoteKind) /\ air \in Seq(Message) /\ wimage.got \in Nat
  BY <1>1, WindowTypes DEF Up
<1>3. Embeds(notes', notes) /\ Embeds(air, air)
  BY <1>1, <1>2, TailEmbeds, AllEmbed
<1>4. CASE ~Active /\ UNCHANGED <<state_, air, bytes_sent_, packets_since_receipt_,
                                  waiting_for_notification_>>
  <2>1. PacketInv'
    BY <1>1, <1>4 DEF WindowInv, PacketInv
  <2> QED BY <1>1, <1>2, <1>3, <1>4, <2>1, WindowFrame
<1>5. CASE /\ Active /\ n \in {"started", "received", "validated"}
           /\ state_' = PhaseAfter(n) /\ Send(<<Reply(n)>>)
  <2>1. PacketInv'
    BY <1>5 DEF PacketInv, PhaseAfter
  <2>2. n \in Progress
    BY <1>5 DEF Progress, Grants
  <2>3. NotesOK(Up', notes', air', wstate', wimage'.got)
    BY <1>1, <2>2, NoteTaken, QuietNotes
  <2>4. AirOK(air', wstate', wimage'.got)
    <3>1. CASE Up
      <4> DEFINE m == Reply(n)
      <4>1. /\ m \in Message /\ m.op # "chunk"
            /\ m.op \in Batons => /\ StateFor[m.op] = WatchIn[n]
                                  /\ m.op = "init" => n \in Grants
        BY <1>5 DEF Reply, Message, IInv, ClientType, Batons, StateFor, WatchIn, Grants
      <4>2. /\ wstate = WatchIn[n] /\ ~Has(air, Batons)
            /\ n \in Grants => ~Has(air, {"chunk"})
        BY <1>1, <2>2, <3>1, NoteMeans
      <4>3. air' = air \o <<m>>
        BY <1>5, <3>1 DEF Send
      <4> HIDE DEF m
      <4>4. AirOK(air \o <<m>>, wstate, wimage.got)
        BY <1>2, <4>1, <4>2, AirSends DEF WindowInv
      <4> QED BY <1>1, <4>3, <4>4
    <3>2. CASE ~Up
      BY <1>1, <1>5, <3>2 DEF Send, WindowInv
    <3> QED BY <3>1, <3>2
  <2> QED BY <2>1, <2>3, <2>4, WindowNext
<1>6. CASE /\ Active /\ n = "initialised" /\ SendChunks(<<[op |-> "receive"]>>, 0, 0)
  <2> DEFINE prefix == <<[op |-> "receive"]>>
  <2>1. [op |-> "receive"] \in Message
    BY DEF Message
  <2>2. /\ prefix \in Seq(Message) /\ OneOf(prefix, Batons)
        /\ \A i \in DOMAIN prefix : prefix[i].op = "receive"
    BY <2>1 DEF OneOf
  <2> HIDE DEF prefix
  <2>3. 0 \in Nat /\ 0 <= have.len
    BY DEF IInv, ClientType
  <2>4. n \in Progress /\ n \in Grants
    BY <1>6 DEF Progress, Grants
  <2>5. Up => wstate = "Init"
    BY <1>1, <1>6, <2>4, NoteMeans DEF WatchIn
  <2>6. SendChunks(prefix, 0, 0)
    BY <1>6 DEF prefix
  <2> QED BY <1>1, <2>2, <2>3, <2>4, <2>5, <2>6, WindowBurst
<1>7. CASE Active /\ n = "receipt" /\ SendChunks(<<>>, bytes_sent_, 0)
  <2>1. bytes_sent_ <= have.len /\ bytes_sent_ \in Nat
    BY <1>7 DEF IInv, ClientType, SentInv
  <2>2. OneOf(<<>>, Batons) /\ <<>> \in Seq(Message)
    BY DEF OneOf
  <2>3. \A i \in DOMAIN <<>> : <<>>[i].op = "receive" /\ wstate = "Init"
    OBVIOUS
  <2>4. n \in Progress /\ n \in Grants
    BY <1>7 DEF Progress, Grants
  <2>5. Up => wstate = "Data" /\ wimage.got % RECEIPT_INTERVAL = 0
    BY <1>1, <1>7, <2>4, NoteMeans DEF WatchIn
  <2> QED BY <1>1, <1>7, <2>1, <2>2, <2>3, <2>4, <2>5, WindowBurst
<1>8. CASE /\ Active /\ n \in {"error", "other"}
           /\ state_' = (IF n = "error" THEN "FAILED" ELSE state_)
           /\ UNCHANGED <<air, bytes_sent_, packets_since_receipt_>>
  <2>1. state_' \in {"FAILED", state_}
    BY <1>8
  <2>2. PacketInv'
    BY <1>1, <1>8, <2>1 DEF WindowInv, PacketInv
  <2> QED BY <1>1, <1>2, <1>3, <1>8, <2>2, WindowFrame
<1> QED BY <1>4, <1>5, <1>6, <1>7, <1>8 DEF HandleNotification

\* process() finds nothing to send: every burst ends with the image or the window.
LEMMA ProcessSendsNothing ==
  ASSUME IInv, WindowInv, Process
  PROVE  /\ air' = air /\ bytes_sent_' = bytes_sent_
         /\ packets_since_receipt_' = packets_since_receipt_
<1>1. /\ state_ = "SENDING_FIRMWARE"
      /\ SendChunks(<<>>, bytes_sent_, packets_since_receipt_)
  BY DEF Process
<1>2. /\ bytes_sent_ <= have.len /\ bytes_sent_ \in Nat
      /\ packets_since_receipt_ \in 0..RECEIPT_INTERVAL
      /\ packets_since_receipt_ \in Nat
  BY <1>1, DfuAssumption DEF IInv, ClientType, SentInv, Active
<1>3. Burst(bytes_sent_, packets_since_receipt_) = 0
  BY <1>1, <1>2, BurstExhausts DEF WindowInv, PacketInv
<1>4. Chunks(bytes_sent_, 0) = <<>>
  BY <1>2, ChunksAre
<1>5. /\ Send(<<>> \o <<>>) /\ bytes_sent_' = bytes_sent_ + 0
      /\ packets_since_receipt_' = packets_since_receipt_ + 0
  BY <1>1, <1>3, <1>4 DEF SendChunks
<1>6. air \o (<<>> \o <<>>) = air
  BY WindowTypes
<1>7. air' = air
  BY <1>5, <1>6 DEF Send
<1> QED BY <1>2, <1>5, <1>7

-----------------------------------------------------------------------------
(* The window and the watch.                                                *)

LEMMA WindowProcess ==
  ASSUME IInv, IInv', WindowInv, Process
  PROVE  WindowInv'
<1>1. /\ UNCHANGED state_ /\ UNCHANGED have /\ UNCHANGED link /\ UNCHANGED notes
      /\ wstate' = wstate /\ wimage' = wimage
  BY DEF Process, watchVars
<1>2. /\ air' = air /\ bytes_sent_' = bytes_sent_
      /\ packets_since_receipt_' = packets_since_receipt_
  BY ProcessSendsNothing
<1>3. PacketInv'
  BY <1>1, <1>2 DEF WindowInv, PacketInv
<1>4. Up' => Up
  BY <1>1 DEF Up
<1> QED BY <1>1, <1>2, <1>3, <1>4, AllEmbed, WindowFrame

\* The watch takes a message it waits for only when no note grants anything.
LEMMA QuietWhenTaken ==
  ASSUME IInv, WindowInv, NEW op \in Ops \ {"activate"}, Takes(op)
  PROVE  ~Noted(notes, Progress)
<1>1. Up /\ air # <<>> /\ Head(air).op = op /\ wstate = StateFor[op]
  BY DEF Takes
<1>2. Has(air, {op})
  BY <1>1, OneTaken, WindowTypes
<1> SUFFICES ASSUME NEW i \in DOMAIN notes, notes[i] \in Progress
             PROVE  FALSE
  BY DEF Noted
<1> DEFINE k == notes[i]
<1>3. /\ k \in Progress /\ wstate = WatchIn[k] /\ ~Has(air, Batons)
      /\ k \in Grants => ~Has(air, {"chunk"})
  BY <1>1 DEF WindowInv, NotesOK, Noted
<1> HIDE DEF k
<1>4. op \notin Batons
  BY <1>2, <1>3 DEF Has
<1>5. op \in {"start", "chunk"}
  BY <1>4 DEF Ops, Batons
<1>6. op = "chunk" /\ wstate = "Data"
  BY <1>1, <1>3, <1>5 DEF StateFor, WatchIn, Progress, Grants
<1>7. k = "receipt"
  BY <1>3, <1>6 DEF WatchIn, Progress, Grants
<1> QED BY <1>2, <1>3, <1>6, <1>7 DEF Grants

\* The note that answers it, if there is one.
LEMMA NoteAnswered ==
  ASSUME NEW n \in Seq(NoteKind), ~Noted(n, Progress), NEW m, NEW k \in NoteKind,
         m = n \/ m = Append(n, k), NEW up, NEW q, NEW w, NEW g,
         k \in Progress => /\ w = WatchIn[k] /\ ~Has(q, Batons)
                           /\ k \in Grants => ~Has(q, {"chunk"})
                           /\ k = "receipt" => g % RECEIPT_INTERVAL = 0
  PROVE  NotesOK(up, m, q, w, g)
<1>1. CASE m = n
  BY <1>1, QuietNotes
<1>2. CASE m = Append(n, k)
  <2>1. \A kinds : Noted(m, kinds) => Noted(n, kinds) \/ k \in kinds
    BY <1>2, OneNoted
  <2>2. OneNote(n, Progress)
    BY DEF OneNote, Noted
  <2>3. OneNote(m, Progress)
    BY <1>2, <2>2, OneNoted
  <2>4. \A x \in Progress : ~Noted(n, {x})
    BY DEF Noted
  <2>5. ASSUME NEW x \in Progress, Noted(m, {x}) PROVE x = k
    BY <2>1, <2>4, <2>5
  <2> QED BY <2>3, <2>5 DEF NotesOK
<1> QED BY <1>1, <1>2

\* What is left of the messages when the watch takes the oldest one.
LEMMA AirTaken ==
  ASSUME IInv, WindowInv, NEW op \in Ops, Takes(op)
  PROVE  /\ Tail(air) \in Seq(Message) /\ Embeds(Tail(air), air)
         /\ OneOf(Tail(air), Batons) /\ StartFirst(Tail(air))
         /\ ChunksIn(Tail(air)) \in Nat /\ ChunksIn(Tail(air)) <= RECEIPT_INTERVAL
         /\ \A ops : Has(Tail(air), ops) => Has(air, ops)
         /\ Behind(Tail(air)) => Behind(air)
         /\ op \in Batons => ~Has(Tail(air), Batons)
         /\ op = "start" => ~Has(Tail(air), {"chunk"}) /\ ~Has(Tail(air), Batons)
         /\ op = "init" => ~Has(Tail(air), {"chunk"})
         /\ op = "chunk" =>
               /\ ~Behind(Tail(air)) /\ ~Has(Tail(air), Batons)
               /\ ChunksIn(Tail(air)) + 1 <= ChunksIn(air)
               /\ ChunksIn(air) \in Nat
               /\ (wimage.got % RECEIPT_INTERVAL) + ChunksIn(air) <= RECEIPT_INTERVAL
         /\ ChunksIn(Tail(air)) = 0 => ~Has(Tail(air), {"chunk"})
<1> DEFINE t == Tail(air)
<1>1. Up /\ air # <<>> /\ Head(air).op = op /\ wstate = StateFor[op] /\ air \in Seq(Message)
  BY WindowTypes DEF Takes
<1>2. t \in Seq(Message) /\ Embeds(t, air)
  BY <1>1, TailFrom, TailEmbeds
<1>3. /\ Has(air, {op})
      /\ \A ops : OneOf(air, ops) /\ op \in ops => ~Has(t, ops)
      /\ op = "start" /\ ~Behind(air) => ~Has(t, {"chunk"})
      /\ op = "chunk" /\ StartFirst(air) => ~Behind(t)
      /\ op = "chunk" => ChunksIn(t) + 1 <= ChunksIn(air)
      /\ ChunksIn(t) = 0 => ~Has(t, {"chunk"})
  BY <1>1, OneTaken
<1> HIDE DEF t
<1>4. /\ \A ops : Has(t, ops) => Has(air, ops)
      /\ \A ops : OneOf(air, ops) => OneOf(t, ops)
      /\ Behind(t) => Behind(air)
      /\ StartFirst(air) => StartFirst(t)
      /\ ChunksIn(t) <= ChunksIn(air)
  BY <1>1, <1>2, EmbedsKeeps
<1>5. /\ OneOf(air, Batons) /\ StartFirst(air)
      /\ \A b \in Batons : Has(air, {b}) => wstate = StateFor[b]
      /\ Has(air, {"init"}) => ~Has(air, {"chunk"})
      /\ Behind(air) => wstate \in {"Init", "Data"}
      /\ ChunksIn(air) <= RECEIPT_INTERVAL
      /\ wstate = "Data" => (wimage.got % RECEIPT_INTERVAL) + ChunksIn(air) <= RECEIPT_INTERVAL
  BY DEF WindowInv, AirOK
<1>6. ChunksIn(t) \in Nat /\ ChunksIn(air) \in Nat /\ RECEIPT_INTERVAL \in Nat
  BY <1>1, <1>2, PlacesFinite, DfuAssumption
<1>7. ChunksIn(t) <= RECEIPT_INTERVAL
  BY <1>4, <1>5, <1>6
<1>8. ASSUME op \in {"start", "chunk"} PROVE ~Has(t, Batons)
  <2>1. wstate \in {"Idle", "Data"}
    BY <1>1, <1>8 DEF StateFor
  <2>2. \A b \in Batons : ~Has(t, {b})
    BY <1>4, <1>5, <2>1 DEF Batons, StateFor
  <2> QED BY <2>2 DEF Has
<1>9. op = "start" => ~Has(t, {"chunk"})
  BY <1>1, <1>3, <1>5 DEF StateFor
<1>10. op = "init" => ~Has(t, {"chunk"})
  BY <1>3, <1>4, <1>5
<1>11. op = "chunk" => wstate = "Data"
  BY <1>1 DEF StateFor
<1>12. op \in Batons => ~Has(t, Batons)
  BY <1>3, <1>5
<1> QED BY <1>2, <1>3, <1>4, <1>5, <1>6, <1>7, <1>8, <1>9, <1>10, <1>11, <1>12 DEF t

\* With the step of the watch: what is left must fit its new state.
LEMMA WindowTakes ==
  ASSUME IInv, IInv', WindowInv, NEW op \in Ops \ {"activate"}, Takes(op),
         air' = Tail(air), UNCHANGED clientVars,
         NEW k \in NoteKind, notes' = notes \/ notes' = Append(notes, k),
         ~Has(air', Batons),
         Behind(air') => wstate' \in {"Init", "Data"},
         wstate' = "Init" => wimage'.got = 0,
         wstate' = "Data" => (wimage'.got % RECEIPT_INTERVAL) + ChunksIn(air')
                               <= RECEIPT_INTERVAL,
         k \in Progress => /\ wstate' = WatchIn[k]
                           /\ k \in Grants => ~Has(air', {"chunk"})
                           /\ k = "receipt" => wimage'.got % RECEIPT_INTERVAL = 0
  PROVE  WindowInv'
<1>1. OneOf(air', Batons) /\ StartFirst(air') /\ ChunksIn(air') <= RECEIPT_INTERVAL
  BY AirTaken
<1>2. \A b \in Batons : ~Has(air', {b})
  BY DEF Has
<1>3. AirOK(air', wstate', wimage'.got)
  BY <1>1, <1>2 DEF AirOK, Batons
<1>4. notes \in Seq(NoteKind) /\ ~Noted(notes, Progress)
  BY QuietWhenTaken, WindowTypes
<1>5. NotesOK(Up', notes', air', wstate', wimage'.got)
  BY <1>4, NoteAnswered
<1>6. PacketInv'
  BY DEF WindowInv, PacketInv, clientVars
<1> QED BY <1>3, <1>5, <1>6, WindowNext

LEMMA WindowReportsError ==
  ASSUME IInv, IInv', WindowInv, WatchReportsError PROVE WindowInv'
<1>1. PICK op \in {"start", "init", "chunk"} : Takes(op)
  BY DEF WatchReportsError
<1>2. /\ air' = Tail(air) /\ notes' = Append(notes, "error") /\ wstate' = "Idle"
      /\ UNCHANGED clientVars
  BY DEF WatchReportsError, Answer
<1>3. op \in Ops \ {"activate"} /\ "error" \in NoteKind /\ "error" \notin Progress
  BY <1>1 DEF Ops, NoteKind, Progress, Grants
<1>4. /\ ~Has(air', Batons)
      /\ op \in {"start", "init"} => ~Has(air', {"chunk"})
      /\ op = "chunk" => ~Behind(air')
  BY <1>1, <1>2, <1>3, AirTaken DEF Batons
<1>5. ~Behind(air')
  BY <1>4 DEF Has, Behind
<1> QED BY <1>1, <1>2, <1>3, <1>4, <1>5, WindowTakes

LEMMA WindowStarts == ASSUME IInv, IInv', WindowInv, WatchStarts PROVE WindowInv'
<1>1. /\ Takes("start") /\ wstate' = "Init" /\ air' = Tail(air)
      /\ wimage' = [NoTransfer EXCEPT !.len = Head(air).len]
      /\ notes' = Append(notes, "started") /\ UNCHANGED clientVars
  BY DEF WatchStarts, Answer
<1>2. "start" \in Ops \ {"activate"} /\ "started" \in NoteKind
  BY DEF Ops, NoteKind
<1>3. wimage'.got = 0
  BY <1>1 DEF NoTransfer
<1>4. ~Has(air', Batons) /\ ~Has(air', {"chunk"})
  BY <1>1, <1>2, AirTaken
<1>5. "started" \in Progress => wstate' = WatchIn["started"]
  BY <1>1 DEF WatchIn
<1> QED BY <1>1, <1>2, <1>3, <1>4, <1>5, WindowTakes

LEMMA WindowInits == ASSUME IInv, IInv', WindowInv, WatchInits PROVE WindowInv'
<1>1. /\ Takes("init") /\ wstate' = wstate /\ air' = Tail(air)
      /\ wimage' = [wimage EXCEPT !.dat = Head(air).dat]
      /\ notes' = Append(notes, "initialised") /\ UNCHANGED clientVars
  BY DEF WatchInits, Answer
<1>2. "init" \in Ops \ {"activate"} /\ "initialised" \in NoteKind /\ "init" \in Batons
  BY DEF Ops, NoteKind, Batons
<1>3. wimage'.got = wimage.got /\ wstate = "Init"
  BY <1>1 DEF IInv, WatchType, Takes, StateFor
<1>4. wimage'.got = 0
  BY <1>3 DEF WindowInv, AirOK
<1>5. ~Has(air', Batons) /\ ~Has(air', {"chunk"})
  BY <1>1, <1>2, AirTaken
<1>6. wstate' = WatchIn["initialised"] /\ wstate' = "Init"
  BY <1>1, <1>3 DEF WatchIn
<1> QED BY <1>1, <1>2, <1>4, <1>5, <1>6, WindowTakes

LEMMA WindowPrepares ==
  ASSUME IInv, IInv', WindowInv, NEW answers \in BOOLEAN, WatchPrepares(answers)
  PROVE  WindowInv'
<1>1. /\ Takes("receive") /\ wstate' = "Data" /\ air' = Tail(air) /\ wimage' = wimage
      /\ notes' = notes \/ notes' = Append(notes, "other")
      /\ UNCHANGED clientVars
  BY DEF WatchPrepares, Answer
<1>2. /\ "receive" \in Ops \ {"activate"} /\ "receive" \in Batons
      /\ "other" \in NoteKind /\ "other" \notin Progress
  BY DEF Ops, Batons, NoteKind, Progress, Grants
<1>3. wimage.got = 0
  BY <1>1 DEF Takes, StateFor, WindowInv, AirOK
<1>4. ~Has(air', Batons) /\ ChunksIn(air') \in Nat /\ ChunksIn(air') <= RECEIPT_INTERVAL
  BY <1>1, <1>2, AirTaken
<1>5. 0 % RECEIPT_INTERVAL = 0
  <2>1. RECEIPT_INTERVAL \in Nat \ {0}
    BY DfuAssumption
  <2> QED BY <2>1
<1>6. (wimage'.got % RECEIPT_INTERVAL) + ChunksIn(air') <= RECEIPT_INTERVAL
  BY <1>1, <1>3, <1>4, <1>5
<1> QED BY <1>1, <1>2, <1>4, <1>6, WindowTakes

LEMMA WindowStores == ASSUME IInv, IInv', WindowInv, WatchStores PROVE WindowInv'
<1> DEFINE R == RECEIPT_INTERVAL
           next == wimage.got + 1
<1>1. /\ Takes("chunk") /\ air' = Tail(air) /\ UNCHANGED clientVars
      /\ wstate' = IF next = wimage.len THEN "Validate" ELSE "Data"
      /\ notes' = CASE next = wimage.len -> Append(notes, "received")
                    [] next # wimage.len /\ next % R = 0 -> Append(notes, "receipt")
                    [] OTHER -> notes
  BY DEF WatchStores
<1>2. wimage'.got = next
  BY DEF WatchStores, IInv, WatchType
<1>3. /\ wimage.got \in Nat /\ R \in Nat \ {0} /\ wimage.got % R \in 0..(R - 1)
  BY WindowTypes
<1>4. next % R = IF wimage.got % R = R - 1 THEN 0 ELSE (wimage.got % R) + 1
  BY <1>3, NextRemainder
<1> DEFINE g == wimage.got % R
           h == next % R
           a == ChunksIn(air)
           b == ChunksIn(air')
<1>5. /\ ~Behind(air') /\ ~Has(air', Batons) /\ a \in Nat /\ b \in Nat
      /\ b + 1 <= a /\ g + a <= R /\ (b = 0 => ~Has(air', {"chunk"}))
  BY <1>1, AirTaken DEF Ops
<1>6. g \in 0..(R - 1) /\ h = (IF g = R - 1 THEN 0 ELSE g + 1) /\ R \in Nat \ {0}
  BY <1>3, <1>4
<1>7. h + b <= R /\ (h = 0 => b = 0)
  <2> HIDE DEF g, h, a, b, R
  <2> QED BY <1>5, <1>6
<1>8. "chunk" \in Ops \ {"activate"} /\ "received" \in NoteKind /\ "receipt" \in NoteKind
  BY DEF Ops, NoteKind
<1> HIDE DEF next
<1>9. CASE next = wimage.len
  <2>1. wstate' = "Validate" /\ notes' = Append(notes, "received")
    BY <1>1, <1>9
  <2>2. "received" \notin Grants /\ WatchIn["received"] = "Validate"
    BY DEF Grants, WatchIn
  <2> QED BY <1>1, <1>5, <1>8, <2>1, <2>2, WindowTakes
<1>10. CASE next # wimage.len /\ h = 0
  <2>1. wstate' = "Data" /\ notes' = Append(notes, "receipt")
    BY <1>1, <1>10
  <2>2. ~Has(air', {"chunk"}) /\ wimage'.got % R = 0 /\ WatchIn["receipt"] = "Data"
    BY <1>2, <1>5, <1>7, <1>10 DEF WatchIn
  <2>3. (wimage'.got % R) + ChunksIn(air') <= R
    BY <1>2, <1>7
  <2> QED BY <1>1, <1>5, <1>8, <2>1, <2>2, <2>3, WindowTakes
<1>11. CASE next # wimage.len /\ h # 0
  <2>1. wstate' = "Data" /\ notes' = notes
    BY <1>1, <1>11
  <2>2. (wimage'.got % R) + ChunksIn(air') <= R
    BY <1>2, <1>7
  <2>3. "other" \in NoteKind /\ "other" \notin Progress
    BY DEF NoteKind, Progress, Grants
  <2> QED BY <1>1, <1>5, <1>8, <2>1, <2>2, <2>3, WindowTakes
<1> QED BY <1>9, <1>10, <1>11

LEMMA WindowValidates == ASSUME IInv, IInv', WindowInv, WatchValidates PROVE WindowInv'
<1>1. Takes("validate") /\ air' = Tail(air) /\ UNCHANGED clientVars
  BY DEF WatchValidates
<1>2. \/ wstate' = "Validated" /\ notes' = Append(notes, "validated")
      \/ wstate' = "Idle" /\ notes' = Append(notes, "error")
  BY DEF WatchValidates, Answer
<1>3. "validate" \in Ops \ {"activate"} /\ "validate" \in Batons
      /\ "validated" \in NoteKind /\ "error" \in NoteKind
  BY DEF Ops, Batons, NoteKind
<1>4. ~Has(air', Batons) /\ (Behind(air') => Behind(air))
  BY <1>1, <1>3, AirTaken
<1>5. ~Behind(air')
  <2>1. wstate = "Validate"
    BY <1>1 DEF Takes, StateFor
  <2> QED BY <1>4, <2>1 DEF WindowInv, AirOK
<1>6. "error" \notin Progress /\ "validated" \notin Grants /\ WatchIn["validated"] = "Validated"
  BY DEF Progress, Grants, WatchIn
<1>7. CASE wstate' = "Validated" /\ notes' = Append(notes, "validated")
  BY <1>1, <1>3, <1>4, <1>5, <1>6, <1>7, WindowTakes
<1>8. CASE wstate' = "Idle" /\ notes' = Append(notes, "error")
  BY <1>1, <1>3, <1>4, <1>5, <1>6, <1>8, WindowTakes
<1> QED BY <1>2, <1>7, <1>8

-----------------------------------------------------------------------------

LEMMA WindowInit == Init => WindowInv
<1> SUFFICES ASSUME Init PROVE WindowInv
  OBVIOUS
<1>1. air = <<>> /\ notes = <<>> /\ wstate = "Idle" /\ wimage.got = 0 /\ state_ = "IDLE"
  BY DEF Init, NoTransfer
<1>2. AirOK(<<>>, "Idle", 0)
  BY AirEmpty
<1>3. PacketInv
  BY <1>1 DEF PacketInv
<1> QED BY <1>1, <1>2, <1>3, NotesEmpty DEF WindowInv

LEMMA WindowStep == ASSUME IInv, WindowInv, [Next]_vars PROVE WindowInv'
<1> USE DEF serverVars, clientVars, linkVars, watchVars
<1>1. IInv'
  BY NextKeeps
<1>2. Embeds(air, air) /\ Embeds(notes, notes)
  BY AllEmbed
<1>3. ASSUME UNCHANGED <<air, notes, wstate, wimage>>, Up' => Up, PacketInv'
      PROVE  WindowInv'
  BY <1>1, <1>2, <1>3, WindowFrame
<1>4. ASSUME UNCHANGED <<air, notes, wstate, wimage, link>>,
             \/ UNCHANGED <<state_, have, bytes_sent_, packets_since_receipt_>>
             \/ state_' # "SENDING_FIRMWARE"
      PROVE  WindowInv'
  <2>1. PacketInv'
    BY <1>4 DEF WindowInv, PacketInv
  <2>2. Up' => Up
    BY <1>4 DEF Up
  <2> QED BY <1>3, <1>4, <2>1, <2>2
<1>5. CASE UNCHANGED vars \/ RequestDfu
  BY <1>4, <1>5 DEF vars, RequestDfu
<1>6. CASE \E v \in Versions : UploadBin(v)
  BY <1>4, <1>6 DEF UploadBin
<1>7. CASE \E written \in BOOLEAN : UploadDat(written)
  BY <1>4, <1>7 DEF UploadDat
<1>8. CASE \E posted \in BOOLEAN : StartDfu(posted)
  BY <1>4, <1>8 DEF StartDfu
<1>9. CASE \E answered \in BOOLEAN : DownloadBin(answered)
  <2>1. state_' \in {"DOWNLOADING", "FAILED"}
    BY <1>9 DEF DownloadBin
  <2> QED BY <1>4, <1>9, <2>1 DEF DownloadBin
<1>10. CASE \E answered \in BOOLEAN : DownloadDat(answered)
  <2>1. PICK answered \in BOOLEAN : DownloadDat(answered)
    BY <1>10
  <2>2. /\ state_' \in {"CONNECTING", "FAILED"} /\ UNCHANGED <<air, notes, wstate, wimage>>
        /\ link' = (IF Up THEN "searching" ELSE "opening") \/ link' = link
    BY <2>1 DEF DownloadDat
  <2>3. (Up' => Up) /\ PacketInv'
    BY <2>2 DEF Up, PacketInv
  <2> QED BY <1>3, <2>2, <2>3
<1>11. CASE Reconnect
  <2>1. Up' => Up
    BY <1>11 DEF Reconnect, Up
  <2>2. PacketInv'
    BY <1>11 DEF Reconnect, WindowInv, PacketInv
  <2> QED BY <1>3, <1>11, <2>1, <2>2 DEF Reconnect
<1>12. CASE Opened
  <2>1. /\ notes' = <<>> /\ air' = air /\ wstate' = wstate /\ wimage' = wimage
    BY <1>12 DEF Opened
  <2>2. PacketInv'
    BY <1>12 DEF Opened, WindowInv, PacketInv
  <2> QED BY <2>1, <2>2, NotesEmpty, WindowNext DEF WindowInv
<1>13. CASE \E found \in BOOLEAN : SearchCompletes(found)
  BY <1>1, <1>13, WindowSearch
<1>14. CASE HandleNotification
  BY <1>1, <1>14, WindowHandle
<1>15. CASE Process
  BY <1>1, <1>15, WindowProcess
<1>16. CASE \E early \in BOOLEAN : TimesOut(early)
  BY <1>4, <1>16 DEF TimesOut
<1>17. CASE DfuDone
  BY <1>4, <1>17 DEF DfuDone
<1>18. CASE LinkLost
  <2>1. /\ air' = <<>> /\ link' = "down" /\ wstate' = "Idle" /\ UNCHANGED clientVars
    BY <1>18 DEF LinkLost
  <2>2. PICK n \in 0..Len(notes) : notes' = SubSeq(notes, 1, n)
    BY <1>18 DEF LinkLost
  <2>3. Embeds(notes', notes)
    BY <2>2, PrefixEmbeds, WindowTypes
  <2> QED BY <1>1, <2>1, <2>3, WindowDown DEF Up
<1>19. CASE WriteRefused
  <2>1. UNCHANGED <<notes, wstate, wimage, link>> /\ UNCHANGED clientVars
    BY <1>19 DEF WriteRefused
  <2>2. PICK i \in DOMAIN air : air' = SubSeq(air, 1, i - 1) \o SubSeq(air, i + 1, Len(air))
    BY <1>19 DEF WriteRefused
  <2>3. Embeds(air', air)
    BY <2>2, RemoveEmbeds, WindowTypes
  <2>4. (Up' => Up) /\ PacketInv'
    BY <2>1 DEF Up, WindowInv, PacketInv
  <2> QED BY <1>1, <1>2, <2>1, <2>3, <2>4, WindowFrame
<1>20. CASE WatchIgnores
  <2>1. UNCHANGED <<notes, wstate, wimage, link>> /\ UNCHANGED clientVars
        /\ air # <<>> /\ air' = Tail(air)
    BY <1>20 DEF WatchIgnores
  <2>2. Embeds(air', air)
    BY <2>1, TailEmbeds, WindowTypes
  <2>3. (Up' => Up) /\ PacketInv'
    BY <2>1 DEF Up, WindowInv, PacketInv
  <2> QED BY <1>1, <1>2, <2>1, <2>2, <2>3, WindowFrame
<1>21. CASE WatchReportsError \/ WatchStarts \/ WatchInits
  BY <1>1, <1>21, WindowReportsError, WindowStarts, WindowInits
<1>22. CASE \E answers \in BOOLEAN : WatchPrepares(answers)
  BY <1>1, <1>22, WindowPrepares
<1>23. CASE WatchStores \/ WatchValidates
  BY <1>1, <1>23, WindowStores, WindowValidates
<1>24. CASE WatchActivates
  <2>1. /\ air' = <<>> /\ link' = "down" /\ wstate' = "Idle" /\ UNCHANGED clientVars
        /\ notes' = notes
    BY <1>24 DEF WatchActivates
  <2> QED BY <1>1, <1>2, <2>1, WindowDown DEF Up
<1> QED
  BY <1>5, <1>6, <1>7, <1>8, <1>9, <1>10, <1>11, <1>12, <1>13, <1>14, <1>15, <1>16, <1>17,
     <1>18, <1>19, <1>20, <1>21, <1>22, <1>23, <1>24 DEF Next

LEMMA WindowHolds == Spec => []WindowInv
<1>1. IInv /\ WindowInv /\ [Next]_vars => WindowInv'
  BY WindowStep
<1> QED BY <1>1, WindowInit, InvariantHolds, PTL DEF Spec

\* Whatever answers are repeated, lost or left over from an update that timed out, no more
\* chunks than one window are on their way (dfu_client.cpp:190-330).
THEOREM AlwaysWindowBounded == Spec => []WindowBounded
<1>1. WindowInv => WindowBounded
  BY DEF WindowInv, AirOK, WindowBounded
<1> QED BY <1>1, WindowHolds, PTL

-----------------------------------------------------------------------------
(* The conversation: what the client and the watch believe of each other.   *)

Members(q) == {q[i] : i \in DOMAIN q}
Requests == {"start", "init", "receive", "validate"}
Verdicts == Progress \cup {"error"}
Transfer == {"STARTING", "SENDING_INIT", "SENDING_FIRMWARE", "VALIDATING"}

\* The state of the client that waits for a note, or for the answer to a request.
BridgeIn == [started |-> "STARTING", initialised |-> "SENDING_INIT",
             receipt |-> "SENDING_FIRMWARE", received |-> "SENDING_FIRMWARE",
             validated |-> "VALIDATING"]
SentIn == [start |-> "STARTING", init |-> "SENDING_INIT",
           receive |-> "SENDING_FIRMWARE", validate |-> "VALIDATING"]

\* What the watch has was promised and sent by the update under way.
Matches ==
    /\ wimage.len = have.len /\ wimage.dat = have.dat
    /\ wimage.got = 0 \/ wimage.ver \in {have.bin, NoVersion}
Installed == slot = have.bin /\ have.bin = have.dat /\ have.len = BinChunks[have.bin]

MsgOK(m) ==
    /\ m.op \in Requests => state_ = SentIn[m.op]
    /\ m.op = "start" => m.len = have.len
    /\ m.op = "init" => m.dat = have.dat /\ wimage.len = have.len
    /\ m.op \in {"receive", "validate"} => Matches
    /\ m.op = "chunk" /\ wstate \in {"Init", "Data"} =>
          state_ = "SENDING_FIRMWARE" /\ m.ver = have.bin /\ Matches
NoteOK(k) ==
    /\ k \in Progress => state_ = BridgeIn[k]
    /\ k = "error" => state_ \in Transfer /\ (Up => wstate = "Idle")
    /\ Up /\ k = "started" => wimage.len = have.len
    /\ Up /\ k \in {"initialised", "receipt", "received"} => Matches
    /\ k = "validated" => Installed
HaveOK ==
    /\ state_ = "COMPLETE" => Installed
    /\ state_ \in Transfer \cup {"CONNECTING"} => have.bin \in Versions /\ have.dat \in Versions

ConvOK ==
    /\ \A m \in Members(air) : MsgOK(m)
    /\ OneOf(air, {"start"})
    /\ \A k \in Members(notes) : NoteOK(k)
    /\ OneNote(notes, Verdicts)
    /\ Noted(notes, Verdicts) => ~Has(air, Requests)
    /\ HaveOK

\* An image that waits for its validation is complete.
WholeInv == wstate = "Validate" => wimage.got = wimage.len

ConvInv == WholeInv /\ (~stale => ConvOK)

\* What every step of the conversation may assume.
Talk == IInv /\ WindowInv /\ WholeInv /\ ConvOK

LEMMA ConvNext ==
  ASSUME \A m \in Members(air') : MsgOK(m)', OneOf(air', {"start"}),
         \A k \in Members(notes') : NoteOK(k)', OneNote(notes', Verdicts),
         Noted(notes', Verdicts) => ~Has(air', Requests), HaveOK'
  PROVE  ConvOK'
<1>1. Members(air)' = Members(air') /\ Members(notes)' = Members(notes')
  BY DEF Members
<1>2. (OneOf(air, {"start"}))' /\ (OneNote(notes, Verdicts))'
  BY DEF OneOf, OneNote
<1>3. (Noted(notes, Verdicts) => ~Has(air, Requests))'
  BY DEF Noted, Has
<1> QED BY <1>1, <1>2, <1>3 DEF ConvOK

LEMMA HasMember ==
  /\ \A q, ops : Has(q, ops) <=> \E m \in Members(q) : m.op \in ops
  /\ \A q, kinds : Noted(q, kinds) <=> \E k \in Members(q) : k \in kinds
  BY DEF Has, Noted, Members

LEMMA FromMembers ==
  ASSUME NEW q, NEW p, From(q, p)
  PROVE  Members(q) \subseteq Members(p)
  BY DEF From, Members

LEMMA MemberTypes ==
  ASSUME IInv
  PROVE  /\ air \in Seq(Message) /\ Members(air) \subseteq Message
         /\ notes \in Seq(NoteKind) /\ Members(notes) \subseteq NoteKind
<1>1. air \in Seq(Message) /\ notes \in Seq(NoteKind)
  BY DEF IInv, LinkType
<1>2. (\A i \in DOMAIN air : air[i] \in Message) /\ \A i \in DOMAIN notes : notes[i] \in NoteKind
  BY <1>1
<1> QED BY <1>1, <1>2 DEF Members

\* Nothing but losses happened to the conversation.
LEMMA ConvFrame ==
  ASSUME Talk, IInv', Embeds(air', air), Embeds(notes', notes), Up' => Up,
         UNCHANGED <<state_, have, wstate, wimage, slot>>
  PROVE  ConvOK'
<1>1. /\ air \in Seq(Message) /\ air' \in Seq(Message)
      /\ notes \in Seq(NoteKind) /\ notes' \in Seq(NoteKind)
  BY DEF Talk, IInv, LinkType
<1>2. Members(air') \subseteq Members(air) /\ Members(notes') \subseteq Members(notes)
  BY <1>1, EmbedsKeeps, FromMembers
<1>3. OneOf(air', {"start"}) /\ OneNote(notes', Verdicts)
  BY <1>1, EmbedsKeeps DEF Talk, ConvOK
<1>4. Noted(notes', Verdicts) => ~Has(air', Requests)
  BY <1>1, EmbedsKeeps DEF Talk, ConvOK
<1>5. \A m : MsgOK(m) => MsgOK(m)'
  BY DEF MsgOK, Matches
<1>6. \A k : NoteOK(k) => NoteOK(k)'
  BY DEF NoteOK, Matches, Installed
<1>7. HaveOK'
  BY DEF Talk, ConvOK, HaveOK, Installed
<1> QED BY <1>2, <1>3, <1>4, <1>5, <1>6, <1>7, ConvNext DEF Talk, ConvOK

\* The link goes down.
LEMMA ConvDown ==
  ASSUME Talk, IInv', air' = <<>>, ~Up', Embeds(notes', notes), UNCHANGED <<state_, have, slot>>
  PROVE  ConvOK'
<1>1. notes \in Seq(NoteKind) /\ notes' \in Seq(NoteKind)
  BY DEF Talk, IInv, LinkType
<1>2. Members(notes') \subseteq Members(notes)
  BY <1>1, EmbedsKeeps, FromMembers
<1>7. Members(air') = {}
  BY DEF Members
<1>3. OneOf(air', {"start"}) /\ ~Has(air', Requests)
  BY DEF OneOf, Has
<1>4. OneNote(notes', Verdicts)
  BY <1>1, EmbedsKeeps DEF Talk, ConvOK
<1>5. \A k : NoteOK(k) => NoteOK(k)'
  BY DEF NoteOK, Installed
<1>6. HaveOK'
  BY DEF Talk, ConvOK, HaveOK, Installed
<1> QED BY <1>2, <1>3, <1>4, <1>5, <1>6, <1>7, ConvNext DEF Talk, ConvOK

\* The client goes on, with no verdict left to read: of what was on its way only
\* chunks may stay, that the watch ignores.
LEMMA ConvSend ==
  ASSUME Talk, IInv', ~Noted(notes', Verdicts), ~Has(air, Requests),
         \A m \in Members(air) : m.op = "chunk" => wstate' \notin {"Init", "Data"},
         \A m \in Members(air') : m \in Members(air) \/ MsgOK(m)',
         OneOf(air', {"start"}), HaveOK'
  PROVE  ConvOK'
<1>1. \A m \in Members(air) : m.op \notin Requests
  BY HasMember
<1>2. \A m \in Members(air) : MsgOK(m)'
  <2> SUFFICES ASSUME NEW m \in Members(air) PROVE MsgOK(m)'
    OBVIOUS
  <2>1. m.op \notin Requests /\ (m.op = "chunk" => wstate' \notin {"Init", "Data"})
    BY <1>1
  <2> QED BY <2>1 DEF MsgOK, Requests
<1>3. \A k \in Members(notes') : k \notin Verdicts
  BY HasMember
<1>4. \A k \in Members(notes') : NoteOK(k)'
  BY <1>3 DEF NoteOK, Verdicts, Progress, Grants
<1>5. OneNote(notes', Verdicts)
  BY DEF OneNote, Noted
<1> QED BY <1>2, <1>4, <1>5, ConvNext

\* Outside of a transfer nothing is on its way that could start or end one.
LEMMA Silence ==
  ASSUME Talk, state_ \notin Transfer
  PROVE  /\ ~Noted(notes, Verdicts) /\ ~Has(air, Requests)
         /\ \A m \in Members(air) : m.op = "chunk" => wstate \notin {"Init", "Data"}
<1>1. \A k \in Members(notes) : k \notin Verdicts
  BY DEF Talk, ConvOK, NoteOK, Verdicts, Progress, Grants, BridgeIn, Transfer
<1>2. \A m \in Members(air) : m.op \notin Requests
  BY DEF Talk, ConvOK, MsgOK, Requests, SentIn, Transfer
<1>3. \A m \in Members(air) : m.op = "chunk" => wstate \notin {"Init", "Data"}
  BY DEF Talk, ConvOK, MsgOK, Transfer
<1> QED BY <1>1, <1>2, <1>3, HasMember

LEMMA ConvQuiet ==
  ASSUME Talk, IInv', state_ \notin Transfer, UNCHANGED <<air, notes, wstate>>, HaveOK'
  PROVE  ConvOK'
<1>1. ~Noted(notes', Verdicts) /\ OneOf(air', {"start"})
  BY Silence DEF Talk, ConvOK
<1> QED BY <1>1, Silence, ConvSend

\* What a verdict at the head says: it is the only one, and the client's word is next.
LEMMA VerdictMeans ==
  ASSUME Talk, notes # <<>>, Head(notes) \in Verdicts
  PROVE  /\ NoteOK(Head(notes))
         /\ ~Noted(Tail(notes), Verdicts) /\ ~Has(air, Requests)
         /\ \A m \in Members(air) : m.op = "chunk" => wstate \notin {"Init", "Data"}
<1> DEFINE h == Head(notes)
<1>1. /\ notes \in Seq(NoteKind) /\ air \in Seq(Message) /\ h = notes[1] /\ 1 \in DOMAIN notes
  BY WindowTypes, TailFrom DEF Talk
<1>2. h \in Members(notes) /\ Noted(notes, Verdicts)
  BY <1>1 DEF Members, Noted
<1>3. NoteOK(h) /\ ~Has(air, Requests)
  BY <1>2 DEF Talk, ConvOK
<1>4. ~Noted(Tail(notes), Verdicts)
  <2>1. /\ Len(notes) \in Nat /\ Len(notes) >= 1 /\ DOMAIN notes = 1..Len(notes)
        /\ DOMAIN Tail(notes) = 1..(Len(notes) - 1)
        /\ \A i \in 1..(Len(notes) - 1) : Tail(notes)[i] = notes[i + 1]
    BY <1>1
  <2>2. \A i \in DOMAIN Tail(notes) : /\ i + 1 \in DOMAIN notes /\ i + 1 # 1
                                       /\ Tail(notes)[i] = notes[i + 1]
    BY <2>1
  <2>3. OneNote(notes, Verdicts)
    BY DEF Talk, ConvOK
  <2> QED BY <1>1, <2>2, <2>3 DEF Noted, OneNote
<1>5. ASSUME NEW m \in Members(air), m.op = "chunk"
      PROVE  wstate \notin {"Init", "Data"}
  <2>1. CASE ~Up
    BY <1>5, <2>1 DEF Talk, IInv, ActivateInv, Members
  <2>2. CASE Up /\ h \in Grants
    <3>1. ~Has(air, {"chunk"})
      BY <2>2, NoteMeans DEF Talk, Progress
    <3> QED BY <1>5, <3>1 DEF Has, Members
  <2>3. CASE Up /\ h \in {"received", "validated"}
    BY <2>3, NoteMeans DEF Talk, Progress, WatchIn
  <2>4. CASE Up /\ h = "error"
    BY <1>3, <2>4 DEF NoteOK
  <2> QED BY <2>1, <2>2, <2>3, <2>4 DEF Verdicts, Progress
<1> QED BY <1>3, <1>4, <1>5

LEMMA SentOne ==
  ASSUME NEW q \in Seq(Message), NEW m \in Message
  PROVE  Members(q \o <<m>>) \subseteq Members(q) \cup {m}
<1>1. <<m>> \in Seq(Message) /\ \A j \in DOMAIN <<m>> : <<m>>[j] = m
  OBVIOUS
<1>2. \A i \in DOMAIN (q \o <<m>>) : \/ \E j \in DOMAIN q : (q \o <<m>>)[i] = q[j]
                                     \/ \E j \in DOMAIN <<m>> : (q \o <<m>>)[i] = <<m>>[j]
  BY <1>1, ConcatFrom
<1>3. \A i \in DOMAIN (q \o <<m>>) :
         (q \o <<m>>)[i] = m \/ \E j \in DOMAIN q : (q \o <<m>>)[i] = q[j]
  BY <1>1, <1>2
<1> QED BY <1>3 DEF Members

LEMMA JoinedMembers ==
  ASSUME NEW S, NEW p \in Seq(S), NEW q \in Seq(S)
  PROVE  p \o q \in Seq(S) /\ Members(p \o q) \subseteq Members(p) \cup Members(q)
<1>1. /\ p \o q \in Seq(S)
      /\ \A i \in DOMAIN (p \o q) : \/ \E j \in DOMAIN p : (p \o q)[i] = p[j]
                                    \/ \E j \in DOMAIN q : (p \o q)[i] = q[j]
  BY ConcatFrom
<1> QED BY <1>1 DEF Members

LEMMA SentMany ==
  ASSUME NEW q \in Seq(Message), NEW p \in Seq(Message), NEW c \in Seq(Message)
  PROVE  Members(q \o (p \o c)) \subseteq Members(q) \cup Members(p) \cup Members(c)
<1>1. p \o c \in Seq(Message) /\ Members(p \o c) \subseteq Members(p) \cup Members(c)
  BY JoinedMembers
<1>2. Members(q \o (p \o c)) \subseteq Members(q) \cup Members(p \o c)
  BY <1>1, JoinedMembers
<1> QED BY <1>1, <1>2

LEMMA ConvSearch ==
  ASSUME Talk, IInv', NEW found \in BOOLEAN, SearchCompletes(found)
  PROVE  ConvOK'
<1>1. /\ link = "searching" /\ link' = "ready" /\ notes' = notes /\ have' = have
      /\ wstate' = wstate /\ wimage' = wimage /\ slot' = slot
  BY DEF SearchCompletes, watchVars
<1>2. Up /\ Up'
  BY <1>1 DEF Up
<1>3. air \in Seq(Message) /\ Embeds(air, air) /\ Embeds(notes, notes)
  BY WindowTypes, AllEmbed DEF Talk
<1>4. CASE state_ = "CONNECTING" /\ found
  <2>1. state_' = "STARTING" /\ air' = air \o <<[op |-> "start", len |-> have.len]>>
    BY <1>2, <1>4 DEF SearchCompletes, Send
  <2>2. PICK m \in Message : m.op = "start" /\ m.len = have.len /\ air' = air \o <<m>>
    <3>1. [op |-> "start", len |-> have.len] \in Message
      BY DEF Message, Talk, IInv, ClientType
    <3> QED BY <2>1, <3>1
  <2>3. /\ ~Noted(notes, Verdicts) /\ ~Has(air, Requests)
        /\ \A x \in Members(air) : x.op = "chunk" => wstate \notin {"Init", "Data"}
    BY <1>4, Silence DEF Transfer
  <2>4. MsgOK(m)'
    BY <1>1, <2>1, <2>2 DEF MsgOK, Requests, SentIn
  <2>5. \A x \in Members(air') : x \in Members(air) \/ MsgOK(x)'
    <3>1. Members(air') \subseteq Members(air) \cup {m}
      BY <1>3, <2>2, SentOne
    <3> QED BY <2>4, <3>1
  <2>6. OneOf(air', {"start"})
    <3>1. ~Has(air, {"start"})
      BY <2>3 DEF Has, Requests
    <3> QED BY <1>3, <2>2, <3>1, OneSent DEF Talk, ConvOK
  <2>7. HaveOK'
    BY <1>1, <1>4, <2>1 DEF Talk, ConvOK, HaveOK, Transfer
  <2> QED BY <1>1, <2>3, <2>5, <2>6, <2>7, ConvSend
<1>5. CASE ~(state_ = "CONNECTING" /\ found)
  <2>1. state_' = state_ /\ air' = air
    BY <1>5 DEF SearchCompletes
  <2> QED BY <1>1, <1>2, <1>3, <2>1, ConvFrame
<1> QED BY <1>4, <1>5

\* A burst of chunks, for which the last note was the word.
LEMMA ConvBurst ==
  ASSUME Talk, IInv', NEW prefix \in Seq(Message), NEW sent \in Nat, sent <= have.len,
         SendChunks(prefix, sent, 0),
         \A i \in DOMAIN prefix : prefix[i].op = "receive",
         notes # <<>>, Head(notes) \in Grants, notes' = Tail(notes),
         Up => Matches, state_' = "SENDING_FIRMWARE",
         state_ \in Transfer, UNCHANGED <<have, link, wstate, wimage, slot>>
  PROVE  ConvOK'
<1> DEFINE n == Burst(sent, 0)
<1>1. 0 \in 0..RECEIPT_INTERVAL
  BY DfuAssumption
<1>2. n \in Nat
  BY <1>1, BurstFits DEF Talk
<1>3. Send(prefix \o Chunks(sent, n))
  BY DEF SendChunks
<1> HIDE DEF n
<1>4. PICK c \in Seq(Message) :
         /\ Send(prefix \o c)
         /\ \A i \in DOMAIN c : c[i].op = "chunk" /\ c[i].ver = have.bin
  <2>1. IInv
    BY DEF Talk
  <2>2. /\ Chunks(sent, n) \in Seq(Message) /\ DOMAIN Chunks(sent, n) = 1..n
        /\ \A i \in 1..n : Chunks(sent, n)[i].op = "chunk" /\ Chunks(sent, n)[i].ver = have.bin
    BY <1>2, <2>1, ChunksAre
  <2> QED BY <1>3, <2>2
<1>5. /\ ~Noted(Tail(notes), Verdicts) /\ ~Has(air, Requests)
      /\ \A m \in Members(air) : m.op = "chunk" => wstate \notin {"Init", "Data"}
  BY VerdictMeans DEF Verdicts, Progress
<1>6. air \in Seq(Message) /\ OneOf(air, {"start"})
  BY WindowTypes DEF Talk, ConvOK
<1>7. HaveOK'
  BY DEF Talk, ConvOK, HaveOK, Transfer
<1>8. CASE Up
  <2>1. air' = air \o (prefix \o c)
    BY <1>4, <1>8 DEF Send
  <2>2. \A m \in Members(prefix) : MsgOK(m)'
    <3> SUFFICES ASSUME NEW m, m.op = "receive" PROVE MsgOK(m)'
      BY DEF Members
    <3>1. Matches'
      BY <1>8 DEF Matches
    <3> QED BY <3>1 DEF MsgOK, Requests, SentIn
  <2>3. \A m \in Members(c) : MsgOK(m)'
    <3> SUFFICES ASSUME NEW m, m.op = "chunk", m.ver = have.bin PROVE MsgOK(m)'
      BY <1>4 DEF Members
    <3>1. Matches'
      BY <1>8 DEF Matches
    <3> QED BY <3>1 DEF MsgOK, Requests
  <2>4. \A m \in Members(air') : m \in Members(air) \/ MsgOK(m)'
    BY <1>6, <2>1, <2>2, <2>3, SentMany
  <2>5. OneOf(air', {"start"})
    <3>1. ~Has(air, {"chunk"})
      BY <1>8, NoteMeans DEF Talk, Progress
    <3>2. ~Has(prefix, {"chunk"}) /\ ~Has(prefix, {"start"})
      BY DEF Has
    <3>3. \A i \in DOMAIN c : c[i].op = "chunk"
      BY <1>4
    <3> QED BY <1>6, <2>1, <3>1, <3>2, <3>3, BurstSent
  <2> QED BY <1>5, <1>7, <2>4, <2>5, ConvSend
<1>9. CASE ~Up
  <2>1. air' = air
    BY <1>4, <1>9 DEF Send
  <2> QED BY <1>5, <1>6, <1>7, <2>1, ConvSend
<1> QED BY <1>8, <1>9

LEMMA ConvHandle ==
  ASSUME Talk, IInv', HandleNotification
  PROVE  ConvOK'
<1> DEFINE n == Head(notes)
<1>1. /\ notes # <<>> /\ notes' = Tail(notes) /\ have' = have /\ link' = link
      /\ wstate' = wstate /\ wimage' = wimage /\ slot' = slot
  BY DEF HandleNotification, watchVars
<1>2. (Up' <=> Up) /\ notes \in Seq(NoteKind) /\ air \in Seq(Message)
  BY <1>1, WindowTypes DEF Up, Talk
<1>3. Embeds(notes', notes) /\ Embeds(air, air)
  BY <1>1, <1>2, TailEmbeds, AllEmbed DEF Talk
<1>4. ASSUME n \in Verdicts
      PROVE  /\ NoteOK(n) /\ ~Noted(notes', Verdicts) /\ ~Has(air, Requests)
             /\ \A m \in Members(air) : m.op = "chunk" => wstate' \notin {"Init", "Data"}
  BY <1>1, <1>4, VerdictMeans
<1>5. CASE ~Active /\ UNCHANGED <<state_, air>>
  BY <1>1, <1>2, <1>3, <1>5, ConvFrame
<1>6. CASE /\ Active /\ n \in {"started", "received", "validated"}
           /\ state_' = PhaseAfter(n) /\ Send(<<Reply(n)>>)
  <2>1. n \in Verdicts /\ n \in Progress
    BY <1>6 DEF Verdicts, Progress, Grants
  <2>2. HaveOK'
    BY <1>1, <1>4, <1>6, <2>1
       DEF NoteOK, HaveOK, PhaseAfter, BridgeIn, Transfer, Installed, Talk, ConvOK
  <2>3. CASE Up
    <3>1. Reply(n) \in Message
      BY <1>6 DEF Reply, Message, Talk, IInv, ClientType
    <3>2. PICK m \in Message : m = Reply(n) /\ air' = air \o <<m>>
      BY <1>6, <2>3, <3>1 DEF Send
    <3>3. MsgOK(m)'
      <4>1. CASE n = "started"
        <5>1. m.op = "init" /\ m.dat = have.dat /\ state_' = "SENDING_INIT"
          BY <3>2, <4>1, <1>6 DEF Reply, PhaseAfter
        <5>2. wimage.len = have.len
          BY <1>4, <2>1, <2>3, <4>1 DEF NoteOK
        <5> QED BY <1>1, <5>1, <5>2 DEF MsgOK, Requests, SentIn
      <4>2. CASE n = "received"
        <5>1. m.op = "validate" /\ state_' = "VALIDATING"
          BY <3>2, <4>2, <1>6 DEF Reply, PhaseAfter
        <5>2. Matches
          BY <1>4, <2>1, <2>3, <4>2 DEF NoteOK
        <5> QED BY <1>1, <5>1, <5>2 DEF MsgOK, Requests, SentIn, Matches
      <4>3. CASE n = "validated"
        <5>1. m.op = "activate"
          BY <3>2, <4>3, <1>6 DEF Reply
        <5> QED BY <5>1 DEF MsgOK, Requests
      <4> QED BY <1>6, <4>1, <4>2, <4>3
    <3>4. \A x \in Members(air') : x \in Members(air) \/ MsgOK(x)'
      <4>1. Members(air') \subseteq Members(air) \cup {m}
        BY <1>2, <3>2, SentOne
      <4> QED BY <3>3, <4>1
    <3>5. OneOf(air', {"start"})
      <4>1. m.op # "chunk" /\ m.op \notin {"start"}
        BY <1>6, <3>2 DEF Reply
      <4> QED BY <1>2, <3>2, <4>1, OneSent DEF Talk, ConvOK
    <3> QED BY <1>4, <2>1, <2>2, <3>4, <3>5, ConvSend
  <2>4. CASE ~Up
    <3>1. air' = air
      BY <1>6, <2>4 DEF Send
    <3>2. OneOf(air', {"start"})
      BY <3>1 DEF Talk, ConvOK
    <3> QED BY <1>4, <2>1, <2>2, <3>1, <3>2, ConvSend
  <2> QED BY <2>3, <2>4
<1>7. CASE /\ Active /\ n = "initialised" /\ state_' = "SENDING_FIRMWARE"
           /\ SendChunks(<<[op |-> "receive"]>>, 0, 0)
  <2>1. PICK prefix \in Seq(Message) :
           /\ SendChunks(prefix, 0, 0)
           /\ \A i \in DOMAIN prefix : prefix[i].op = "receive"
    <3>1. [op |-> "receive"] \in Message
      BY DEF Message
    <3>2. /\ <<[op |-> "receive"]>> \in Seq(Message)
          /\ \A i \in DOMAIN <<[op |-> "receive"]>> : <<[op |-> "receive"]>>[i].op = "receive"
      BY <3>1
    <3> QED BY <1>7, <3>2
  <2>2. n \in Verdicts /\ n \in Grants
    BY <1>7 DEF Verdicts, Progress, Grants
  <2>3. (Up => Matches) /\ state_ \in Transfer
    BY <1>4, <1>7, <2>2 DEF NoteOK, Progress, BridgeIn, Transfer
  <2>4. 0 \in Nat /\ 0 <= have.len
    BY DEF Talk, IInv, ClientType
  <2> QED BY <1>1, <1>7, <2>1, <2>2, <2>3, <2>4, ConvBurst
<1>8. CASE Active /\ n = "receipt" /\ SendChunks(<<>>, bytes_sent_, 0) /\ UNCHANGED state_
  <2>1. bytes_sent_ <= have.len /\ bytes_sent_ \in Nat
    BY <1>8 DEF Talk, IInv, ClientType, SentInv
  <2>2. n \in Verdicts /\ n \in Grants
    BY <1>8 DEF Verdicts, Progress, Grants
  <2>3. (Up => Matches) /\ state_ = "SENDING_FIRMWARE"
    BY <1>4, <1>8, <2>2 DEF NoteOK, Progress, BridgeIn
  <2>4. <<>> \in Seq(Message) /\ \A i \in DOMAIN <<>> : <<>>[i].op = "receive"
    OBVIOUS
  <2>5. state_' = "SENDING_FIRMWARE" /\ state_ \in Transfer
    BY <1>8, <2>3 DEF Transfer
  <2> QED BY <1>1, <1>8, <2>1, <2>2, <2>3, <2>4, <2>5, ConvBurst
<1>9. CASE /\ Active /\ n \in {"error", "other"}
           /\ state_' = (IF n = "error" THEN "FAILED" ELSE state_) /\ UNCHANGED air
  <2>1. CASE n = "error"
    <3>1. n \in Verdicts /\ state_' = "FAILED"
      BY <1>9, <2>1 DEF Verdicts
    <3>2. HaveOK'
      BY <3>1 DEF HaveOK, Transfer
    <3>3. OneOf(air', {"start"})
      BY <1>9 DEF Talk, ConvOK
    <3> QED BY <1>4, <1>9, <3>1, <3>2, <3>3, ConvSend
  <2>2. CASE n = "other"
    BY <1>1, <1>2, <1>3, <1>9, <2>2, ConvFrame
  <2> QED BY <1>9, <2>1, <2>2
<1> QED BY <1>5, <1>6, <1>7, <1>8, <1>9 DEF HandleNotification

\* The watch takes a message it waits for: it is the only request.
LEMMA TakenAlone ==
  ASSUME Talk, NEW op \in Requests \cup {"chunk"}, Takes(op)
  PROVE  /\ MsgOK(Head(air)) /\ Head(air) \in Message /\ Head(air).op = op
         /\ wstate = StateFor[op] /\ Up
         /\ Members(Tail(air)) \subseteq Members(air)
         /\ ~Noted(notes, Verdicts) /\ ~Has(Tail(air), Requests)
<1> DEFINE t == Tail(air)
           h == Head(air)
<1>1. /\ Up /\ air # <<>> /\ h.op = op /\ wstate = StateFor[op] /\ air \in Seq(Message)
  BY WindowTypes DEF Takes, Talk
<1>2. h \in Message /\ h = air[1] /\ 1 \in DOMAIN air /\ From(t, air)
  BY <1>1, TailFrom
<1>3. Members(t) \subseteq Members(air) /\ h \in Members(air)
  <2>1. Members(t) \subseteq Members(air)
    BY <1>2, FromMembers
  <2>2. h \in Members(air)
    BY <1>2 DEF Members
  <2> QED BY <2>1, <2>2
<1>4. MsgOK(h) /\ (Has(air, Requests) => ~Noted(notes, Verdicts))
  BY <1>3 DEF Talk, ConvOK
<1>5. op \in Ops \ {"activate"} /\ op \in Ops
  BY DEF Ops, Requests
<1>6. ~Noted(notes, Verdicts)
  <2>1. CASE op \in Requests
    <3>1. Has(air, Requests)
      BY <1>1, <1>2, <2>1 DEF Has
    <3> QED BY <1>4, <3>1
  <2>2. CASE op = "chunk"
    <3>1. ~Noted(notes, Progress)
      BY <1>5, QuietWhenTaken DEF Talk
    <3>2. wstate # "Idle"
      BY <1>1, <2>2 DEF StateFor
    <3>3. \A k \in Members(notes) : k # "error"
      BY <1>1, <3>2 DEF Talk, ConvOK, NoteOK
    <3>4. ~Noted(notes, {"error"})
      BY <3>3 DEF Noted, Members
    <3> QED BY <3>1, <3>4 DEF Noted, Verdicts
  <2> QED BY <2>1, <2>2
<1>7. ASSUME NEW m \in Members(t), m.op \in Requests PROVE FALSE
  <2>1. MsgOK(m)
    BY <1>3 DEF Talk, ConvOK
  <2>2. state_ = SentIn[m.op]
    BY <1>7, <2>1 DEF MsgOK
  <2>3. CASE op = "start"
    <3>1. m.op = "start"
      BY <1>1, <1>4, <2>2, <2>3, <1>7 DEF MsgOK, SentIn, Requests
    <3>2. ~Has(t, {"start"})
      BY <1>1, <2>3, OneTaken DEF Talk, ConvOK
    <3> QED BY <3>1, <3>2, HasMember
  <2>4. CASE op \in Batons
    <3>1. m.op \in Batons
      BY <1>1, <1>4, <2>2, <2>4, <1>7 DEF MsgOK, SentIn, Requests, Batons
    <3>2. ~Has(t, Batons)
      BY <1>5, <2>4, AirTaken DEF Talk
    <3> QED BY <3>1, <3>2, HasMember
  <2>5. CASE op = "chunk"
    <3>1. state_ = "SENDING_FIRMWARE"
      BY <1>1, <1>4, <2>5 DEF MsgOK, StateFor
    <3>2. m.op \in Batons
      BY <1>7, <2>2, <3>1 DEF SentIn, Requests, Batons
    <3>3. ~Has(t, Batons)
      BY <1>5, <2>5, AirTaken DEF Talk
    <3> QED BY <3>2, <3>3, HasMember
  <2> QED BY <2>3, <2>4, <2>5 DEF Requests, Batons
<1>8. ~Has(t, Requests)
  BY <1>7, HasMember
<1> QED BY <1>1, <1>2, <1>3, <1>4, <1>6, <1>8

\* Its step: the note that answers, and the chunks behind, must fit what it is now.
LEMMA ConvTake ==
  ASSUME Talk, IInv', NEW op \in Requests \cup {"chunk"}, Takes(op), air' = Tail(air),
         NEW k \in NoteKind, notes' = notes \/ (notes' = Append(notes, k) /\ NoteOK(k)'),
         \A m \in Members(air') : m.op = "chunk" /\ MsgOK(m) => MsgOK(m)',
         HaveOK'
  PROVE  ConvOK'
<1>1. /\ Members(air') \subseteq Members(air)
      /\ ~Noted(notes, Verdicts) /\ ~Has(air', Requests)
  BY TakenAlone
<1>2. \A m \in Members(air') : m.op \notin Requests
  BY <1>1, HasMember
<1>3. \A m \in Members(air') : MsgOK(m)'
  <2> SUFFICES ASSUME NEW m \in Members(air') PROVE MsgOK(m)'
    OBVIOUS
  <2>1. MsgOK(m) /\ m.op \notin Requests
    BY <1>1, <1>2 DEF Talk, ConvOK
  <2>2. CASE m.op = "chunk"
    BY <2>1, <2>2
  <2>3. CASE m.op # "chunk"
    BY <2>1, <2>3 DEF MsgOK, Requests
  <2> QED BY <2>2, <2>3
<1>4. OneOf(air', {"start"})
  BY <1>1 DEF OneOf, Has, Requests
<1>5. notes \in Seq(NoteKind) /\ \A x \in Members(notes) : x \notin Verdicts
  BY <1>1, HasMember, WindowTypes DEF Talk
<1>6. OneNote(notes, Verdicts)
  BY DEF Talk, ConvOK
<1>7. (\A x \in Members(notes') : NoteOK(x)') /\ OneNote(notes', Verdicts)
  <2>1. \A x \in Members(notes) : NoteOK(x)'
    BY <1>5 DEF NoteOK, Verdicts, Progress, Grants
  <2>2. CASE notes' = notes
    BY <1>6, <2>1, <2>2
  <2>3. CASE notes' = Append(notes, k) /\ NoteOK(k)'
    <3>1. /\ OneNote(Append(notes, k), Verdicts)
          /\ \A i \in DOMAIN Append(notes, k) :
                Append(notes, k)[i] = k \/ \E j \in DOMAIN notes : Append(notes, k)[i] = notes[j]
      BY <1>1, <1>5, <1>6, OneNoted
    <3>2. Members(Append(notes, k)) \subseteq Members(notes) \cup {k}
      BY <3>1 DEF Members
    <3> QED BY <2>1, <2>3, <3>1, <3>2
  <2> QED BY <2>2, <2>3
<1> QED BY <1>1, <1>3, <1>4, <1>7, ConvNext

LEMMA ConvReportsError ==
  ASSUME Talk, IInv', WatchReportsError PROVE ConvOK'
<1>1. PICK op \in {"start", "init", "chunk"} : Takes(op)
  BY DEF WatchReportsError
<1>2. /\ air' = Tail(air) /\ notes' = Append(notes, "error") /\ wstate' = "Idle"
      /\ state_' = state_ /\ have' = have /\ slot' = slot
  BY DEF WatchReportsError, Answer, clientVars
<1>3. op \in Requests \cup {"chunk"} /\ "error" \in NoteKind
  BY <1>1 DEF Requests, NoteKind
<1>4. MsgOK(Head(air)) /\ Head(air).op = op /\ wstate = StateFor[op]
  BY <1>1, <1>3, TakenAlone
<1>5. state_ \in Transfer
  BY <1>1, <1>4 DEF MsgOK, Requests, SentIn, StateFor, Transfer
<1>6. NoteOK("error")'
  BY <1>2, <1>5 DEF NoteOK, Progress, Grants
<1>7. \A m : m.op = "chunk" => MsgOK(m)'
  BY <1>2 DEF MsgOK, Requests
<1>8. HaveOK'
  BY <1>2 DEF Talk, ConvOK, HaveOK, Installed
<1> QED BY <1>1, <1>2, <1>3, <1>6, <1>7, <1>8, ConvTake

LEMMA ConvStarts == ASSUME Talk, IInv', WatchStarts PROVE ConvOK'
<1>1. /\ Takes("start") /\ wstate' = "Init" /\ air' = Tail(air)
      /\ wimage' = [NoTransfer EXCEPT !.len = Head(air).len]
      /\ notes' = Append(notes, "started")
      /\ state_' = state_ /\ have' = have /\ slot' = slot
  BY DEF WatchStarts, Answer, clientVars
<1>2. "start" \in Requests \cup {"chunk"} /\ "started" \in NoteKind /\ "start" \in Requests
      /\ "start" \in Ops
  BY DEF Requests, NoteKind, Ops
<1>3. MsgOK(Head(air)) /\ Head(air).op = "start"
  BY <1>1, <1>2, TakenAlone
<1>4. state_ = "STARTING" /\ Head(air).len = have.len
  BY <1>2, <1>3 DEF MsgOK, SentIn
<1>5. wimage'.len = have.len
  BY <1>1, <1>4 DEF NoTransfer
<1>6. NoteOK("started")'
  BY <1>1, <1>4, <1>5 DEF NoteOK, Progress, Grants, BridgeIn
<1>7. ~Has(air', {"chunk"})
  BY <1>1, <1>2, AirTaken DEF Talk
<1>8. \A m \in Members(air') : m.op # "chunk"
  BY <1>7, HasMember
<1>9. HaveOK'
  BY <1>1 DEF Talk, ConvOK, HaveOK, Installed
<1> QED BY <1>1, <1>2, <1>6, <1>8, <1>9, ConvTake

LEMMA ConvInits == ASSUME Talk, IInv', WatchInits PROVE ConvOK'
<1>1. /\ Takes("init") /\ wstate' = wstate /\ air' = Tail(air)
      /\ wimage' = [wimage EXCEPT !.dat = Head(air).dat]
      /\ notes' = Append(notes, "initialised")
      /\ state_' = state_ /\ have' = have /\ slot' = slot
  BY DEF WatchInits, Answer, clientVars
<1>2. "init" \in Requests \cup {"chunk"} /\ "initialised" \in NoteKind /\ "init" \in Requests
      /\ "init" \in Ops
  BY DEF Requests, NoteKind, Ops
<1>3. MsgOK(Head(air)) /\ Head(air).op = "init" /\ wstate = "Init"
  BY <1>1, <1>2, TakenAlone DEF StateFor
<1>4. state_ = "SENDING_INIT" /\ Head(air).dat = have.dat /\ wimage.len = have.len
  BY <1>2, <1>3 DEF MsgOK, SentIn
<1>5. wimage.got = 0
  BY <1>3 DEF Talk, WindowInv, AirOK
<1>6. wimage'.len = wimage.len /\ wimage'.got = wimage.got /\ wimage'.dat = Head(air).dat
  BY <1>1 DEF Talk, IInv, WatchType
<1>7. NoteOK("initialised")'
  BY <1>1, <1>4, <1>5, <1>6 DEF NoteOK, Progress, Grants, BridgeIn, Matches
<1>8. ~Has(air', {"chunk"})
  BY <1>1, <1>2, AirTaken DEF Talk
<1>9. \A m \in Members(air') : m.op # "chunk"
  BY <1>8, HasMember
<1>10. HaveOK'
  BY <1>1 DEF Talk, ConvOK, HaveOK, Installed
<1> QED BY <1>1, <1>2, <1>7, <1>9, <1>10, ConvTake

LEMMA ConvPrepares ==
  ASSUME Talk, IInv', NEW answers \in BOOLEAN, WatchPrepares(answers)
  PROVE  ConvOK'
<1>1. /\ Takes("receive") /\ wstate' = "Data" /\ air' = Tail(air) /\ wimage' = wimage
      /\ notes' = notes \/ notes' = Append(notes, "other")
      /\ state_' = state_ /\ have' = have /\ slot' = slot
  BY DEF WatchPrepares, Answer, clientVars
<1>2. "receive" \in Requests \cup {"chunk"} /\ "other" \in NoteKind
  BY DEF Requests, NoteKind
<1>3. wstate = "Init"
  BY <1>1 DEF Takes, StateFor
<1>4. NoteOK("other")'
  BY DEF NoteOK, Progress, Grants
<1>5. \A m : m.op = "chunk" /\ MsgOK(m) => MsgOK(m)'
  BY <1>1, <1>3 DEF MsgOK, Requests, Matches
<1>6. HaveOK'
  BY <1>1 DEF Talk, ConvOK, HaveOK, Installed
<1> QED BY <1>1, <1>2, <1>4, <1>5, <1>6, ConvTake

LEMMA ConvStores == ASSUME Talk, IInv', WatchStores PROVE ConvOK'
<1>1. /\ Takes("chunk") /\ air' = Tail(air)
      /\ state_' = state_ /\ have' = have /\ slot' = slot
      /\ wstate' \in {"Validate", "Data"}
  BY DEF WatchStores, clientVars
<1>2. PICK k \in {"received", "receipt"} : notes' = notes \/ notes' = Append(notes, k)
  BY DEF WatchStores
<1>3. "chunk" \in Requests \cup {"chunk"} /\ k \in NoteKind
  BY DEF NoteKind
<1>4. MsgOK(Head(air)) /\ Head(air).op = "chunk" /\ wstate = "Data"
  BY <1>1, <1>3, TakenAlone DEF StateFor
<1>5. state_ = "SENDING_FIRMWARE" /\ Head(air).ver = have.bin /\ Matches
  BY <1>4 DEF MsgOK
<1>6. /\ wimage'.len = wimage.len /\ wimage'.dat = wimage.dat
      /\ wimage'.ver \in {Head(air).ver, NoVersion}
  BY DEF WatchStores, Talk, IInv, WatchType
<1>7. Matches'
  BY <1>1, <1>5, <1>6 DEF Matches
<1>8. NoteOK(k)'
  BY <1>1, <1>5, <1>7 DEF NoteOK, Progress, Grants, BridgeIn
<1>9. \A m : m.op = "chunk" /\ MsgOK(m) => MsgOK(m)'
  BY <1>1, <1>4, <1>7 DEF MsgOK, Requests
<1>10. HaveOK'
  BY <1>1 DEF Talk, ConvOK, HaveOK, Installed
<1> QED BY <1>1, <1>2, <1>3, <1>8, <1>9, <1>10, ConvTake

LEMMA ConvValidates == ASSUME Talk, IInv', WatchValidates PROVE ConvOK'
<1>1. Takes("validate") /\ air' = Tail(air) /\ state_' = state_ /\ have' = have
  BY DEF WatchValidates, clientVars
<1>2. \/ /\ CrcMatches /\ wstate' = "Validated" /\ slot' = wimage.ver
         /\ notes' = Append(notes, "validated")
      \/ wstate' = "Idle" /\ notes' = Append(notes, "error")
  BY DEF WatchValidates, Answer
<1>3. "validate" \in Requests \cup {"chunk"} /\ "validate" \in Requests
      /\ "validated" \in NoteKind /\ "error" \in NoteKind
  BY DEF Requests, NoteKind
<1>4. MsgOK(Head(air)) /\ Head(air).op = "validate" /\ wstate = "Validate"
  BY <1>1, <1>3, TakenAlone DEF StateFor
<1>5. state_ = "VALIDATING" /\ Matches
  BY <1>3, <1>4 DEF MsgOK, SentIn
<1>6. HaveOK'
  BY <1>1, <1>5 DEF Talk, ConvOK, HaveOK, Transfer
<1>7. \A m : m.op = "chunk" => MsgOK(m)'
  BY <1>2 DEF MsgOK, Requests
<1>8. CASE /\ CrcMatches /\ wstate' = "Validated" /\ slot' = wimage.ver
           /\ notes' = Append(notes, "validated")
  <2>1. have.bin \in Versions /\ have.dat \in Versions
    BY <1>5 DEF Talk, ConvOK, HaveOK, Transfer
  <2>2. /\ wimage.got = have.len /\ wimage.dat = have.dat /\ wimage.ver = wimage.dat
        /\ wimage.got = BinChunks[wimage.dat]
    BY <1>4, <1>5, <1>8 DEF Talk, WholeInv, Matches, CrcMatches
  <2>3. wimage.got # 0 /\ wimage.ver # NoVersion
    BY <2>1, <2>2, DfuAssumption
  <2>4. wimage.ver = have.bin
    BY <1>5, <2>3 DEF Matches
  <2>5. Installed'
    BY <1>1, <1>8, <2>2, <2>4 DEF Installed
  <2>6. NoteOK("validated")'
    BY <1>1, <1>5, <2>5 DEF NoteOK, Progress, Grants, BridgeIn
  <2> QED BY <1>1, <1>3, <1>6, <1>7, <1>8, <2>6, ConvTake
<1>9. CASE wstate' = "Idle" /\ notes' = Append(notes, "error")
  <2>1. NoteOK("error")'
    BY <1>1, <1>5, <1>9 DEF NoteOK, Progress, Grants, Transfer
  <2> QED BY <1>1, <1>3, <1>6, <1>7, <1>9, <2>1, ConvTake
<1> QED BY <1>2, <1>8, <1>9

-----------------------------------------------------------------------------

LEMMA ConvInit == Init => ConvInv
<1> SUFFICES ASSUME Init PROVE ConvInv
  OBVIOUS
<1>1. air = <<>> /\ notes = <<>> /\ wstate = "Idle" /\ state_ = "IDLE"
  BY DEF Init
<1>2. /\ Members(air) = {} /\ Members(notes) = {} /\ OneOf(air, {"start"})
      /\ OneNote(notes, Verdicts) /\ ~Has(air, Requests)
  BY <1>1 DEF Members, OneOf, OneNote, Has
<1>3. WholeInv /\ HaveOK
  BY <1>1 DEF WholeInv, HaveOK, Transfer
<1> QED BY <1>2, <1>3 DEF ConvInv, ConvOK

LEMMA WholeStep == ASSUME IInv, WholeInv, [Next]_vars PROVE WholeInv'
<1> USE DEF serverVars, clientVars, linkVars, watchVars
<1>1. CASE WatchStores
  BY <1>1 DEF WatchStores, WholeInv, IInv, WatchType
<1>2. CASE WatchInits
  BY <1>2 DEF WatchInits, Takes, StateFor, WholeInv
<1>3. CASE /\ wstate' \in {wstate, "Idle", "Init", "Data", "Validated"}
           /\ wstate' = wstate => wimage' = wimage
  BY <1>3 DEF WholeInv
<1>4. CASE UNCHANGED <<wstate, wimage>>
  BY <1>4, <1>3
<1>5. CASE RequestDfu \/ (\E v \in Versions : UploadBin(v)) \/ UNCHANGED vars
  BY <1>4, <1>5 DEF RequestDfu, UploadBin, vars
<1>6. CASE \/ \E written \in BOOLEAN : UploadDat(written)
           \/ \E posted \in BOOLEAN : StartDfu(posted)
  BY <1>4, <1>6 DEF UploadDat, StartDfu
<1>7. CASE \/ \E answered \in BOOLEAN : DownloadBin(answered)
           \/ \E answered \in BOOLEAN : DownloadDat(answered)
  BY <1>4, <1>7 DEF DownloadBin, DownloadDat
<1>8. CASE Reconnect \/ Opened \/ \E found \in BOOLEAN : SearchCompletes(found)
  BY <1>4, <1>8 DEF Reconnect, Opened, SearchCompletes
<1>9. CASE HandleNotification \/ Process
  BY <1>4, <1>9 DEF HandleNotification, Process
<1>10. CASE (\E early \in BOOLEAN : TimesOut(early)) \/ DfuDone
  BY <1>4, <1>10 DEF TimesOut, DfuDone
<1>11. CASE WriteRefused \/ WatchIgnores
  BY <1>4, <1>11 DEF WriteRefused, WatchIgnores
<1>12. CASE LinkLost \/ WatchReportsError \/ WatchActivates
  BY <1>12 DEF LinkLost, WatchReportsError, WatchActivates, WholeInv
<1>13. CASE WatchStarts \/ \E answers \in BOOLEAN : WatchPrepares(answers)
  BY <1>13 DEF WatchStarts, WatchPrepares, WholeInv
<1>14. CASE WatchValidates
  BY <1>14 DEF WatchValidates, WholeInv
<1> QED BY <1>1, <1>2, <1>5, <1>6, <1>7, <1>8, <1>9, <1>10, <1>11, <1>12, <1>13, <1>14 DEF Next

LEMMA StaleStays == ASSUME IInv, [Next]_vars, stale PROVE stale'
<1> USE DEF serverVars, clientVars, linkVars, watchVars
<1>1. CASE \E early \in BOOLEAN : TimesOut(early)
  BY <1>1 DEF TimesOut
<1>2. CASE RequestDfu \/ (\E v \in Versions : UploadBin(v)) \/ UNCHANGED vars
  BY <1>2 DEF RequestDfu, UploadBin, vars
<1>3. CASE \/ \E written \in BOOLEAN : UploadDat(written)
           \/ \E posted \in BOOLEAN : StartDfu(posted)
  BY <1>3 DEF UploadDat, StartDfu
<1>4. CASE \/ \E answered \in BOOLEAN : DownloadBin(answered)
           \/ \E answered \in BOOLEAN : DownloadDat(answered)
  BY <1>4 DEF DownloadBin, DownloadDat
<1>5. CASE Reconnect \/ Opened \/ \E found \in BOOLEAN : SearchCompletes(found)
  BY <1>5 DEF Reconnect, Opened, SearchCompletes
<1>6. CASE HandleNotification \/ Process \/ DfuDone
  BY <1>6 DEF HandleNotification, Process, DfuDone
<1>7. CASE LinkLost \/ WriteRefused \/ WatchReportsError \/ WatchIgnores
  BY <1>7 DEF LinkLost, WriteRefused, WatchReportsError, WatchIgnores
<1>8. CASE WatchStarts \/ WatchInits \/ \E answers \in BOOLEAN : WatchPrepares(answers)
  BY <1>8 DEF WatchStarts, WatchInits, WatchPrepares
<1>9. CASE WatchStores \/ WatchValidates \/ WatchActivates
  BY <1>9 DEF WatchStores, WatchValidates, WatchActivates
<1> QED BY <1>1, <1>2, <1>3, <1>4, <1>5, <1>6, <1>7, <1>8, <1>9 DEF Next

LEMMA ConvStep == ASSUME IInv, WindowInv, ConvInv, [Next]_vars PROVE ConvInv'
<1> USE DEF serverVars, clientVars, linkVars, watchVars
<1>1. WholeInv'
  BY WholeStep DEF ConvInv
<1> SUFFICES ASSUME ~stale' PROVE ConvOK'
  BY <1>1 DEF ConvInv
<1>2. Talk /\ IInv'
  BY StaleStays, NextKeeps DEF ConvInv, Talk
<1>3. /\ Embeds(air, air) /\ Embeds(notes, notes) /\ HaveOK
      /\ air \in Seq(Message) /\ notes \in Seq(NoteKind)
  BY <1>2, AllEmbed, WindowTypes DEF Talk, ConvOK
<1>4. ASSUME UNCHANGED <<air, notes, link, state_, have, wstate, wimage, slot>>
      PROVE  ConvOK'
  BY <1>2, <1>3, <1>4, ConvFrame DEF Up
<1>5. CASE RequestDfu \/ (\E v \in Versions : UploadBin(v)) \/ UNCHANGED vars
  BY <1>4, <1>5 DEF RequestDfu, UploadBin, vars
<1>6. CASE \E written \in BOOLEAN : UploadDat(written)
  BY <1>4, <1>6 DEF UploadDat
<1>7. CASE \E posted \in BOOLEAN : StartDfu(posted)
  <2>1. /\ state_ \notin Transfer /\ state_' = "DOWNLOADING"
        /\ UNCHANGED <<air, notes, wstate>>
    BY <1>7 DEF StartDfu, Transfer
  <2>2. HaveOK'
    BY <2>1 DEF HaveOK, Transfer
  <2> QED BY <1>2, <2>1, <2>2, ConvQuiet
<1>8. CASE \E answered \in BOOLEAN : DownloadBin(answered)
  <2>1. /\ state_ \notin Transfer /\ state_' \in {"DOWNLOADING", "FAILED"}
        /\ UNCHANGED <<air, notes, wstate>>
    BY <1>8 DEF DownloadBin, Transfer
  <2>2. HaveOK'
    BY <2>1 DEF HaveOK, Transfer
  <2> QED BY <1>2, <2>1, <2>2, ConvQuiet
<1>9. CASE \E answered \in BOOLEAN : DownloadDat(answered)
  <2>1. /\ state_ \notin Transfer /\ UNCHANGED <<air, notes, wstate>>
        /\ \/ state_' = "FAILED"
           \/ /\ state_' = "CONNECTING" /\ have.bin # NoVersion
              /\ have' = [have EXCEPT !.dat = files.dat]
    BY <1>9 DEF DownloadDat, Transfer
  <2>2. HaveOK'
    BY <1>2, <2>1 DEF HaveOK, Transfer, Talk, IInv, ClientType, ServerType, Maybe
  <2> QED BY <1>2, <2>1, <2>2, ConvQuiet
<1>10. CASE Reconnect
  <2>1. (Up' => Up) /\ UNCHANGED <<air, notes, state_, have, wstate, wimage, slot>>
    BY <1>10 DEF Reconnect, Up
  <2> QED BY <1>2, <1>3, <2>1, ConvFrame
<1>11. CASE Opened
  <2>1. /\ notes' = <<>> /\ ~Up /\ UNCHANGED <<air, state_, have, wstate, wimage, slot>>
    BY <1>11 DEF Opened, Up
  <2>2. air = <<>> /\ air' = <<>>
    BY <2>1 DEF IInv, ActivateInv
  <2>3. /\ Members(air') = {} /\ ~Noted(notes', Verdicts) /\ ~Has(air, Requests)
        /\ Members(air) = {} /\ OneOf(air', {"start"})
    BY <2>1, <2>2 DEF Members, Noted, Has, OneOf
  <2>4. HaveOK'
    BY <1>3, <2>1 DEF HaveOK, Installed
  <2> QED BY <1>2, <2>3, <2>4, ConvSend
<1>12. CASE \E found \in BOOLEAN : SearchCompletes(found)
  BY <1>2, <1>12, ConvSearch
<1>13. CASE HandleNotification
  BY <1>2, <1>13, ConvHandle
<1>14. CASE Process
  <2>1. air' = air /\ UNCHANGED <<notes, link, state_, have, wstate, wimage, slot>>
    BY <1>14, ProcessSendsNothing DEF Process
  <2> QED BY <1>4, <2>1
<1>15. CASE \E early \in BOOLEAN : TimesOut(early)
  <2>1. /\ air = <<>> /\ notes = <<>> /\ state_' = "IDLE" /\ UNCHANGED <<air, notes>>
    BY <1>15 DEF TimesOut, Stalled
  <2>2. /\ Members(air') = {} /\ ~Noted(notes', Verdicts) /\ ~Has(air, Requests)
        /\ Members(air) = {} /\ OneOf(air', {"start"})
    BY <2>1 DEF Members, Noted, Has, OneOf
  <2>3. HaveOK'
    BY <2>1 DEF HaveOK, Transfer
  <2> QED BY <1>2, <2>2, <2>3, ConvSend
<1>16. CASE DfuDone
  <2>1. /\ state_ \notin Transfer /\ state_' = "IDLE" /\ UNCHANGED <<air, notes, wstate>>
    BY <1>16 DEF DfuDone, Transfer
  <2>2. HaveOK'
    BY <2>1 DEF HaveOK, Transfer
  <2> QED BY <1>2, <2>1, <2>2, ConvQuiet
<1>17. CASE LinkLost
  <2>1. /\ air' = <<>> /\ link' = "down" /\ UNCHANGED <<state_, have, slot>>
    BY <1>17 DEF LinkLost
  <2>2. PICK n \in 0..Len(notes) : notes' = SubSeq(notes, 1, n)
    BY <1>17 DEF LinkLost
  <2>3. Embeds(notes', notes)
    BY <1>3, <2>2, PrefixEmbeds
  <2> QED BY <1>2, <2>1, <2>3, ConvDown DEF Up
<1>18. CASE WriteRefused
  <2>1. UNCHANGED <<notes, link, state_, have, wstate, wimage, slot>>
    BY <1>18 DEF WriteRefused
  <2>2. PICK i \in DOMAIN air : air' = SubSeq(air, 1, i - 1) \o SubSeq(air, i + 1, Len(air))
    BY <1>18 DEF WriteRefused
  <2>3. Embeds(air', air)
    BY <1>3, <2>2, RemoveEmbeds
  <2> QED BY <1>2, <1>3, <2>1, <2>3, ConvFrame DEF Up
<1>19. CASE WatchIgnores
  <2>1. /\ air # <<>> /\ air' = Tail(air)
        /\ UNCHANGED <<notes, link, state_, have, wstate, wimage, slot>>
    BY <1>19 DEF WatchIgnores
  <2>2. Embeds(air', air)
    BY <1>3, <2>1, TailEmbeds
  <2> QED BY <1>2, <1>3, <2>1, <2>2, ConvFrame DEF Up
<1>20. CASE WatchReportsError \/ WatchStarts \/ WatchInits
  BY <1>2, <1>20, ConvReportsError, ConvStarts, ConvInits
<1>21. CASE \E answers \in BOOLEAN : WatchPrepares(answers)
  BY <1>2, <1>21, ConvPrepares
<1>22. CASE WatchStores \/ WatchValidates
  BY <1>2, <1>22, ConvStores, ConvValidates
<1>23. CASE WatchActivates
  <2>1. /\ air' = <<>> /\ link' = "down" /\ UNCHANGED <<notes, state_, have, slot>>
    BY <1>23 DEF WatchActivates
  <2> QED BY <1>2, <1>3, <2>1, ConvDown DEF Up
<1> QED
  BY <1>5, <1>6, <1>7, <1>8, <1>9, <1>10, <1>11, <1>12, <1>13, <1>14, <1>15, <1>16, <1>17,
     <1>18, <1>19, <1>20, <1>21, <1>22, <1>23 DEF Next

LEMMA ConversationHolds == Spec => []ConvInv
<1>1. IInv /\ WindowInv /\ ConvInv /\ [Next]_vars => ConvInv'
  BY ConvStep
<1> QED BY <1>1, ConvInit, InvariantHolds, WindowHolds, PTL DEF Spec

\* The transfer that loop() reports as complete (pinetime_bridge.cpp:150) ended with the
\* watch validating the image that was downloaded, whole and matching its .dat: no note
\* left over from another link or another update, no lost write and no chunk of another
\* version can make the client believe so, unless an update timed out with messages
\* under way.
THEOREM CompleteAlwaysInstalled == Spec => []CompleteMeansInstalled
<1>1. ConvInv => CompleteMeansInstalled
  BY DEF ConvInv, ConvOK, HaveOK, Installed, CompleteMeansInstalled
<1> QED BY <1>1, ConversationHolds, PTL
=============================================================================
