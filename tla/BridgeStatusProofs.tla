-------------------------- MODULE BridgeStatusProofs --------------------------
(* Proofs about BridgeStatus: the timers under a clock that wraps around, and what
   the server may conclude from the time of the last heartbeat. *)
EXTENDS BridgeStatus, TLAPS

-----------------------------------------------------------------------------
(* The clock.                                                               *)

Ticks == 0..(Word - 1)

LEMMA Residue ==
  ASSUME NEW w \in Nat \ {0}, NEW x \in Int, -w <= x, x < 2 * w
  PROVE  x % w = IF x < 0 THEN x + w ELSE IF x < w THEN x ELSE x - w
<1>1. CASE x \in (-w)..(-1)
  BY <1>1
<1>2. CASE x \in 0..(w - 1)
  BY <1>2
<1>3. CASE x \in w..(2 * w - 1)
  BY <1>3
<1> QED BY <1>1, <1>2, <1>3

LEMMA Bounds ==
  /\ Word \in Nat \ {0} /\ Interval \in Nat \ {0} /\ MaxBlock \in Nat \ {0}
  /\ BackDated \in Nat /\ BackDated < Word /\ OfflineAfter \in Nat
  /\ Interval + MaxBlock < Word /\ Interval - FirstPoll \in Ticks /\ 0 \in Ticks
BY StatusAssumption DEF Ticks

LEMMA WordBounds == Word \in Nat \ {0} /\ Ticks = 0..(Word - 1)
BY Bounds DEF Ticks

LEMMA Difference ==
  ASSUME NEW c \in Ticks, NEW s \in Ticks
  PROVE  (c - s) % Word = IF c < s THEN c - s + Word ELSE c - s
<1>1. c - s \in Int /\ -Word <= c - s /\ c - s < 2 * Word /\ c - s < Word
      /\ (c < s <=> c - s < 0)
  BY WordBounds
<1> QED BY ONLY <1>1, WordBounds, Residue

LEMMA Advance ==
  ASSUME NEW c \in Ticks, NEW d \in Nat, d < Word
  PROVE  (c + d) % Word = IF c + d < Word THEN c + d ELSE c + d - Word
<1>1. c \in Int /\ d \in Int /\ c + d \in Int
  BY WordBounds
<1>2. -Word <= c + d /\ c + d < 2 * Word /\ ~(c + d < 0)
  BY WordBounds
<1>3. (c + d) % Word = IF c + d < 0 THEN c + d + Word
                       ELSE IF c + d < Word THEN c + d ELSE c + d - Word
  <2> DEFINE x == c + d
  <2>1. x \in Int /\ -Word <= x /\ x < 2 * Word
    BY <1>1, <1>2
  <2> HIDE DEF x
  <2>2. x % Word = IF x < 0 THEN x + Word ELSE IF x < Word THEN x ELSE x - Word
    BY ONLY <2>1, WordBounds, Residue
  <2> QED BY <1>1, WordBounds, <2>2 DEF x
<1> QED BY <1>2, <1>3

\* As long as it does not reach a whole turn, a difference grows with the clock.
LEMMA DifferenceGrows ==
  ASSUME NEW c \in Ticks, NEW s \in Ticks, NEW d \in Nat, ((c - s) % Word) + d < Word
  PROVE  /\ (c - s) % Word \in Nat /\ (c + d) % Word \in Ticks
         /\ (((c + d) % Word) - s) % Word = ((c - s) % Word) + d
<1>1. (c - s) % Word = IF c < s THEN c - s + Word ELSE c - s
  BY Difference
<1>2. d < Word
  BY <1>1, WordBounds
<1>3. (c + d) % Word = IF c + d < Word THEN c + d ELSE c + d - Word
  BY <1>2, Advance
<1>4. (c + d) % Word \in Ticks
  BY <1>2, <1>3, WordBounds
<1>5. (((c + d) % Word) - s) % Word =
         IF (c + d) % Word < s THEN ((c + d) % Word) - s + Word ELSE ((c + d) % Word) - s
  BY <1>4, Difference
<1> DEFINE t == (c + d) % Word
           r == (c - s) % Word
<1>6. /\ r = IF c < s THEN c - s + Word ELSE c - s
      /\ t = IF c + d < Word THEN c + d ELSE c + d - Word
      /\ (t - s) % Word = IF t < s THEN t - s + Word ELSE t - s
      /\ t \in Ticks /\ r + d < Word
  BY <1>1, <1>3, <1>4, <1>5
<1> HIDE DEF t, r
<1>7. r \in Nat /\ (IF t < s THEN t - s + Word ELSE t - s) = r + d
  BY <1>6, WordBounds
<1>8. r \in Nat /\ t \in Ticks /\ (t - s) % Word = r + d
  BY <1>6, <1>7
<1> QED BY <1>8 DEF t, r

LEMMA ElapsedType == ASSUME NEW c \in Ticks, NEW s \in Ticks PROVE (c - s) % Word \in Nat
BY WordBounds, Difference

LEMMA NoDifference == ASSUME NEW c \in Ticks PROVE (c - c) % Word = 0
BY WordBounds, Difference

LEMMA SetupType ==
  ASSUME NEW b \in Ticks
  PROVE  SetupAt(b) \in Ticks /\ (0 - SetupAt(b)) % Word = b
<1>1. SetupAt(b) = IF 0 < b THEN 0 - b + Word ELSE 0 - b
  BY Bounds, Difference DEF SetupAt
<1>2. SetupAt(b) \in Ticks
  BY <1>1, WordBounds
<1>3. (0 - SetupAt(b)) % Word = IF 0 < SetupAt(b) THEN 0 - SetupAt(b) + Word ELSE 0 - SetupAt(b)
  BY <1>2, Bounds, Difference
<1> QED BY <1>1, <1>2, <1>3, WordBounds

-----------------------------------------------------------------------------
(* The invariant.                                                           *)

Timers == {"poll", "heartbeat", "list"}

TimeType ==
    /\ clock \in Ticks /\ last \in [Timers -> Ticks]
    /\ sincePoll \in Nat /\ forced \in Nat \cup {Never} /\ heard \in Nat \cup {Never}
    /\ dfu \in BOOLEAN /\ gap \in BOOLEAN

\* Either the timer has run since the last poll, or it was set to zero by a link at a
\* time at which it had run for less than an interval and an iteration.
PollInv ==
    \/ sincePoll <= Elapsed(last.poll) /\ sincePoll < Interval + MaxBlock
    \/ /\ last.poll = 0
       /\ sincePoll < clock + Interval + MaxBlock /\ sincePoll < LongGap

\* A poll that was to be forced is overdue only right after a boot or a wrap-around.
ForcedInv == forced # Never => last.poll = 0 /\ (forced = 0 \/ clock < Interval + MaxBlock)

\* The server hears from the bridge before the timer of the heartbeat has run for an
\* interval and an iteration, or the next heartbeat is due at once.
HeardInv ==
    ~gap =>
        /\ heard # Never /\ heard < Interval + MaxBlock
        /\ Elapsed(last.heartbeat) >= Interval \/ heard <= Elapsed(last.heartbeat)

IInv == TimeType /\ PollInv /\ ForcedInv

LEMMA BootTimes == LastAtBoot \in [Timers -> Ticks] /\ (0 - LastAtBoot.heartbeat) % Word = BackDated
<1>1. BackDated \in Ticks
  BY Bounds DEF Ticks
<1>2. /\ SetupAt(Interval - FirstPoll) \in Ticks /\ SetupAt(BackDated) \in Ticks
      /\ (0 - SetupAt(BackDated)) % Word = BackDated
  BY <1>1, Bounds, SetupType
<1> QED BY <1>2, Bounds DEF LastAtBoot, Timers

LEMMA InitIInv == Init => IInv
<1> SUFFICES ASSUME Init PROVE IInv
  OBVIOUS
<1>1. TimeType
  BY Bounds, BootTimes DEF Init, TimeType, Never
<1>2. Elapsed(last.poll) \in Nat
  BY <1>1, ElapsedType DEF Elapsed, TimeType, Timers
<1>3. PollInv
  BY <1>2, Bounds DEF Init, PollInv
<1>4. ForcedInv
  BY DEF Init, ForcedInv
<1> QED BY <1>1, <1>3, <1>4 DEF IInv

-----------------------------------------------------------------------------
(* The steps.                                                               *)

\* What one iteration does to a timer.
LEMMA TimerRuns ==
  ASSUME TimeType, NEW d \in 1..MaxBlock, NEW t \in Timers,
         last' = [u \in DOMAIN last |-> Restarted(last[u])], clock' = (clock + d) % Word
  PROVE  /\ clock' \in Ticks /\ last'[t] \in Ticks /\ Elapsed(last[t]) \in Nat
         /\ Due(last[t]) => (clock' - last'[t]) % Word = d
         /\ ~Due(last[t]) => last'[t] = last[t]
         /\ Elapsed(last[t]) < Interval /\ ~Due(last[t]) =>
               (clock' - last'[t]) % Word = Elapsed(last[t]) + d
<1>1. clock \in Ticks /\ last[t] \in Ticks /\ t \in DOMAIN last
  BY DEF TimeType
<1>2. last'[t] = IF Due(last[t]) THEN clock ELSE last[t]
  BY <1>1 DEF Restarted
<1>3. d \in Nat /\ d < Word
  BY Bounds
<1>4. Elapsed(last[t]) \in Nat
  BY <1>1, ElapsedType DEF Elapsed
<1>5. /\ ((clock - clock) % Word) + d < Word /\ (clock - clock) % Word = 0
  BY <1>1, <1>3, NoDifference
<1>6. clock' \in Ticks /\ (clock' - clock) % Word = d
  <2>1. (clock + d) % Word \in Ticks
        /\ (((clock + d) % Word) - clock) % Word = ((clock - clock) % Word) + d
    BY <1>1, <1>3, <1>5, DifferenceGrows
  <2> QED BY <1>3, <1>5, <2>1
<1>7. Elapsed(last[t]) < Interval => (clock' - last[t]) % Word = Elapsed(last[t]) + d
  <2>1. SUFFICES ASSUME Elapsed(last[t]) < Interval
                 PROVE  (clock' - last[t]) % Word = Elapsed(last[t]) + d
    OBVIOUS
  <2>2. ((clock - last[t]) % Word) + d < Word
    BY <1>4, <2>1, Bounds DEF Elapsed
  <2> QED BY <1>1, <1>3, <2>2, DifferenceGrows DEF Elapsed
<1> QED BY <1>1, <1>2, <1>4, <1>6, <1>7

LEMMA LaterBound ==
  ASSUME NEW age \in Nat \cup {Never}, NEW d \in Nat, NEW limit \in Nat
  PROVE  /\ Later(age, d, limit) \in Nat \cup {Never}
         /\ age # Never => /\ Later(age, d, limit) \in Nat /\ Later(age, d, limit) <= age + d
         /\ age = Never <=> Later(age, d, limit) = Never
BY DEF Later, Never

LEMMA LoopType ==
  ASSUME IInv, NEW d \in 1..MaxBlock, NEW h \in BOOLEAN, NEW l \in BOOLEAN, Loop(d, h, l)
  PROVE  TimeType'
<1>1. clock' \in Ticks /\ \A t \in Timers : last'[t] \in Ticks
  BY TimerRuns DEF IInv, Loop, Timers
<1>2. last' \in [Timers -> Ticks]
  BY <1>1 DEF IInv, TimeType, Loop
<1>3. d \in Nat /\ LongGap \in Nat /\ OfflineAfter + 1 \in Nat
  BY Bounds DEF LongGap
<1>4. sincePoll' \in Nat /\ forced' \in Nat \cup {Never}
  <2>1. sincePoll \in Nat \cup {Never} /\ sincePoll # Never /\ forced \in Nat \cup {Never}
    BY DEF IInv, TimeType, Never
  <2>2. Later(sincePoll, d, LongGap) \in Nat /\ Later(forced, d, LongGap) \in Nat \cup {Never}
    BY <1>3, <2>1, LaterBound
  <2> QED BY <1>3, <2>2 DEF Loop, Poll
<1>5. heard' \in Nat \cup {Never} /\ gap' \in BOOLEAN
  <2>1. Later(heard, d, OfflineAfter + 1) \in Nat \cup {Never}
    BY <1>3, LaterBound DEF IInv, TimeType
  <2>2. \/ heard' = d /\ gap' = FALSE
        \/ /\ heard' = Later(heard, d, OfflineAfter + 1)
           /\ gap' = (gap \/ dfu \/ Due(last.heartbeat))
    BY DEF Loop, Heartbeat
  <2>3. gap' \in BOOLEAN
    BY <2>2
  <2> QED BY <1>3, <2>1, <2>2, <2>3
<1>6. dfu' \in BOOLEAN
  BY DEF IInv, TimeType, Loop
<1> QED BY <1>1, <1>2, <1>4, <1>5, <1>6 DEF TimeType

LEMMA LoopPoll ==
  ASSUME IInv, NEW d \in 1..MaxBlock, NEW h \in BOOLEAN, NEW l \in BOOLEAN, Loop(d, h, l)
  PROVE  PollInv'
<1> DEFINE e == Elapsed(last.poll)
           e1 == (clock' - last'.poll) % Word
<1>1. /\ clock' \in Ticks /\ last'.poll \in Ticks /\ e \in Nat
      /\ Due(last.poll) => e1 = d
      /\ ~Due(last.poll) => last'.poll = last.poll
      /\ e < Interval /\ ~Due(last.poll) => e1 = e + d
  BY TimerRuns DEF IInv, Loop, Timers
<1>2. e1 \in Nat /\ d \in Nat /\ d <= MaxBlock /\ clock \in Ticks
  BY <1>1, ElapsedType, Bounds DEF IInv, TimeType
<1>3. sincePoll' = IF dfu THEN 0 ELSE IF Due(last.poll) THEN d ELSE Later(sincePoll, d, LongGap)
  BY DEF Loop, Poll
<1>4. SUFFICES \/ sincePoll' <= e1 /\ sincePoll' < Interval + MaxBlock
               \/ /\ last'.poll = 0
                  /\ sincePoll' < clock' + Interval + MaxBlock /\ sincePoll' < LongGap
  BY DEF PollInv, Elapsed
<1>5. CASE dfu
  BY <1>2, <1>3, <1>5, Bounds
<1>6. CASE ~dfu /\ Due(last.poll)
  BY <1>1, <1>2, <1>3, <1>6, Bounds
<1>7. CASE ~dfu /\ ~Due(last.poll)
  <2>1. e < Interval /\ e1 = e + d /\ last'.poll = last.poll
    BY <1>1, <1>7, Bounds DEF Due
  <2>2. sincePoll \in Nat /\ sincePoll' \in Nat /\ sincePoll' <= sincePoll + d
    <3>1. sincePoll \in Nat /\ sincePoll # Never /\ LongGap \in Nat
      BY Bounds DEF IInv, TimeType, Never, LongGap
    <3> QED BY <1>2, <1>3, <1>7, <3>1, LaterBound
  <2>3. CASE sincePoll <= e /\ sincePoll < Interval + MaxBlock
    BY <1>1, <1>2, <2>1, <2>2, <2>3, Bounds
  <2>4. CASE last.poll = 0 /\ sincePoll < clock + Interval + MaxBlock
    <3>1. e = clock
      BY <2>4, <1>2, Bounds, WordBounds, Difference DEF Elapsed
    <3>2. clock + d < Word /\ d < Word
      BY <1>1, <1>2, <2>1, <3>1, Bounds
    <3>3. clock' = clock + d
      BY <1>2, <3>2, Advance DEF Loop
    <3>4. clock \in Nat /\ clock < Interval
      BY <1>2, <2>1, <3>1, WordBounds
    <3> QED BY <1>2, <2>1, <2>2, <2>4, <3>3, <3>4, Bounds DEF LongGap
  <2> QED BY <2>3, <2>4 DEF IInv, PollInv
<1> QED BY <1>5, <1>6, <1>7 DEF IInv, TimeType

LEMMA LoopForced ==
  ASSUME IInv, NEW d \in 1..MaxBlock, NEW h \in BOOLEAN, NEW l \in BOOLEAN, Loop(d, h, l)
  PROVE  ForcedInv'
<1>1. forced' = IF Due(last.poll) \/ dfu THEN Never ELSE Later(forced, d, LongGap)
  BY DEF Loop, Poll
<1>2. SUFFICES ASSUME forced' # Never
               PROVE  last'.poll = 0 /\ clock' < Interval + MaxBlock
  BY DEF ForcedInv
<1>3. ~Due(last.poll) /\ ~dfu /\ forced # Never
  <2>1. forced \in Nat \cup {Never} /\ d \in Nat /\ LongGap \in Nat
    BY Bounds DEF IInv, TimeType, LongGap
  <2> QED BY <1>1, <1>2, <2>1, LaterBound
<1>4. last.poll = 0 /\ last'.poll = last.poll /\ Elapsed(last.poll) < Interval
  BY <1>3, TimerRuns, Bounds DEF IInv, ForcedInv, Loop, Timers, Due
<1>5. clock \in Nat /\ clock < Interval
  <2>1. clock \in Ticks /\ 0 \in Ticks
    BY Bounds DEF IInv, TimeType
  <2>2. (clock - 0) % Word = clock
    BY <2>1, WordBounds, Difference
  <2> QED BY <1>4, <2>1, <2>2, WordBounds DEF Elapsed
<1>6. clock \in Ticks /\ d \in Nat /\ d <= MaxBlock /\ clock + d < Word /\ d < Word
  BY <1>5, Bounds DEF IInv, TimeType
<1>7. clock' = clock + d
  BY <1>6, Advance DEF Loop
<1> QED BY <1>4, <1>5, <1>6, <1>7, Bounds

\* A link sets the timer to zero, whatever it was.
LEMMA DiscoverStep == ASSUME IInv, NEW found \in BOOLEAN, DiscoverServices(found) PROVE IInv'
<1>1. UNCHANGED <<clock, sincePoll, dfu, heard, gap>>
  BY DEF DiscoverServices, serverVars
<1>2. CASE ~found
  <2>1. UNCHANGED <<last, forced>>
    BY <1>2 DEF DiscoverServices
  <2> QED BY <1>1, <2>1 DEF IInv, TimeType, PollInv, ForcedInv, Elapsed
<1>3. CASE found
  <2>1. last' = [last EXCEPT !.poll = 0] /\ forced' = 0
    BY <1>3 DEF DiscoverServices, ForcePoll
  <2>2. last' \in [Timers -> Ticks] /\ last'.poll = 0
    BY <2>1, Bounds DEF IInv, TimeType, Timers
  <2>3. TimeType'
    BY <1>1, <2>1, <2>2 DEF IInv, TimeType
  <2>4. clock \in Nat /\ sincePoll \in Nat
    BY WordBounds DEF IInv, TimeType
  <2>5. sincePoll < clock + Interval + MaxBlock /\ sincePoll < LongGap
    BY <2>4, Bounds DEF IInv, PollInv, LongGap
  <2> QED BY <1>1, <2>1, <2>2, <2>3, <2>5 DEF IInv, PollInv, ForcedInv
<1> QED BY <1>2, <1>3

LEMMA RebootStep == ASSUME IInv, BridgeReboots PROVE IInv'
<1>1. /\ clock' = 0 /\ last' = LastAtBoot /\ dfu' = FALSE /\ sincePoll' = 0
      /\ forced' = Never /\ UNCHANGED heard /\ UNCHANGED gap
  BY DEF BridgeReboots, serverVars
<1>2. TimeType'
  BY <1>1, Bounds, BootTimes DEF IInv, TimeType
<1>3. (clock' - last'.poll) % Word \in Nat
  BY <1>2, ElapsedType DEF TimeType, Timers
<1>4. PollInv'
  BY <1>1, <1>3, Bounds DEF PollInv, Elapsed
<1> QED BY <1>1, <1>2, <1>4 DEF IInv, ForcedInv

\* The other steps leave the timers alone.
TimersRest == UNCHANGED <<clock, last, sincePoll, forced>>

LEMMA RestStep ==
  ASSUME IInv, TimersRest, heard' \in Nat \cup {Never}, gap' \in BOOLEAN, dfu' \in BOOLEAN
  PROVE  IInv'
BY DEF IInv, TimeType, PollInv, ForcedInv, Elapsed, TimersRest

LEMMA NextKeeps == ASSUME IInv, [Next]_vars PROVE IInv'
<1> USE DEF bridgeVars, serverVars, historyVars, TimersRest
<1>0. heard \in Nat \cup {Never} /\ gap \in BOOLEAN /\ dfu \in BOOLEAN
  BY DEF IInv, TimeType
<1>1. ASSUME NEW d \in 1..MaxBlock, NEW h \in BOOLEAN, NEW l \in BOOLEAN, Loop(d, h, l)
      PROVE  IInv'
  BY <1>1, LoopType, LoopPoll, LoopForced DEF IInv
<1>2. CASE OpenEvt
  BY <1>0, <1>2, RestStep DEF OpenEvt
<1>3. ASSUME NEW found \in BOOLEAN, DiscoverServices(found) PROVE IInv'
  BY <1>3, DiscoverStep
<1>4. CASE DisconnectEvt
  BY <1>0, <1>4, RestStep DEF DisconnectEvt
<1>5. ASSUME NEW ok \in BOOLEAN, ReadCharEvt(ok) \/ DfuEnds(ok) PROVE IInv'
  BY <1>0, <1>5, RestStep DEF ReadCharEvt, DfuEnds
<1>6. ASSUME NEW w \in Watches, OnBleAdvertise(w) PROVE IInv'
  BY <1>0, <1>6, RestStep DEF OnBleAdvertise
<1>7. CASE DfuStarts
  BY <1>0, <1>7, RestStep DEF DfuStarts
<1>8. CASE BridgeReboots
  BY <1>8, RebootStep
<1>9. CASE ServerRestarts
  BY <1>0, <1>9, RestStep DEF ServerRestarts
<1>10. CASE UNCHANGED vars
  BY <1>0, <1>10, RestStep DEF vars
<1> QED BY <1>1, <1>2, <1>3, <1>4, <1>5, <1>6, <1>7, <1>8, <1>9, <1>10 DEF Next

LEMMA InvariantHolds == Spec => []IInv
<1>1. IInv /\ [Next]_vars => IInv'
  BY NextKeeps
<1> QED BY <1>1, InitIInv, PTL DEF Spec

-----------------------------------------------------------------------------
(* The heartbeat.                                                           *)

\* The server's threshold leaves room for an interval and an iteration, and a heartbeat is
\* due at the boot: in the code 60 s, 90 s and 280 s, with iterations of at most 30 s.
HeartbeatsInTime == BackDated >= Interval /\ Interval + MaxBlock <= OfflineAfter + 1

LEMMA LoopHeard ==
  ASSUME IInv, HeardInv, NEW d \in 1..MaxBlock, NEW h \in BOOLEAN, NEW l \in BOOLEAN,
         Loop(d, h, l)
  PROVE  HeardInv'
<1> DEFINE e == Elapsed(last.heartbeat)
           e1 == (clock' - last'.heartbeat) % Word
<1>1. /\ clock' \in Ticks /\ last'.heartbeat \in Ticks /\ e \in Nat
      /\ Due(last.heartbeat) => e1 = d
      /\ e < Interval /\ ~Due(last.heartbeat) => e1 = e + d
  BY TimerRuns DEF IInv, Loop, Timers
<1>2. SUFFICES ASSUME ~gap'
               PROVE  /\ heard' # Never /\ heard' < Interval + MaxBlock
                      /\ e1 >= Interval \/ heard' <= e1
  BY DEF HeardInv, Elapsed
<1>3. CASE Due(last.heartbeat) /\ ~h
  BY <1>1, <1>3, Bounds DEF Loop, Heartbeat, Never
<1>4. CASE ~(Due(last.heartbeat) /\ ~h)
  <2>1. heard' = Later(heard, d, OfflineAfter + 1) /\ ~gap /\ ~dfu /\ ~Due(last.heartbeat)
    BY <1>2, <1>4 DEF Loop, Heartbeat
  <2>2. e < Interval /\ e1 = e + d
    BY <1>1, <2>1, Bounds DEF Due
  <2>3. heard \in Nat /\ heard # Never /\ heard' <= heard + d /\ heard' \in Nat
    <3>1. heard \in Nat \cup {Never} /\ d \in Nat /\ OfflineAfter + 1 \in Nat
      BY Bounds DEF IInv, TimeType
    <3>2. heard # Never
      BY <2>1 DEF HeardInv
    <3> QED BY <2>1, <3>1, <3>2, LaterBound
  <2>4. heard <= e
    BY <1>1, <2>1, <2>2, <2>3, Bounds DEF HeardInv
  <2> QED BY <1>1, <2>2, <2>3, <2>4, Bounds DEF HeardInv, Never
<1> QED BY <1>3, <1>4

\* A boot leaves the server's memory alone, but a heartbeat is due at once.
LEMMA RebootHeard ==
  ASSUME IInv, HeardInv, HeartbeatsInTime, BridgeReboots PROVE HeardInv'
<1>1. clock' = 0 /\ last' = LastAtBoot /\ UNCHANGED heard /\ UNCHANGED gap
  BY DEF BridgeReboots, serverVars
<1>2. (clock' - last'.heartbeat) % Word >= Interval
  BY <1>1, BootTimes DEF HeartbeatsInTime
<1> QED BY <1>1, <1>2 DEF HeardInv, Elapsed

LEMMA HeardKeeps ==
  ASSUME HeartbeatsInTime, IInv, HeardInv, [Next]_vars PROVE HeardInv'
<1> USE DEF bridgeVars, serverVars, historyVars
<1>1. ASSUME UNCHANGED <<clock, last.heartbeat, heard, gap>> PROVE HeardInv'
  BY <1>1 DEF HeardInv, Elapsed
<1>2. ASSUME NEW d \in 1..MaxBlock, NEW h \in BOOLEAN, NEW l \in BOOLEAN, Loop(d, h, l)
      PROVE  HeardInv'
  BY <1>2, LoopHeard
<1>3. CASE OpenEvt
  BY <1>1, <1>3 DEF OpenEvt
<1>4. ASSUME NEW found \in BOOLEAN, DiscoverServices(found) PROVE HeardInv'
  <2>1. last'.heartbeat = last.heartbeat
    BY <1>4 DEF DiscoverServices, ForcePoll, IInv, TimeType, Timers
  <2> QED BY <1>1, <1>4, <2>1 DEF DiscoverServices
<1>5. CASE DisconnectEvt
  BY <1>1, <1>5 DEF DisconnectEvt
<1>6. ASSUME NEW ok \in BOOLEAN, ReadCharEvt(ok) \/ DfuEnds(ok) PROVE HeardInv'
  BY <1>1, <1>6 DEF ReadCharEvt, DfuEnds
<1>7. ASSUME NEW w \in Watches, OnBleAdvertise(w) PROVE HeardInv'
  BY <1>1, <1>7 DEF OnBleAdvertise
<1>8. CASE DfuStarts
  BY <1>1, <1>8 DEF DfuStarts
<1>9. CASE BridgeReboots
  BY <1>9, RebootHeard
<1>10. CASE ServerRestarts
  BY <1>10 DEF ServerRestarts, HeardInv
<1>11. CASE UNCHANGED vars
  BY <1>1, <1>11 DEF vars
<1> QED BY <1>2, <1>3, <1>4, <1>5, <1>6, <1>7, <1>8, <1>9, <1>10, <1>11 DEF Next

-----------------------------------------------------------------------------
(* The theorems.                                                            *)

\* Links that force polls, and a clock that wraps around, delay a poll by less than two
\* intervals and two slow iterations (pinetime_bridge.cpp:180,616).
THEOREM PollsAlwaysComing == Spec => []PollsKeepComing
<1>1. IInv => PollsKeepComing
  <2> SUFFICES ASSUME IInv PROVE PollsKeepComing
    OBVIOUS
  <2>1. sincePoll \in Nat
    BY DEF IInv, TimeType
  <2>2. Interval + MaxBlock <= LongGap /\ LongGap \in Nat
    BY Bounds DEF LongGap
  <2> QED BY <2>1, <2>2, Bounds DEF IInv, PollInv, PollsKeepComing
<1> QED BY <1>1, InvariantHolds, PTL

\* A forced poll comes with the next iteration, except shortly after a boot or after the
\* clock has wrapped around (pinetime_bridge.cpp:615-616).
THEOREM ForcedPollAlwaysComes == Spec => []ForcedPollComes
<1>1. IInv => ForcedPollComes
  BY Bounds DEF IInv, ForcedInv, ForcedPollComes, Never
<1> QED BY <1>1, InvariantHolds, PTL

\* If iterations are short enough for the threshold, the server takes a bridge for newly
\* online only after its own boot or a heartbeat that it did not get: neither a restart of
\* the bridge nor a wrap-around makes it miss one (handlers.go:394-401).
THEOREM OnlineAlwaysMeansGap == HeartbeatsInTime => (Spec => []OnlineMeansGap)
<1> SUFFICES ASSUME HeartbeatsInTime PROVE Spec => []OnlineMeansGap
  OBVIOUS
<1>1. Init => HeardInv
  BY DEF Init, HeardInv
<1>2. IInv /\ HeardInv /\ [Next]_vars => HeardInv'
  BY HeardKeeps
<1>3. IInv /\ HeardInv => OnlineMeansGap
  <2> SUFFICES ASSUME IInv, HeardInv, ~gap PROVE ~CameOnline
    BY DEF OnlineMeansGap
  <2>1. heard \in Nat /\ heard < Interval + MaxBlock /\ heard # Never
    BY DEF HeardInv, IInv, TimeType
  <2>2. ~(heard > OfflineAfter)
    BY <2>1, Bounds DEF HeartbeatsInTime
  <2> QED BY <2>1, <2>2 DEF CameOnline
<1>4. Spec => []IInv
  BY InvariantHolds
<1> QED BY <1>1, <1>2, <1>3, <1>4, PTL DEF Spec
=============================================================================
