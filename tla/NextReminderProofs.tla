-------------------------- MODULE NextReminderProofs --------------------------
(* Proofs about NextReminder: that looking at eight instants, 24 hours apart, finds the
   earliest reminder in a week without a change of the clocks, and one that is late by
   at most a day in any other. *)
EXTENDS NextReminder, WellFoundedInduction, TLAPS

-----------------------------------------------------------------------------
(* Smallest elements.                                                       *)

LEMMA Smaller ==
  ASSUME NEW x \in Nat, NEW y \in Nat, y < x
  PROVE  <<y, x>> \in OpToRel(<, Nat)
<1>1. <<y, x>> \in Nat \X Nat
  OBVIOUS
<1>2. <<y, x>>[1] < <<y, x>>[2]
  OBVIOUS
<1> QED BY Zenon, <1>1, <1>2 DEF OpToRel

LEMMA LeastExists ==
  ASSUME NEW S, S \subseteq Nat, S # {}
  PROVE  \E x \in S : \A y \in S : x <= y
<1>1. PICK x \in S : \A y \in S : ~(<<y, x>> \in OpToRel(<, Nat))
  BY NatLessThanWellFounded, WFMin
<1>2. x \in Nat /\ \A y \in S : y \in Nat /\ ~(y < x)
  BY <1>1, Smaller
<1>3. \A y \in S : x <= y
  BY <1>2
<1> QED BY <1>3

LEMMA MinOf ==
  ASSUME NEW S, S \subseteq Nat, S # {}
  PROVE  Min(S) \in S /\ \A y \in S : Min(S) <= y
BY LeastExists DEF Min

LEMMA MinIs ==
  ASSUME NEW S, S \subseteq Nat, NEW x \in S, \A y \in S : x <= y
  PROVE  Min(S) = x
<1>1. Min(S) \in S /\ \A y \in S : Min(S) <= y
  BY MinOf
<1>2. Min(S) <= x /\ x <= Min(S) /\ x \in Nat /\ Min(S) \in Nat
  BY <1>1
<1> QED BY <1>2

-----------------------------------------------------------------------------
(* Days and instants.                                                       *)

\* What does not change but the clock.
Types == now \in Nat /\ shift \in {-1, 0, 1} /\ reminders \in Lists

LEMMA Bounds == Change \in Nat /\ Shifts \subseteq {-1, 0, 1}
BY NextAssumption

LEMMA Hours ==
  ASSUME Types, NEW i \in DOMAIN reminders
  PROVE  i \in Nat \ {0} /\ reminders[i].hour \in Nat
BY NextAssumption DEF Types

LEMMA LocalType == ASSUME Types, NEW t \in Nat PROVE Local(t) \in Int /\ Day(t) \in Int
BY DEF Types, Local, Day

LEMMA Instants ==
  ASSUME Types, NEW h \in Nat, NEW d \in Int, NEW e \in Int, d < e
  PROVE  /\ MkTime(d, h) \in Int /\ MkTime(e, h) \in Int /\ MkTime(d, h) < MkTime(e, h)
         /\ e = d + 1 => MkTime(e, h) <= MkTime(d, h) + 24 - shift
                         \/ MkTime(e, h) = MkTime(d, h) + 24
BY Bounds DEF Types, MkTime

\* In a week without a change, each of the eight instants is on a day of its own.
LEMMA EvenDays ==
  ASSUME Types, EvenWeek, NEW k \in 0..7
  PROVE  Day(now + 24 * k) = Day(now) + k
<1> DEFINE s == IF Change <= now THEN shift ELSE 0
<1>1. Local(now) = now + s /\ Local(now + 24 * k) = now + 24 * k + s
  BY Bounds DEF Types, EvenWeek, Local
<1>2. now + s \in Int
  BY DEF Types
<1>3. (now + 24 * k + s) \div 24 = ((now + s) \div 24) + k
  BY <1>2 DEF Types
<1> QED BY <1>1, <1>3 DEF Day

\* In any other, they are at most one day off, and only on one side of now and tomorrow.
LEMMA AnyDays ==
  ASSUME Types, NEW k \in 0..7
  PROVE  /\ Day(now + 24 * k) - Day(now) \in 0..8
         /\ Day(now + 24 * k) - Day(now) \in (k - 1)..(k + 1)
<1>1. CASE k = 0
  BY <1>1, LocalType DEF Types
<1>2. CASE k \in 1..7
  <2>1. /\ Local(now) \in Int /\ Local(now + 24 * k) \in Int
        /\ Local(now + 24 * k) - Local(now) \in (24 * k - 1)..(24 * k + 1)
    BY <1>2, Bounds DEF Types, Local
  <2> QED BY <1>2, <2>1 DEF Day
<1> QED BY <1>1, <1>2

\* Tomorrow's instant is always ahead.
LEMMA TomorrowAhead ==
  ASSUME Types, NEW h \in Nat, NEW d \in Int, d > Day(now)
  PROVE  MkTime(d, h) > now
<1>1. Local(now) < 24 * Day(now) + 24 /\ Local(now) \in Int /\ Day(now) \in Int
  BY LocalType DEF Types, Day
<1>2. CASE now >= Change
  <2>1. now + shift < 24 * d
    BY <1>1, <1>2 DEF Types, Local
  <2> QED BY <1>2, <2>1, Bounds DEF Types, MkTime
<1>3. CASE now < Change
  <2>1. now < 24 * d
    BY <1>1, <1>3, Bounds DEF Types, Local
  <2> QED BY <1>3, <2>1, Bounds DEF Types, MkTime
<1> QED BY <1>2, <1>3, Bounds DEF Types

-----------------------------------------------------------------------------
(* Candidates.                                                              *)

LEMMA HitsType ==
  ASSUME Types, NEW r, r.hour \in Nat
  PROVE  /\ Hits(r) \subseteq 0..7
         /\ \A k \in 0..7 : CandidateAt(r, k) \in Int
         /\ \A k \in Hits(r) : CandidateAt(r, k) \in Nat /\ CandidateAt(r, k) > now
                               /\ FiresOn(r, Day(now + 24 * k))
<1>1. Hits(r) \subseteq 0..7
  BY DEF Hits, DayOffsets
<1>2. ASSUME NEW k \in 0..7 PROVE CandidateAt(r, k) \in Int
  <2>1. now + 24 * k \in Nat
    BY DEF Types
  <2>2. Day(now + 24 * k) \in Int
    BY <2>1, LocalType
  <2> QED BY <2>2, Bounds DEF CandidateAt, MkTime, Types
<1>3. \A k \in Hits(r) : ~(CandidateAt(r, k) <= now) /\ FiresOn(r, Day(now + 24 * k))
  BY DEF Hits, InPast
<1>4. \A k \in Hits(r) : CandidateAt(r, k) \in Nat /\ CandidateAt(r, k) > now
  BY <1>1, <1>2, <1>3 DEF Types
<1> QED BY <1>1, <1>2, <1>3, <1>4

LEMMA FoundHit ==
  ASSUME Types, NEW r, r.hour \in Nat, Hits(r) # {}
  PROVE  /\ FirstHit(Hits(r)) \in Hits(r) /\ FirstHit(Hits(r)) \in 0..7
         /\ \A k \in Hits(r) : FirstHit(Hits(r)) <= k
         /\ FoundAt(r) \in Nat /\ FoundAt(r) > now
<1>1. Hits(r) \subseteq 0..7 /\ Hits(r) \subseteq Nat
  BY HitsType
<1>2. Min(Hits(r)) \in Hits(r) /\ \A k \in Hits(r) : Min(Hits(r)) <= k
  BY <1>1, MinOf
<1> QED BY <1>1, <1>2, HitsType DEF FirstHit, FoundAt

\* In a week without a change, the candidates are the occurrences.
LEMMA EvenCandidates ==
  ASSUME Types, EvenWeek, NEW r, r.hour \in Nat
  PROVE  Occurrences(r, 7) = {CandidateAt(r, k) : k \in Hits(r)}
<1>1. \A k \in 0..7 : Day(now + 24 * k) = Day(now) + k
  BY EvenDays
<1>2. ASSUME NEW t, t \in Occurrences(r, 7)
      PROVE  t \in {CandidateAt(r, k) : k \in Hits(r)}
  <2>1. PICK d \in 0..7 : FiresOn(r, Day(now) + d) /\ t = MkTime(Day(now) + d, r.hour) /\ t > now
    BY <1>2 DEF Occurrences
  <2>2. t = CandidateAt(r, d) /\ FiresOn(r, Day(now + 24 * d))
    BY <1>1, <2>1 DEF CandidateAt
  <2>3. ~(CandidateAt(r, d) <= now)
    BY <2>1, <2>2, HitsType DEF Types
  <2>4. d \in Hits(r)
    BY <2>1, <2>2, <2>3 DEF Hits, InPast, DayOffsets
  <2> QED BY <2>2, <2>4
<1>3. ASSUME NEW k \in Hits(r) PROVE CandidateAt(r, k) \in Occurrences(r, 7)
  <2>1. /\ k \in 0..7 /\ CandidateAt(r, k) > now
        /\ FiresOn(r, Day(now + 24 * k))
    BY HitsType
  <2>2. CandidateAt(r, k) = MkTime(Day(now) + k, r.hour) /\ FiresOn(r, Day(now) + k)
    BY <1>1, <2>1 DEF CandidateAt
  <2> QED BY <2>1, <2>2 DEF Occurrences
<1> QED BY <1>2, <1>3

LEMMA EvenFirst ==
  ASSUME Types, EvenWeek, NEW r, r.hour \in Nat
  PROVE  /\ Hits(r) = {} <=> Occurrences(r, 7) = {}
         /\ Hits(r) # {} => FoundAt(r) = FirstAt(r)
<1>1. Occurrences(r, 7) = {CandidateAt(r, k) : k \in Hits(r)}
  BY EvenCandidates
<1>2. ASSUME Hits(r) # {} PROVE FoundAt(r) = FirstAt(r)
  <2> DEFINE f == FirstHit(Hits(r))
  <2>1. f \in Hits(r) /\ f \in 0..7 /\ \A k \in Hits(r) : f <= k
    BY <1>2, FoundHit
  <2>2. \A k \in Hits(r) : CandidateAt(r, k) \in Nat /\ k \in 0..7
    BY HitsType
  <2> HIDE DEF f
  <2>3. ASSUME NEW k \in Hits(r) PROVE CandidateAt(r, f) <= CandidateAt(r, k)
    <3>1. CASE k = f
      BY <2>1, <2>2, <3>1
    <3>2. CASE k # f
      <4>1. f < k /\ k \in 0..7
        BY <2>1, <2>2, <3>2
      <4>2. Day(now) \in Int /\ Day(now + 24 * f) = Day(now) + f
            /\ Day(now + 24 * k) = Day(now) + k
        BY <2>1, <4>1, EvenDays, LocalType DEF Types
      <4>3. Day(now) + f \in Int /\ Day(now) + k \in Int /\ Day(now) + f < Day(now) + k
        BY <2>1, <4>1, <4>2
      <4>4. MkTime(Day(now) + f, r.hour) < MkTime(Day(now) + k, r.hour)
        BY <4>3, Instants
      <4>5. CandidateAt(r, f) < CandidateAt(r, k)
        BY <4>2, <4>4 DEF CandidateAt
      <4> QED BY <2>1, <2>2, <4>5
    <3> QED BY <3>1, <3>2
  <2>4. /\ CandidateAt(r, f) \in Occurrences(r, 7) /\ Occurrences(r, 7) \subseteq Nat
        /\ \A t \in Occurrences(r, 7) : CandidateAt(r, f) <= t
    BY <1>1, <2>1, <2>2, <2>3
  <2>5. Min(Occurrences(r, 7)) = CandidateAt(r, f)
    BY <2>4, MinIs
  <2> QED BY <2>5 DEF FirstAt, FoundAt, f
<1> QED BY <1>1, <1>2

-----------------------------------------------------------------------------
(* The choice.                                                              *)

LEMMA FoundType ==
  ASSUME Types, NEW i \in Found
  PROVE  /\ i \in DOMAIN reminders /\ i \in Nat \ {0} /\ reminders[i].hour \in Nat
         /\ reminders[i].enabled /\ Hits(reminders[i]) # {}
         /\ FoundAt(reminders[i]) \in Nat
<1>1. i \in DOMAIN reminders /\ reminders[i].enabled /\ Hits(reminders[i]) # {}
  BY DEF Found
<1>2. i \in Nat \ {0} /\ reminders[i].hour \in Nat
  BY <1>1, Hours
<1> QED BY <1>1, <1>2, FoundHit

\* One of the reminders found beats all others, and only that one does.
LEMMA Winner ==
  ASSUME Types, Found # {}
  PROVE  /\ GetNextReminder \in Found
         /\ \A j \in Found \ {GetNextReminder} : Beats(GetNextReminder, j)
<1> DEFINE Times == {FoundAt(reminders[i]) : i \in Found}
<1>1. Times \subseteq Nat /\ Times # {}
  BY FoundType
<1>2. PICK t \in Times : \A u \in Times : t <= u
  BY <1>1, LeastExists
<1> DEFINE First == {i \in Found : FoundAt(reminders[i]) = t}
<1>3. First \subseteq Nat /\ First # {}
  BY FoundType
<1>4. PICK w \in First : \A i \in First : w <= i
  BY <1>3, LeastExists
<1>5. ASSUME NEW j \in Found \ {w} PROVE Beats(w, j)
  <2>1. w \in Found /\ FoundAt(reminders[w]) = t /\ FoundAt(reminders[j]) \in Times
    BY <1>4
  <2>2. t <= FoundAt(reminders[j]) /\ t \in Nat /\ FoundAt(reminders[j]) \in Nat
    BY <1>1, <1>2, <2>1
  <2>3. CASE FoundAt(reminders[j]) = t
    <3>1. w <= j /\ w \in Nat /\ j \in Nat /\ j # w
      BY <1>3, <1>4, <2>3
    <3> QED BY <2>1, <2>3, <3>1 DEF Beats
  <2>4. CASE FoundAt(reminders[j]) # t
    BY <2>1, <2>2, <2>4 DEF Beats
  <2> QED BY <2>3, <2>4
<1>6. \E i \in Found : \A j \in Found \ {i} : Beats(i, j)
  BY <1>4, <1>5
<1> QED BY <1>6 DEF GetNextReminder

LEMMA OneWinner ==
  ASSUME Types, NEW i \in Found, NEW j \in Found, i # j, Beats(i, j)
  PROVE  ~Beats(j, i)
BY FoundType DEF Beats

-----------------------------------------------------------------------------
(* A daily reminder in a week with a change of the clocks.                  *)

\* A day is jumped over only in spring; in autumn the day that two instants fall into is
\* followed by the next one.
LEMMA NearDays ==
  ASSUME Types
  PROVE  /\ Day(now + 24) = Day(now) + 2 => shift = 1
         /\ Day(now + 24) = Day(now) => Day(now + 48) = Day(now) + 1
<1>1. /\ Local(now) \in Int /\ Local(now + 24) \in Int /\ Local(now + 48) \in Int
      /\ Local(now + 24) - Local(now) \in {24, 24 + shift}
      /\ Local(now + 24) - Local(now) = 23 => Local(now + 48) - Local(now + 24) = 24
  BY Bounds DEF Types, Local
<1>2. Day(now + 24) = Day(now) + 2 => Local(now + 24) - Local(now) > 24
  BY <1>1 DEF Day
<1>3. Day(now + 24) = Day(now) => Local(now + 24) - Local(now) = 23
  BY <1>1 DEF Day, Types
<1>4. Local(now + 48) - Local(now + 24) = 24 => Day(now + 48) = Day(now + 24) + 1
  BY <1>1 DEF Day
<1> QED BY <1>1, <1>2, <1>3, <1>4, LocalType DEF Types

LEMMA DailySoon ==
  ASSUME Types, NEW r, r.hour \in Nat, r.recurrence = Daily
  PROVE  Hits(r) # {} /\ FirstAt(r) \in Int /\ FoundAt(r) <= FirstAt(r) + 24
<1> DEFINE D == Day(now)
           At(d) == MkTime(D + d, r.hour)
<1>1. D \in Int /\ Day(now + 24 * 0) = D
  BY LocalType DEF Types
<1>2. \A day : FiresOn(r, day)
  BY DEF FiresOn
<1>3. \A k \in 0..7 : k \in Hits(r) <=> ~(CandidateAt(r, k) <= now)
  BY <1>2 DEF Hits, InPast, DayOffsets
<1>4. ASSUME NEW d \in 0..8, NEW e \in 0..8, d < e
      PROVE  At(d) \in Int /\ At(e) \in Int /\ At(d) < At(e)
  <2>1. D + d \in Int /\ D + e \in Int /\ D + d < D + e
    BY <1>1, <1>4
  <2> HIDE DEF D
  <2> QED BY <2>1, Instants
<1>5. At(1) > now /\ At(0) \in Int /\ At(1) \in Int
  <2>1. D + 1 \in Int /\ D + 1 > Day(now)
    BY <1>1
  <2> QED BY <1>4, <2>1, TomorrowAhead
<1>6. \A t : t \in Occurrences(r, 7) <=> \E d \in 0..7 : t = At(d) /\ t > now
  BY <1>2 DEF Occurrences
<1>7. Occurrences(r, 7) \subseteq Nat
  BY <1>4, <1>6 DEF Types
<1> HIDE DEF At
<1>8. CASE At(0) > now
  <2>1. At(0) \in Occurrences(r, 7) /\ \A t \in Occurrences(r, 7) : At(0) <= t
    BY <1>4, <1>5, <1>6, <1>8
  <2>2. FirstAt(r) = At(0)
    BY <1>7, <2>1, MinIs DEF FirstAt
  <2>3. CandidateAt(r, 0) = At(0)
    BY <1>1 DEF CandidateAt, At
  <2>4. 0 \in Hits(r)
    BY <1>3, <1>5, <1>8, <2>3 DEF Types
  <2>5. Hits(r) \subseteq Nat /\ \A k \in Hits(r) : 0 <= k
    BY HitsType
  <2>6. FirstHit(Hits(r)) = 0
    BY <2>4, <2>5, MinIs DEF FirstHit
  <2> QED BY <1>5, <2>2, <2>3, <2>4, <2>6 DEF FoundAt
<1>9. CASE ~(At(0) > now)
  <2>1. At(1) \in Occurrences(r, 7) /\ \A t \in Occurrences(r, 7) : At(1) <= t
    <3>1. ASSUME NEW t \in Occurrences(r, 7) PROVE At(1) <= t
      <4>1. PICK d \in 0..7 : t = At(d) /\ t > now
        BY <1>6
      <4>2. d # 0
        BY <1>9, <4>1
      <4> QED BY <1>4, <1>5, <4>1, <4>2
    <3> QED BY <1>5, <1>6, <3>1
  <2>2. FirstAt(r) = At(1)
    BY <1>7, <2>1, MinIs DEF FirstAt
  <2>3. 0 \notin Hits(r)
    BY <1>1, <1>3, <1>5, <1>9 DEF CandidateAt, At, Types
  <2>4. Hits(r) \subseteq Nat
    BY HitsType
  <2>5. Day(now + 24 * 1) \in D..(D + 2) /\ now + 24 * 1 = now + 24 /\ now + 24 * 2 = now + 48
    BY <1>1, AnyDays, LocalType DEF Types
  <2>6. CASE Day(now + 24) = D + 1
    <3>1. CandidateAt(r, 1) = At(1)
      BY <2>5, <2>6 DEF CandidateAt, At
    <3>2. 1 \in Hits(r)
      BY <1>3, <1>5, <3>1 DEF Types
    <3>3. FirstHit(Hits(r)) = 1
      BY <2>3, <2>4, <3>2, MinIs DEF FirstHit
    <3> QED BY <1>5, <2>2, <3>1, <3>2, <3>3 DEF FoundAt
  <2>7. CASE Day(now + 24) = D + 2
    <3>1. CandidateAt(r, 1) = At(2)
      BY <2>5, <2>7 DEF CandidateAt, At
    <3>2. At(1) < At(2) /\ At(2) \in Int
      BY <1>4
    <3>3. 1 \in Hits(r)
      BY <1>3, <1>5, <3>1, <3>2 DEF Types
    <3>4. FirstHit(Hits(r)) = 1
      BY <2>3, <2>4, <3>3, MinIs DEF FirstHit
    <3>5. shift = 1
      BY <2>7, NearDays
    <3>6. At(2) <= At(1) + 24
      <4>1. D + 1 \in Int /\ D + 2 \in Int /\ D + 1 < D + 2 /\ D + 2 = (D + 1) + 1
        BY <1>1
      <4>2. At(2) <= At(1) + 24 - shift \/ At(2) = At(1) + 24
        BY <4>1, Instants DEF At
      <4> QED BY <1>5, <3>2, <3>5, <4>2
    <3> QED BY <1>5, <2>2, <3>1, <3>3, <3>4, <3>6 DEF FoundAt
  <2>8. CASE Day(now + 24) = D
    <3>1. CandidateAt(r, 1) = At(0)
      BY <1>1, <2>5, <2>8 DEF CandidateAt, At
    <3>2. 1 \notin Hits(r)
      BY <1>3, <1>5, <1>9, <3>1 DEF Types
    <3>3. Day(now + 48) = D + 1
      BY <2>8, NearDays
    <3>4. CandidateAt(r, 2) = At(1)
      BY <2>5, <3>3 DEF CandidateAt, At
    <3>5. 2 \in Hits(r)
      BY <1>3, <1>5, <3>4 DEF Types
    <3>6. FirstHit(Hits(r)) = 2
      BY <2>3, <2>4, <3>2, <3>5, MinIs DEF FirstHit
    <3> QED BY <1>5, <2>2, <3>4, <3>5, <3>6 DEF FoundAt
  <2> QED BY <1>1, <2>5, <2>6, <2>7, <2>8
<1> QED BY <1>8, <1>9

-----------------------------------------------------------------------------
(* The theorems.                                                            *)

LEMMA TypesHold == Spec => []Types
<1>1. Init => Types
  BY Bounds DEF Init, Types
<1>2. Types /\ [HourPasses]_vars => Types'
  BY DEF Types, HourPasses, vars
<1> QED BY <1>1, <1>2, PTL DEF Spec

\* In every time zone and for every list, the search over the eight instants, which keeps
\* the first of equally near ones, answers with the earliest reminder ahead, as long as
\* the clocks do not change within the week (pinetime_bridge.cpp:743-778).
THEOREM NextIsAlwaysEarliest == Spec => []NextIsEarliest
<1>1. Types => NextIsEarliest
  <2> SUFFICES ASSUME Types, EvenWeek PROVE GetNextReminder = RightAnswer
    BY DEF NextIsEarliest
  <2>1. Found = Ahead
    BY EvenFirst, Hours DEF Found, Ahead
  <2>2. \A i \in Found : FoundAt(reminders[i]) = FirstAt(reminders[i])
    BY EvenFirst, FoundType
  <2>3. CASE Found = {}
    BY <2>1, <2>3 DEF Earliest, RightAnswer, GetNextReminder
  <2>4. CASE Found # {}
    <3> DEFINE w == GetNextReminder
    <3>1. w \in Found /\ \A j \in Found \ {w} : Beats(w, j)
      BY <2>4, Winner
    <3> HIDE DEF w
    <3>2. ASSUME NEW j \in Found
          PROVE  /\ FirstAt(reminders[w]) <= FirstAt(reminders[j])
                 /\ FirstAt(reminders[j]) <= FirstAt(reminders[w]) => w <= j
      <4>1. /\ FirstAt(reminders[w]) \in Nat /\ FirstAt(reminders[j]) \in Nat
            /\ w \in Nat /\ j \in Nat
        BY <2>2, <3>1, FoundType
      <4>2. j # w => \/ FirstAt(reminders[w]) < FirstAt(reminders[j])
                     \/ FirstAt(reminders[w]) = FirstAt(reminders[j]) /\ w < j
        BY <2>2, <3>1 DEF Beats
      <4> QED BY <4>1, <4>2
    <3>3. w \in Earliest /\ \A j \in Earliest : w <= j
      BY <2>1, <3>1, <3>2 DEF Earliest
    <3>4. Earliest \subseteq Nat
      BY <2>1, FoundType DEF Earliest
    <3>5. Min(Earliest) = w /\ Earliest # {}
      BY <3>3, <3>4, MinIs
    <3> QED BY <3>5 DEF RightAnswer, w
  <2> QED BY <2>3, <2>4
<1> QED BY <1>1, TypesHold, PTL

\* A change of the clocks makes the answer late by at most a day: it is an instant at
\* which the reminder fires, today or in the eight days after, and no daily reminder is
\* missed by more than 24 hours (pinetime_bridge.cpp:743-778).
THEOREM NextAlwaysComesSoon == Spec => []NextComesSoon
<1>1. Types => NextComesSoon
  <2> SUFFICES ASSUME Types PROVE NextComesSoon
    OBVIOUS
  <2>1. ASSUME GetNextReminder # 0
        PROVE  Shown.enabled /\ FoundAt(Shown) \in Occurrences(Shown, 8)
    <3>1. GetNextReminder \in Found
      BY <2>1, Winner DEF GetNextReminder
    <3>2. Shown.hour \in Nat /\ Shown.enabled /\ Hits(Shown) # {}
      BY <3>1, FoundType DEF Shown
    <3> DEFINE k == FirstHit(Hits(Shown))
               e == Day(now + 24 * k) - Day(now)
    <3>3. k \in Hits(Shown) /\ k \in 0..7
      BY <3>2, FoundHit
    <3>4. CandidateAt(Shown, k) > now /\ FiresOn(Shown, Day(now + 24 * k))
      BY <3>2, <3>3, HitsType
    <3> HIDE DEF k
    <3>5. now + 24 * k \in Nat
      BY <3>3 DEF Types
    <3>6. e \in 0..8 /\ Day(now + 24 * k) = Day(now) + e
      BY <3>3, <3>5, AnyDays, LocalType DEF Types
    <3>7. CandidateAt(Shown, k) = MkTime(Day(now) + e, Shown.hour)
          /\ FiresOn(Shown, Day(now) + e)
      BY <3>4, <3>6 DEF CandidateAt
    <3>8. CandidateAt(Shown, k) \in Occurrences(Shown, 8)
      BY <3>4, <3>6, <3>7 DEF Occurrences
    <3> QED BY <3>2, <3>8 DEF FoundAt, k
  <2>2. ASSUME NEW i \in DOMAIN reminders, reminders[i].enabled, reminders[i].recurrence = Daily
        PROVE  GetNextReminder # 0 /\ FoundAt(Shown) <= FirstAt(reminders[i]) + 24
    <3>1. reminders[i].hour \in Nat
      BY Hours
    <3>2. Hits(reminders[i]) # {} /\ FirstAt(reminders[i]) \in Int
          /\ FoundAt(reminders[i]) <= FirstAt(reminders[i]) + 24
      BY <2>2, <3>1, DailySoon
    <3>3. i \in Found
      BY <2>2, <3>2 DEF Found
    <3>4. GetNextReminder \in Found
          /\ \A j \in Found \ {GetNextReminder} : Beats(GetNextReminder, j)
      BY <3>3, Winner
    <3>5. FoundAt(Shown) \in Nat /\ FoundAt(reminders[i]) \in Nat /\ GetNextReminder # 0
      BY <3>3, <3>4, FoundType DEF Shown
    <3>6. FoundAt(Shown) <= FoundAt(reminders[i])
      BY <3>3, <3>4, <3>5 DEF Beats, Shown
    <3> QED BY <3>2, <3>5, <3>6
  <2> QED BY <2>1, <2>2 DEF NextComesSoon
<1> QED BY <1>1, TypesHold, PTL
=============================================================================
