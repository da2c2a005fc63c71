---------------------------- MODULE DeliveryProofs ----------------------------
(* Proofs about Delivery: its type invariant, that a mark on the server means a
   write to the watch, and that the watch shows notifications in order and no more
   often than marks are lost. *)
EXTENDS Delivery, FiniteSetTheorems, TLAPS

-----------------------------------------------------------------------------
(* Sequences of ids.                                                        *)

LEMMA SeqGrows ==
  ASSUME NEW S, NEW T, S \subseteq T, NEW q \in Seq(S)
  PROVE  q \in Seq(T)
  OBVIOUS

LEMMA EmptyType == ASSUME NEW S PROVE <<>> \in Seq(S)
  OBVIOUS

LEMMA SeqElement ==
  ASSUME NEW S, NEW q \in Seq(S), NEW i \in DOMAIN q
  PROVE  q[i] \in S /\ i \in Nat /\ DOMAIN q = 1..Len(q) /\ Len(q) \in Nat
  OBVIOUS

LEMMA AppendMembers ==
  ASSUME NEW S, NEW q \in Seq(S), NEW c \in S
  PROVE  /\ Append(q, c) \in Seq(S)
         /\ Members(Append(q, c)) = Members(q) \cup {c}
<1>1. /\ Append(q, c) \in Seq(S) /\ Len(Append(q, c)) = Len(q) + 1
      /\ \A i \in 1..Len(q) : Append(q, c)[i] = q[i]
      /\ Append(q, c)[Len(q) + 1] = c
      /\ DOMAIN q = 1..Len(q) /\ Len(q) \in Nat
      /\ DOMAIN Append(q, c) = 1..(Len(q) + 1)
  OBVIOUS
<1>2. \A x : x \in Members(Append(q, c)) <=> x \in Members(q) \/ x = c
  <2>1. 1..(Len(q) + 1) = (1..Len(q)) \cup {Len(q) + 1}
    BY <1>1
  <2> QED BY <1>1, <2>1 DEF Members
<1> QED BY <1>1, <1>2

LEMMA TailMembers ==
  ASSUME NEW S, NEW q \in Seq(S), q # <<>>
  PROVE  /\ Tail(q) \in Seq(S) /\ Head(q) \in S
         /\ Members(q) = {Head(q)} \cup Members(Tail(q))
<1>1. /\ Tail(q) \in Seq(S) /\ Head(q) \in S /\ Head(q) = q[1]
      /\ Len(q) \in Nat /\ Len(q) >= 1 /\ DOMAIN q = 1..Len(q)
      /\ DOMAIN Tail(q) = 1..(Len(q) - 1)
      /\ \A i \in 1..(Len(q) - 1) : Tail(q)[i] = q[i + 1]
  OBVIOUS
<1>2. \A x : x \in Members(q) <=> x = Head(q) \/ x \in Members(Tail(q))
  <2> SUFFICES ASSUME NEW x
               PROVE  x \in Members(q) <=> x = Head(q) \/ x \in Members(Tail(q))
    OBVIOUS
  <2>1. ASSUME x \in Members(q) PROVE x = Head(q) \/ x \in Members(Tail(q))
    <3>1. PICK i \in 1..Len(q) : x = q[i]
      BY <1>1, <2>1 DEF Members
    <3>2. CASE i = 1
      BY <1>1, <3>1, <3>2
    <3>3. CASE i # 1
      <4>1. i - 1 \in 1..(Len(q) - 1) /\ Tail(q)[i - 1] = q[(i - 1) + 1]
        BY <1>1, <3>1, <3>3
      <4>2. (i - 1) + 1 = i
        BY <3>1
      <4> QED BY <1>1, <3>1, <4>1, <4>2 DEF Members
    <3> QED BY <3>2, <3>3
  <2>2. ASSUME x \in Members(Tail(q)) PROVE x \in Members(q)
    <3>1. PICK i \in 1..(Len(q) - 1) : x = Tail(q)[i]
      BY <1>1, <2>2 DEF Members
    <3>2. i + 1 \in 1..Len(q) /\ x = q[i + 1]
      BY <1>1, <3>1
    <3> QED BY <1>1, <3>2 DEF Members
  <2>3. Head(q) \in Members(q)
    BY <1>1 DEF Members
  <2> QED BY <2>1, <2>2, <2>3
<1> QED BY <1>1, <1>2

LEMMA MembersType ==
  ASSUME NEW S, NEW q \in Seq(S)
  PROVE  Members(q) \subseteq S
<1>1. \A i \in DOMAIN q : q[i] \in S
  OBVIOUS
<1> QED BY <1>1 DEF Members

LEMMA EmptyMembers == Members(<<>>) = {}
  BY DEF Members

LEMMA FunctionIsSeq ==
  ASSUME NEW S, NEW n \in Nat, NEW l \in [1..n -> S]
  PROVE  l \in Seq(S) /\ Len(l) = n /\ DOMAIN l = 1..n
  OBVIOUS

\* A listing holds exactly its rows, each once and after those of earlier seconds.
LEMMA ListingType ==
  ASSUME TypeOK, NEW S \in SUBSET pending, NEW l \in Listing(S)
  PROVE  /\ l \in Seq(1..created) /\ DOMAIN l = 1..Len(l) /\ Len(l) \in Nat
         /\ \A n \in S : n \in Members(l)
         /\ \A i, j \in DOMAIN l : i < j => l[i] # l[j] /\ ~Earlier(l[j], l[i])
         /\ \A i \in DOMAIN l : l[i] \in S
<1> DEFINE n == Cardinality(S)
<1>1. created \in Int /\ S \subseteq 1..created
  BY DEF TypeOK
<1>2. n \in Nat
  <2>1. \A a, b \in Int : IsFiniteSet(a..b)
    BY FS_Interval
  <2>2. 1 \in Int
    OBVIOUS
  <2>3. IsFiniteSet(1..created)
    BY <1>1, <2>1, <2>2
  <2> QED BY <1>1, <2>3, FS_Subset, FS_CardinalityType
<1>3. l \in [1..n -> S]
  BY DEF Listing
<1>4. l \in Seq(S) /\ DOMAIN l = 1..n /\ Len(l) = n
  BY <1>2, <1>3, FunctionIsSeq
<1>6. l \in Seq(1..created)
  BY <1>1, <1>4, SeqGrows
<1>7. \A i \in DOMAIN l : l[i] \in S
  BY <1>3
<1>8. \A r \in S : \E i \in DOMAIN l : l[i] = r
  BY DEF Listing
<1>9. \A r \in S : r \in Members(l)
  BY <1>8 DEF Members
<1>10. \A i, j \in DOMAIN l : i < j => l[i] # l[j] /\ ~Earlier(l[j], l[i])
  BY DEF Listing
<1> QED BY <1>2, <1>4, <1>6, <1>7, <1>9, <1>10

\* A spliced answer holds rows of the list, each once, with texts of its own.
LEMMA SplicedType ==
  ASSUME TypeOK, FetchSpliced
  PROVE  \E k \in Nat :
            /\ todo' \in [1..k -> pending] /\ texts' \in [1..k -> 0..created]
            /\ \A i, j \in 1..k : i < j => todo'[i] # todo'[j]
<1>1. PICK l \in Listing(pending), k \in 1..BufferRows :
         \E p \in {q \in [1..k -> DOMAIN l] : \A i, j \in 1..k : i < j => q[i] < q[j]} :
             /\ todo' = [i \in 1..k |-> l[p[i]]]
             /\ texts' \in [1..k -> {Mixed} \cup (pending \ blank)]
  BY DEF FetchSpliced
<1>2. PICK p \in [1..k -> DOMAIN l] : /\ \A i, j \in 1..k : i < j => p[i] < p[j]
                                     /\ todo' = [i \in 1..k |-> l[p[i]]]
                                     /\ texts' \in [1..k -> {Mixed} \cup (pending \ blank)]
  BY <1>1
<1>3. k \in Nat /\ pending \subseteq 1..created /\ created \in Nat
  BY DeliveryAssumption DEF TypeOK
<1>4. /\ DOMAIN l = 1..Len(l) /\ Len(l) \in Nat /\ \A i \in DOMAIN l : l[i] \in pending
      /\ \A i, j \in DOMAIN l : i < j => l[i] # l[j]
  BY ListingType
<1>5. ASSUME NEW i \in 1..k  PROVE p[i] \in DOMAIN l /\ todo'[i] = l[p[i]]
  BY <1>2
<1>6. todo' \in [1..k -> pending]
  BY <1>2, <1>4, <1>5
<1>7. texts' \in [1..k -> 0..created]
  <2>1. {Mixed} \cup (pending \ blank) \subseteq 0..created
    <3>1. Mixed \in 0..created /\ 1..created \subseteq 0..created
      BY <1>3 DEF Mixed
    <3> QED BY <1>3, <3>1, Zenon
  <2>2. \A i \in 1..k : texts'[i] \in 0..created
    BY <1>2, <2>1
  <2> QED BY <1>2, <2>2
<1>9. ASSUME NEW i \in 1..k, NEW j \in 1..k, i < j  PROVE todo'[i] # todo'[j]
  <2>1. p[i] < p[j]
    BY <1>2, <1>9
  <2> QED BY <1>4, <1>5, <2>1
<1> QED BY <1>3, <1>6, <1>7, <1>9

-----------------------------------------------------------------------------
(* Type correctness.                                                        *)

LEMMA FaultType ==
  ASSUME TypeOK, NEW kind, Fault(kind)
  PROVE  faults' \in 0..MaxFaults /\ faults' = faults + 1
  BY DeliveryAssumption DEF TypeOK, Fault

LEMMA TypeInit == Init => TypeOK
<1>1. \A S : <<>> \in Seq(S)
  BY EmptyType
<1>2. /\ 0 \in 0..MaxNotifications /\ 0 \in 0..MaxAcks /\ 0 \in 0..MaxFaults
      /\ 0 \in 0..0
  BY DeliveryAssumption
<1> SUFFICES ASSUME Init PROVE TypeOK
  OBVIOUS
<1>3. /\ todo \in Seq(1..created) /\ texts \in Seq(0..created) /\ Len(texts) = Len(todo)
      /\ air \in Seq(0..created) /\ shown \in Seq(0..created)
  BY <1>1 DEF Init
<1>4. /\ created \in 0..MaxNotifications /\ marking \in 0..created /\ lapses \in 0..faults
      /\ dismissed \in 0..MaxAcks /\ due \in 0..dismissed /\ acks \in 0..dismissed
      /\ faults \in 0..MaxFaults
  BY <1>2 DEF Init
<1>5. /\ blank \subseteq 1..created /\ pending \subseteq 1..created /\ lost \subseteq 0..created
      /\ spliced \subseteq 0..created /\ garbled \subseteq 1..created
      /\ ans_handle_ \in BOOLEAN /\ radio \in BOOLEAN
  BY DEF Init
<1> QED BY <1>3, <1>4, <1>5 DEF TypeOK

LEMMA TypeStep == TypeOK /\ [Next]_vars => TypeOK'
<1> SUFFICES ASSUME TypeOK, [Next]_vars  PROVE TypeOK'
  OBVIOUS
<1> USE DEF serverVars, walkVars, linkVars, ackVars
<1>1. CASE UNCHANGED vars
  BY <1>1 DEF TypeOK, vars
<1>2. ASSUME NEW hasMessage \in BOOLEAN, CreateNotification(hasMessage)  PROVE TypeOK'
  <2>1. /\ created' = created + 1 /\ created' \in 0..MaxNotifications
        /\ 1..created \subseteq 1..created' /\ created' \in 1..created'
        /\ 0..created \subseteq 0..created'
    BY <1>2, DeliveryAssumption DEF CreateNotification, TypeOK
  <2>2. /\ \A q \in Seq(1..created) : q \in Seq(1..created')
        /\ \A q \in Seq(0..created) : q \in Seq(0..created')
    BY <2>1, SeqGrows
  <2>3. UNCHANGED <<todo, texts, air, shown, spliced, garbled, lost, marking>>
    BY <1>2 DEF CreateNotification
  <2>4. /\ todo' \in Seq(1..created') /\ texts' \in Seq(0..created') /\ Len(texts') = Len(todo')
        /\ air' \in Seq(0..created') /\ shown' \in Seq(0..created')
    BY <2>2, <2>3 DEF TypeOK
  <2>5. blank' \subseteq 1..created' /\ pending' \subseteq 1..created'
    BY <1>2, <2>1 DEF CreateNotification, TypeOK
  <2>6. /\ marking' \in 0..created' /\ lost' \subseteq 0..created'
        /\ spliced' \subseteq 0..created' /\ garbled' \subseteq 1..created'
    BY <2>1, <2>3 DEF TypeOK
  <2>7. UNCHANGED <<lapses, ans_handle_, radio, ackVars, faults>>
    BY <1>2 DEF CreateNotification
  <2> QED BY <2>1, <2>4, <2>5, <2>6, <2>7 DEF TypeOK
<1>3. CASE FetchPending
  <2>1. pending \ blank \in SUBSET pending /\ 1..created \subseteq 0..created
    BY DEF TypeOK
  <2>2. todo' \in Seq(1..created) /\ texts' = todo'
    BY <1>3, <2>1, ListingType DEF FetchPending
  <2>3. texts' \in Seq(0..created)
    BY <2>1, <2>2, SeqGrows
  <2> QED BY <1>3, <2>2, <2>3 DEF FetchPending, TypeOK
<1>14. CASE FetchSpliced
  <2>1. PICK k \in Nat : todo' \in [1..k -> pending] /\ texts' \in [1..k -> 0..created]
    BY <1>14, SplicedType
  <2>2. pending \subseteq 1..created
    BY DEF TypeOK
  <2>3. todo' \in Seq(pending) /\ Len(todo') = k /\ texts' \in Seq(0..created) /\ Len(texts') = k
    BY <2>1, FunctionIsSeq
  <2>4. todo' \in Seq(1..created) /\ Members(texts') \subseteq 0..created
    BY <2>2, <2>3, SeqGrows, MembersType
  <2>5. spliced' \subseteq 0..created
    BY <1>14, <2>4 DEF FetchSpliced, TypeOK
  <2>6. UNCHANGED <<serverVars, marking, lapses, garbled, linkVars, ackVars, faults>>
    BY <1>14 DEF FetchSpliced
  <2> QED BY <2>3, <2>4, <2>5, <2>6 DEF TypeOK
<1>4. ASSUME NEW accepted \in BOOLEAN, SendNotification(accepted)  PROVE TypeOK'
  <2>1. /\ todo \in Seq(1..created) /\ texts \in Seq(0..created)
        /\ todo # <<>> /\ texts # <<>> /\ Len(texts) = Len(todo)
    <3>1. /\ todo \in Seq(1..created) /\ texts \in Seq(0..created)
          /\ todo # <<>> /\ Len(texts) = Len(todo)
      BY <1>4 DEF SendNotification, TypeOK
    <3> QED BY <3>1
  <2>2. /\ todo' \in Seq(1..created) /\ Head(todo) \in 1..created /\ marking' \in 0..created
        /\ texts' \in Seq(0..created) /\ Head(texts) \in 0..created
    <3>1. todo' = Tail(todo) /\ texts' = Tail(texts) /\ marking' = Head(todo)
      BY <1>4 DEF SendNotification
    <3>2. Tail(todo) \in Seq(1..created) /\ Head(todo) \in 1..created
      BY <2>1, TailMembers
    <3>3. Tail(texts) \in Seq(0..created) /\ Head(texts) \in 0..created
      BY <2>1, TailMembers
    <3> QED BY <3>1, <3>2, <3>3
  <2>3. Len(texts') = Len(todo')
    <3>1. todo' = Tail(todo) /\ texts' = Tail(texts)
      BY <1>4 DEF SendNotification
    <3> QED BY <2>1, <3>1
  <2>4. garbled' \subseteq 1..created
    BY <1>4, <2>2 DEF SendNotification, TypeOK
  <2>5. UNCHANGED <<serverVars, lapses, spliced, ans_handle_, radio, shown, ackVars>>
    BY <1>4 DEF SendNotification
  <2>6. CASE accepted
    <3>1. air' = Append(air, Head(texts)) /\ UNCHANGED <<lost, faults>>
      BY <1>4, <2>6 DEF SendNotification
    <3>2. air \in Seq(0..created)
      BY DEF TypeOK
    <3>3. air' \in Seq(0..created)
      BY <2>2, <3>1, <3>2, AppendMembers
    <3> QED BY <2>2, <2>3, <2>4, <2>5, <3>1, <3>3 DEF TypeOK
  <2>7. CASE ~accepted
    <3>1. lost' \subseteq 0..created /\ air' = air
      BY <1>4, <2>2, <2>7 DEF SendNotification, TypeOK
    <3>2. faults' \in 0..MaxFaults /\ faults' = faults + 1
      BY <1>4, <2>7, FaultType DEF SendNotification
    <3>3. lapses' \in 0..faults'
      BY <2>5, <3>2 DEF TypeOK
    <3> QED BY <2>2, <2>3, <2>4, <2>5, <3>1, <3>2, <3>3 DEF TypeOK
  <2> QED BY <2>6, <2>7
<1>5. ASSUME NEW arrives \in BOOLEAN, MarkDelivered(arrives)  PROVE TypeOK'
  <2>1. /\ marking' \in 0..created
        /\ UNCHANGED <<created, blank, todo, texts, spliced, garbled, linkVars, ackVars>>
    BY <1>5 DEF MarkDelivered, TypeOK
  <2>2. CASE arrives
    <3>1. pending' \subseteq 1..created /\ UNCHANGED <<lapses, faults>>
      BY <1>5, <2>2 DEF MarkDelivered, TypeOK
    <3> QED BY <2>1, <3>1 DEF TypeOK
  <2>3. CASE ~arrives
    <3>1. faults' \in 0..MaxFaults /\ faults' = faults + 1 /\ pending' = pending
      BY <1>5, <2>3, FaultType DEF MarkDelivered
    <3>2. lapses' \in 0..faults'
      BY <1>5, <2>3, <3>1 DEF MarkDelivered, TypeOK
    <3> QED BY <2>1, <3>1, <3>2 DEF TypeOK
  <2> QED BY <2>2, <2>3
<1>6. CASE WatchShows
  <2>1. Head(air) \in 0..created /\ air' \in Seq(0..created)
    BY <1>6, TailMembers DEF WatchShows, TypeOK
  <2>2. shown' \in Seq(0..created)
    BY <1>6, <2>1, AppendMembers DEF WatchShows, TypeOK
  <2> QED BY <1>6, <2>1, <2>2 DEF WatchShows, TypeOK
<1>7. CASE WatchDismisses
  BY <1>7, DeliveryAssumption DEF WatchDismisses, TypeOK
<1>8. CASE AckNotified
  <2>1. UNCHANGED acks
    BY <1>8 DEF AckNotified, Decodes, AckedAt
  <2> QED BY <1>8, <2>1 DEF AckNotified, TypeOK
<1>9. CASE Connected
  <2>1. ans_handle_' \in BOOLEAN /\ radio' \in BOOLEAN
    BY <1>9 DEF Connected
  <2>2. UNCHANGED <<serverVars, walkVars, air, shown, lost, ackVars, faults>>
    BY <1>9 DEF Connected
  <2> QED BY <2>1, <2>2 DEF TypeOK
<1>10. CASE LinkLost
  <2>1. faults' \in 0..MaxFaults /\ lapses' \in 0..faults'
    BY <1>10, FaultType DEF LinkLost, TypeOK
  <2>2. radio' \in BOOLEAN
    BY <1>10 DEF LinkLost
  <2>3. UNCHANGED <<serverVars, walkVars, ans_handle_, air, shown, lost, ackVars>>
    BY <1>10 DEF LinkLost
  <2> QED BY <2>1, <2>2, <2>3 DEF TypeOK
<1>11. /\ Members(air) \subseteq 0..created
       /\ <<>> \in Seq(0..created) /\ <<>> \in Seq(1..created)
  <2>1. air \in Seq(0..created)
    BY DEF TypeOK
  <2>2. Members(air) \subseteq 0..created
    BY <2>1, MembersType
  <2> QED BY <2>2, EmptyType
<1>12. CASE Disconnected
  <2>1. ans_handle_' \in BOOLEAN /\ air' \in Seq(0..created) /\ lost' \subseteq 0..created
    BY <1>11, <1>12 DEF Disconnected, TypeOK
  <2>2. UNCHANGED <<serverVars, walkVars, radio, shown, ackVars, faults>>
    BY <1>12 DEF Disconnected
  <2> QED BY <2>1, <2>2 DEF TypeOK
<1>13. CASE BridgeReboots
  <2>1. faults' \in 0..MaxFaults /\ lapses' \in 0..faults'
    BY <1>13, FaultType DEF BridgeReboots, TypeOK
  <2>2. /\ ans_handle_' \in BOOLEAN /\ radio' \in BOOLEAN
        /\ air' \in Seq(0..created) /\ lost' \subseteq 0..created
    BY <1>11, <1>13 DEF BridgeReboots, TypeOK
  <2>3. /\ todo' \in Seq(1..created) /\ texts' \in Seq(0..created) /\ Len(texts') = Len(todo')
        /\ marking' \in 0..created
    BY <1>11, <1>13 DEF BridgeReboots, TypeOK
  <2>4. UNCHANGED <<serverVars, spliced, garbled, shown, ackVars>>
    BY <1>13 DEF BridgeReboots
  <2> QED BY <2>1, <2>2, <2>3, <2>4 DEF TypeOK
<1> QED
  BY <1>1, <1>2, <1>3, <1>4, <1>5, <1>6, <1>7, <1>8, <1>9, <1>10, <1>12, <1>13,
     <1>14 DEF Next

\* Every variable keeps its type, whatever fails and however long the lists get.
THEOREM DeliveryTypeCorrect == Spec => []TypeOK
  BY TypeInit, TypeStep, PTL DEF Spec

-----------------------------------------------------------------------------
(* The order of what is sent.                                               *)

\* The ids of earlier seconds than n that have a message, b being those without;
\* none for a text in e, of which no order is expected.
Before(n, b, e) == IF n \in e THEN {} ELSE {m \in 1..(n - 1) : Earlier(m, n)} \ b
Prefix(q, i) == {q[j] : j \in 1..(i - 1)}

\* What precedes an element of q is in base or in front of it in q.
Ordered(q, base, b, e) ==
    \A i \in DOMAIN q : Before(q[i], b, e) \subseteq base \cup Prefix(q, i)

LEMMA EmptyOrdered == ASSUME NEW base, NEW b, NEW e PROVE Ordered(<<>>, base, b, e)
  BY DEF Ordered

LEMMA OrderedWeaker ==
  ASSUME NEW q, NEW base, NEW b, NEW e, NEW base2, NEW b2, NEW e2,
         Ordered(q, base, b, e), base \subseteq base2, b \subseteq b2, e \subseteq e2
  PROVE  Ordered(q, base2, b2, e2)
<1>1. \A n : Before(n, b2, e2) \subseteq Before(n, b, e)
  BY DEF Before
<1>2. ASSUME NEW i \in DOMAIN q PROVE Before(q[i], b2, e2) \subseteq base2 \cup Prefix(q, i)
  BY <1>1 DEF Ordered
<1> QED BY <1>2 DEF Ordered

LEMMA OrderedAppend ==
  ASSUME NEW S, NEW q \in Seq(S), NEW c \in S, NEW base, NEW b, NEW e,
         Ordered(q, base, b, e), Before(c, b, e) \subseteq base \cup Members(q)
  PROVE  Ordered(Append(q, c), base, b, e)
<1> DEFINE r == Append(q, c)
<1>1. /\ Len(q) \in Nat /\ DOMAIN q = 1..Len(q) /\ DOMAIN r = 1..(Len(q) + 1)
      /\ \A i \in 1..Len(q) : r[i] = q[i]
      /\ r[Len(q) + 1] = c
  OBVIOUS
<1> SUFFICES ASSUME NEW i \in DOMAIN r
             PROVE  Before(r[i], b, e) \subseteq base \cup Prefix(r, i)
  BY DEF Ordered
<1>2. CASE i \in 1..Len(q)
  <2>1. \A j \in 1..(i - 1) : j \in 1..Len(q)
    BY <1>1, <1>2
  <2>2. \A x : x \in Prefix(q, i) => x \in Prefix(r, i)
    BY <1>1, <2>1 DEF Prefix
  <2>3. Before(q[i], b, e) \subseteq base \cup Prefix(q, i)
    BY <1>1, <1>2 DEF Ordered
  <2>4. r[i] = q[i]
    BY <1>1, <1>2
  <2> QED BY <2>2, <2>3, <2>4
<1>3. CASE i = Len(q) + 1
  <2>1. (Len(q) + 1) - 1 = Len(q)
    BY <1>1
  <2>2. \A x : x \in Members(q) => x \in Prefix(r, i)
    BY <1>1, <1>3, <2>1 DEF Members, Prefix
  <2>3. r[i] = c
    BY <1>1, <1>3
  <2> QED BY <2>2, <2>3
<1>4. i \in 1..Len(q) \/ i = Len(q) + 1
  BY <1>1
<1> QED BY <1>2, <1>3, <1>4

LEMMA OrderedTail ==
  ASSUME NEW S, NEW q \in Seq(S), q # <<>>, NEW base, NEW b, NEW e, Ordered(q, base, b, e)
  PROVE  /\ Before(Head(q), b, e) \subseteq base
         /\ Ordered(Tail(q), base \cup {Head(q)}, b, e)
<1>1. /\ Len(q) \in Nat /\ Len(q) >= 1 /\ DOMAIN q = 1..Len(q) /\ Head(q) = q[1]
      /\ DOMAIN Tail(q) = 1..(Len(q) - 1)
      /\ \A i \in 1..(Len(q) - 1) : Tail(q)[i] = q[i + 1]
  OBVIOUS
<1>2. Before(Head(q), b, e) \subseteq base
  <2>1. 1 \in DOMAIN q /\ Prefix(q, 1) = {}
    BY <1>1 DEF Prefix
  <2> QED BY <1>1, <2>1 DEF Ordered
<1>3. ASSUME NEW i \in DOMAIN Tail(q)
      PROVE  Before(Tail(q)[i], b, e) \subseteq (base \cup {Head(q)}) \cup Prefix(Tail(q), i)
  <2>1. i \in Int /\ i + 1 \in DOMAIN q /\ Tail(q)[i] = q[i + 1]
    BY <1>1, <1>3
  <2>2. ASSUME NEW x \in Prefix(q, i + 1) PROVE x = Head(q) \/ x \in Prefix(Tail(q), i)
    <3>1. PICK j \in 1..((i + 1) - 1) : x = q[j]
      BY <2>2 DEF Prefix
    <3>2. CASE j = 1
      BY <1>1, <3>1, <3>2
    <3>3. CASE j # 1
      <4>1. /\ j - 1 \in 1..(i - 1) /\ j - 1 \in 1..(Len(q) - 1)
            /\ (j - 1) + 1 = j
        BY <1>1, <1>3, <2>1, <3>1, <3>3
      <4>2. Tail(q)[j - 1] = q[j]
        BY <1>1, <4>1
      <4> QED BY <3>1, <4>1, <4>2 DEF Prefix
    <3> QED BY <3>2, <3>3
  <2>3. Before(q[i + 1], b, e) \subseteq base \cup Prefix(q, i + 1)
    BY <2>1 DEF Ordered
  <2> QED BY <2>1, <2>2, <2>3
<1> QED BY <1>2, <1>3 DEF Ordered

-----------------------------------------------------------------------------
(* Marks and order.                                                         *)

\* What has left the air, and what has left the bridge.
Took == Members(shown) \cup lost \cup garbled
Sent == Took \cup Members(air)

\* The texts of which no order is expected.
Exempt == spliced \cup {Mixed}

\* A notification about to be marked has been written; the list being walked,
\* what is on its way and what was shown follow each other in order.
MarkInv == marking # 0 => marking \in Sent
OrderInv ==
    /\ \A n \in Members(shown) : Before(n, blank, Exempt) \subseteq Took
    /\ Ordered(air, Took, blank, Exempt)
    /\ Ordered(texts, Sent, blank, Exempt)
IInv == TypeOK /\ MarkInv /\ DeliveredMeansWritten /\ OrderInv

LEMMA SentIs == Sent = Members(shown) \cup Members(air) \cup lost \cup garbled
  BY DEF Sent, Took

LEMMA IInvInit == Init => IInv
<1> SUFFICES ASSUME Init PROVE IInv
  OBVIOUS
<1>1. TypeOK
  BY TypeInit
<1>2. MarkInv
  BY DEF Init, MarkInv
<1>3. DeliveredMeansWritten
  BY DEF Init, DeliveredMeansWritten
<1>4. Members(shown) = {}
  BY EmptyMembers DEF Init
<1>5. OrderInv
  BY <1>4, EmptyOrdered DEF Init, OrderInv
<1> QED BY <1>1, <1>2, <1>3, <1>5 DEF IInv

\* A step that only adds to what was sent and to what was taken, and starts no
\* mark, keeps the marks justified.
LEMMA MarksKept ==
  ASSUME IInv, Sent \subseteq Sent', UNCHANGED <<created, pending>>,
         marking' = marking \/ marking' = 0
  PROVE  MarkInv' /\ DeliveredMeansWritten'
<1>1. MarkInv'
  BY DEF IInv, MarkInv
<1>2. DeliveredMeansWritten'
  BY DEF IInv, DeliveredMeansWritten, Sent, Took
<1> QED BY <1>1, <1>2

LEMMA IInvCreate ==
  ASSUME IInv, NEW hasMessage \in BOOLEAN, CreateNotification(hasMessage)
  PROVE  MarkInv' /\ DeliveredMeansWritten' /\ OrderInv'
<1> USE DEF serverVars, walkVars, linkVars, ackVars
<1>1. /\ created \in Nat /\ created' = created + 1 /\ pending' = pending \cup {created'}
      /\ blank \subseteq blank'
  BY DeliveryAssumption DEF IInv, TypeOK, CreateNotification
<1>2. UNCHANGED <<texts, marking, air, shown, lost, spliced, garbled>>
  BY DEF CreateNotification
<1>3. Took' = Took /\ Sent' = Sent /\ Exempt' = Exempt
  BY <1>2 DEF Took, Sent, Members, Exempt
<1>4. MarkInv'
  BY <1>2, <1>3 DEF IInv, MarkInv
<1>5. \A n \in (1..created') \ pending' : n \in (1..created) \ pending
  BY <1>1
<1>6. DeliveredMeansWritten'
  BY <1>2, <1>5 DEF IInv, DeliveredMeansWritten, Members
<1>7. \A n : Before(n, blank', Exempt) \subseteq Before(n, blank, Exempt)
  BY <1>1 DEF Before
<1>8. \A n \in Members(shown)' : Before(n, blank', Exempt) \subseteq Took'
  BY <1>2, <1>3, <1>7 DEF IInv, OrderInv, Members
<1>9. Ordered(air, Took, blank, Exempt) /\ Ordered(texts, Sent, blank, Exempt)
  BY DEF IInv, OrderInv
<1>10. Ordered(air, Took, blank', Exempt) /\ Ordered(texts, Sent, blank', Exempt)
  BY <1>1, <1>9, OrderedWeaker
<1>11. OrderInv'
  BY <1>2, <1>3, <1>8, <1>10 DEF OrderInv
<1> QED BY <1>4, <1>6, <1>11

LEMMA IInvFetch ==
  ASSUME IInv, FetchPending
  PROVE  MarkInv' /\ DeliveredMeansWritten' /\ OrderInv'
<1> USE DEF serverVars, walkVars, linkVars, ackVars
<1>1. UNCHANGED <<created, blank, pending, marking, air, shown, lost, spliced, garbled>>
  BY DEF FetchPending
<1>2. Took' = Took /\ Sent' = Sent /\ Exempt' = Exempt
  BY <1>1 DEF Took, Sent, Members, Exempt
<1>3. MarkInv' /\ DeliveredMeansWritten'
  BY <1>1, <1>2, MarksKept
<1>4. PICK l \in Listing(pending \ blank) : texts' = l
  BY DEF FetchPending
<1>5. /\ l \in Seq(1..created) /\ DOMAIN l = 1..Len(l) /\ Len(l) \in Nat
      /\ \A n \in pending \ blank : n \in Members(l)
      /\ \A i, j \in DOMAIN l : i < j => l[i] # l[j] /\ ~Earlier(l[j], l[i])
  <2>1. pending \ blank \in SUBSET pending
    OBVIOUS
  <2> QED BY <2>1, ListingType DEF IInv
<1>6. ASSUME NEW i \in DOMAIN l, NEW m \in Before(l[i], blank, Exempt)
      PROVE  m \in Sent \cup Prefix(l, i)
  <2>1. l[i] \in 1..created /\ i \in Nat
    BY <1>5, <1>6, SeqElement
  <2>2. m \in 1..(l[i] - 1) /\ Earlier(m, l[i]) /\ m \notin blank
    BY DEF Before
  <2>3. created \in Int
    BY DEF IInv, TypeOK
  <2>4. m \in 1..created /\ m # l[i]
    BY <2>1, <2>2, <2>3
  <2>5. CASE m \in pending
    <3>1. PICK j \in DOMAIN l : m = l[j]
      BY <1>5, <2>2, <2>5 DEF Members
    <3>2. j \in 1..Len(l) /\ ~(i < j) /\ i # j
      BY <1>5, <2>2, <2>4, <3>1
    <3>3. j \in 1..(i - 1)
      BY <2>1, <3>2
    <3> QED BY <3>1, <3>3 DEF Prefix
  <2>6. CASE m \notin pending
    BY <2>4, <2>6, SentIs DEF IInv, DeliveredMeansWritten
  <2> QED BY <2>5, <2>6
<1>7. Ordered(l, Sent, blank, Exempt)
  BY <1>6 DEF Ordered
<1>8. OrderInv'
  BY <1>1, <1>2, <1>4, <1>7 DEF IInv, OrderInv, Members
<1> QED BY <1>3, <1>8

\* Of the texts of a spliced answer no order is expected.
LEMMA IInvSpliced ==
  ASSUME IInv, FetchSpliced
  PROVE  MarkInv' /\ DeliveredMeansWritten' /\ OrderInv'
<1> USE DEF serverVars, walkVars, linkVars, ackVars
<1>1. /\ UNCHANGED <<created, blank, pending, marking, air, shown, lost, garbled>>
      /\ spliced' = spliced \cup Members(texts')
  BY DEF FetchSpliced
<1>2. /\ Took' = Took /\ Sent' = Sent /\ Exempt \subseteq Exempt'
      /\ Members(texts') \subseteq Exempt' /\ Members(shown)' = Members(shown)
  BY <1>1 DEF Took, Sent, Members, Exempt
<1>3. MarkInv' /\ DeliveredMeansWritten'
  BY <1>1, <1>2, MarksKept
<1>4. Ordered(air, Took, blank, Exempt')
  <2>1. Ordered(air, Took, blank, Exempt)
    BY DEF IInv, OrderInv
  <2> QED BY <1>2, <2>1, OrderedWeaker
<1>5. Ordered(texts', Sent, blank, Exempt')
  <2>1. \A i \in DOMAIN texts' : texts'[i] \in Exempt'
    BY <1>2 DEF Members
  <2> QED BY <2>1 DEF Ordered, Before
<1>6. \A n \in Members(shown)' : Before(n, blank, Exempt') \subseteq Took'
  <2>1. \A n : Before(n, blank, Exempt') \subseteq Before(n, blank, Exempt)
    BY <1>2 DEF Before
  <2> QED BY <1>2, <2>1 DEF IInv, OrderInv
<1>7. OrderInv'
  BY <1>1, <1>2, <1>4, <1>5, <1>6 DEF OrderInv
<1> QED BY <1>3, <1>7

LEMMA IInvSend ==
  ASSUME IInv, NEW accepted \in BOOLEAN, SendNotification(accepted)
  PROVE  MarkInv' /\ DeliveredMeansWritten' /\ OrderInv'
<1> USE DEF serverVars, walkVars, linkVars, ackVars
<1> DEFINE h == Head(texts)
<1>1. texts \in Seq(0..created) /\ air \in Seq(0..created) /\ texts # <<>>
  <2>1. /\ todo \in Seq(1..created) /\ texts \in Seq(0..created) /\ air \in Seq(0..created)
        /\ todo # <<>> /\ Len(texts) = Len(todo)
    BY DEF IInv, TypeOK, SendNotification
  <2> QED BY <2>1
<1>2. h \in 0..created
  BY <1>1, TailMembers
<1>3. /\ marking' = Head(todo) /\ texts' = Tail(texts)
      /\ garbled \subseteq garbled' /\ (h = Head(todo) \/ Head(todo) \in garbled')
      /\ UNCHANGED <<created, blank, pending, shown, spliced>>
  BY DEF SendNotification
<1>4. Ordered(air, Took, blank, Exempt) /\ Ordered(texts, Sent, blank, Exempt)
  BY DEF IInv, OrderInv
<1>5. /\ Before(h, blank, Exempt) \subseteq Sent
      /\ Ordered(Tail(texts), Sent \cup {h}, blank, Exempt)
  BY <1>1, <1>4, OrderedTail
<1>6. Exempt' = Exempt
  BY <1>3 DEF Exempt
<1>7. /\ Took \subseteq Took' /\ Sent \cup {h} \subseteq Sent'
      /\ Ordered(air', Took', blank, Exempt)
  <2>1. CASE accepted
    <3>1. air' = Append(air, h) /\ lost' = lost
      BY <2>1 DEF SendNotification
    <3>2. Members(air') = Members(air) \cup {h}
      BY <1>1, <1>2, <3>1, AppendMembers
    <3>3. Took \subseteq Took'
      BY <1>3, <3>1 DEF Took, Members
    <3>4. Members(air)' = Members(air')
      BY DEF Members
    <3>5. Before(h, blank, Exempt) \subseteq Took \cup Members(air)
      BY <1>5 DEF Sent
    <3>6. Ordered(Append(air, h), Took, blank, Exempt)
      BY <1>1, <1>2, <1>4, <3>5, OrderedAppend
    <3>7. Ordered(Append(air, h), Took', blank, Exempt)
      BY <3>3, <3>6, OrderedWeaker
    <3> QED BY <3>1, <3>2, <3>3, <3>4, <3>7 DEF Sent
  <2>2. CASE ~accepted
    <3>1. air' = air /\ lost' = lost \cup {h}
      BY <2>2 DEF SendNotification
    <3>2. Took \cup {h} \subseteq Took' /\ Members(air)' = Members(air)
      BY <1>3, <3>1 DEF Took, Members
    <3>3. Ordered(air, Took', blank, Exempt)
      BY <1>4, <3>2, OrderedWeaker
    <3> QED BY <3>1, <3>2, <3>3 DEF Sent
  <2> QED BY <2>1, <2>2
<1>8. MarkInv'
  BY <1>3, <1>7 DEF MarkInv, Sent, Took
<1>9. DeliveredMeansWritten'
  <2>1. \A n \in (1..created) \ pending : n \in Sent
    BY SentIs DEF IInv, DeliveredMeansWritten
  <2>2. Sent' = Members(shown)' \cup Members(air)' \cup lost' \cup garbled'
    BY DEF Sent, Took
  <2> QED BY <1>3, <1>7, <2>1, <2>2 DEF DeliveredMeansWritten
<1>10. \A n \in Members(shown)' : Before(n, blank, Exempt) \subseteq Took'
  BY <1>3, <1>7 DEF IInv, OrderInv, Members
<1>11. Ordered(Tail(texts), Sent', blank, Exempt)
  BY <1>5, <1>7, OrderedWeaker
<1>12. OrderInv'
  BY <1>3, <1>6, <1>7, <1>10, <1>11 DEF OrderInv
<1> QED BY <1>8, <1>9, <1>12

LEMMA IInvMark ==
  ASSUME IInv, NEW arrives \in BOOLEAN, MarkDelivered(arrives)
  PROVE  MarkInv' /\ DeliveredMeansWritten' /\ OrderInv'
<1> USE DEF serverVars, walkVars, linkVars, ackVars
<1>1. /\ marking # 0 /\ marking' = 0 /\ pending \ {marking} \subseteq pending'
      /\ UNCHANGED <<created, blank, texts, air, shown, lost, spliced, garbled>>
  <2>1. marking # 0 /\ marking' = 0 /\ UNCHANGED <<created, blank, texts, air, shown, lost, spliced, garbled>>
    BY DEF MarkDelivered
  <2>2. pending \ {marking} \subseteq pending'
    <3>1. CASE arrives
      BY <3>1 DEF MarkDelivered
    <3>2. CASE ~arrives
      BY <3>2 DEF MarkDelivered
    <3> QED BY <3>1, <3>2
  <2> QED BY <2>1, <2>2
<1>2. /\ Took' = Took /\ Sent' = Sent /\ Exempt' = Exempt
      /\ Members(shown)' = Members(shown)
  BY <1>1 DEF Took, Sent, Members, Exempt
<1>3. MarkInv'
  BY <1>1 DEF MarkInv
<1>4. ASSUME NEW n \in (1..created) \ pending' PROVE n \in Sent
  <2>1. n = marking \/ n \notin pending
    BY <1>1, <1>4
  <2> QED BY <1>1, <2>1, SentIs DEF IInv, MarkInv, DeliveredMeansWritten
<1>5. DeliveredMeansWritten'
  BY <1>1, <1>2, <1>4 DEF DeliveredMeansWritten, Sent, Took
<1>6. OrderInv'
  BY <1>1, <1>2 DEF IInv, OrderInv
<1> QED BY <1>3, <1>5, <1>6

LEMMA IInvShows ==
  ASSUME IInv, WatchShows
  PROVE  MarkInv' /\ DeliveredMeansWritten' /\ OrderInv'
<1> USE DEF serverVars, walkVars, linkVars, ackVars
<1> DEFINE h == Head(air)
<1>1. /\ air \in Seq(0..created) /\ shown \in Seq(0..created) /\ air # <<>>
  BY DEF IInv, TypeOK, WatchShows
<1>2. /\ air' = Tail(air) /\ shown' = Append(shown, h)
      /\ UNCHANGED <<created, blank, pending, texts, marking, lost, spliced, garbled>>
  BY DEF WatchShows
<1>3. h \in 0..created /\ Members(air) = {h} \cup Members(Tail(air))
  BY <1>1, TailMembers
<1>4. Members(Append(shown, h)) = Members(shown) \cup {h}
  BY <1>1, <1>3, AppendMembers
<1>5. Members(shown)' = Members(shown) \cup {h} /\ Members(air)' = Members(Tail(air))
  BY <1>2, <1>4 DEF Members
<1>6. Took' = Took \cup {h} /\ Sent' = Sent /\ Exempt' = Exempt
  BY <1>2, <1>3, <1>5 DEF Took, Sent, Exempt
<1>7. MarkInv' /\ DeliveredMeansWritten'
  BY <1>2, <1>6, MarksKept
<1>8. Ordered(air, Took, blank, Exempt)
  BY DEF IInv, OrderInv
<1>9. /\ Before(h, blank, Exempt) \subseteq Took
      /\ Ordered(Tail(air), Took \cup {h}, blank, Exempt)
  BY <1>1, <1>8, OrderedTail
<1>10. \A n \in Members(shown)' : Before(n, blank, Exempt) \subseteq Took'
  BY <1>5, <1>6, <1>9 DEF IInv, OrderInv
<1>11. Ordered(texts, Sent', blank, Exempt)
  BY <1>6 DEF IInv, OrderInv
<1>12. OrderInv'
  BY <1>2, <1>6, <1>9, <1>10, <1>11 DEF OrderInv
<1> QED BY <1>7, <1>12

\* Losing the link, or the bridge, only moves what is on its way to what is lost.
LEMMA IInvCut ==
  ASSUME IInv, air' = <<>>, lost' = lost \cup Members(air),
         UNCHANGED <<created, blank, pending, shown, spliced, garbled>>,
         \/ UNCHANGED <<texts, marking>>
         \/ texts' = <<>> /\ marking' = 0
  PROVE  MarkInv' /\ DeliveredMeansWritten' /\ OrderInv'
<1>1. Members(air)' = {} /\ Members(shown)' = Members(shown)
  BY EmptyMembers DEF Members
<1>2. Took' = Sent /\ Sent' = Sent /\ Exempt' = Exempt
  BY <1>1 DEF Took, Sent, Exempt
<1>3. MarkInv' /\ DeliveredMeansWritten'
  BY <1>2, MarksKept
<1>4. \A n \in Members(shown)' : Before(n, blank, Exempt) \subseteq Took'
  BY <1>1, <1>2 DEF IInv, OrderInv, Sent
<1>5. Ordered(air', Took', blank, Exempt)
  BY EmptyOrdered
<1>6. Ordered(texts', Sent', blank, Exempt)
  BY <1>2, EmptyOrdered DEF IInv, OrderInv
<1>7. OrderInv'
  BY <1>2, <1>4, <1>5, <1>6 DEF OrderInv
<1> QED BY <1>3, <1>7

LEMMA IInvStep == IInv /\ [Next]_vars => IInv'
<1> SUFFICES ASSUME IInv, [Next]_vars PROVE IInv'
  OBVIOUS
<1> USE DEF serverVars, walkVars, linkVars, ackVars
<1>1. SUFFICES MarkInv' /\ DeliveredMeansWritten' /\ OrderInv'
  <2>1. TypeOK'
    BY TypeStep DEF IInv
  <2> QED BY <2>1 DEF IInv
<1>2. ASSUME UNCHANGED <<created, blank, pending, texts, marking, air, shown, lost, spliced,
                         garbled>>
      PROVE  MarkInv' /\ DeliveredMeansWritten' /\ OrderInv'
  <2>1. /\ Took' = Took /\ Sent' = Sent /\ Exempt' = Exempt
        /\ Members(shown)' = Members(shown) /\ Members(air)' = Members(air)
    BY <1>2 DEF Took, Sent, Members, Exempt
  <2>2. MarkInv' /\ DeliveredMeansWritten'
    BY <1>2, <2>1, MarksKept
  <2>3. OrderInv'
    BY <1>2, <2>1 DEF IInv, OrderInv
  <2> QED BY <2>2, <2>3
<1>3. ASSUME NEW hasMessage \in BOOLEAN, CreateNotification(hasMessage)
      PROVE  MarkInv' /\ DeliveredMeansWritten' /\ OrderInv'
  BY <1>3, IInvCreate
<1>4. CASE FetchPending
  BY <1>4, IInvFetch
<1>5. ASSUME NEW accepted \in BOOLEAN, SendNotification(accepted)
      PROVE  MarkInv' /\ DeliveredMeansWritten' /\ OrderInv'
  BY <1>5, IInvSend
<1>6. ASSUME NEW arrives \in BOOLEAN, MarkDelivered(arrives)
      PROVE  MarkInv' /\ DeliveredMeansWritten' /\ OrderInv'
  BY <1>6, IInvMark
<1>7. CASE WatchShows
  BY <1>7, IInvShows
<1>8. CASE WatchDismisses \/ AckNotified \/ Connected \/ LinkLost
  BY <1>2, <1>8 DEF WatchDismisses, AckNotified, Connected, LinkLost
<1>9. CASE Disconnected
  BY <1>9, IInvCut DEF Disconnected
<1>10. CASE BridgeReboots
  BY <1>10, IInvCut DEF BridgeReboots
<1>11. CASE UNCHANGED vars
  BY <1>2, <1>11 DEF vars
<1>12. CASE FetchSpliced
  BY <1>12, IInvSpliced
<1> QED
  BY <1>12, <1>3, <1>4, <1>5, <1>6, <1>7, <1>8, <1>9, <1>10, <1>11 DEF Next

\* The mark on the server is set after the write, for any number of notifications
\* and faults: poll_api_ loses none between its write and its mark.
THEOREM DeliveredAlwaysWritten == Spec => []DeliveredMeansWritten
<1>1. IInv => DeliveredMeansWritten
  BY DEF IInv
<1> QED BY <1>1, IInvInit, IInvStep, PTL DEF Spec

\* The watch shows notifications of different seconds in the order they were queued
\* (ORDER BY created_at, sqlite.go:357), whatever the link does, wherever in its
\* list the bridge restarts and however overfull answers are spliced, but for the
\* texts that such an answer carried.
THEOREM AlwaysShownInOrder == Spec => []ShownInOrder
<1>1. IInv => ShownInOrder
  <2> SUFFICES ASSUME IInv, NEW n \in Members(shown) \ (spliced \cup {Mixed}),
                      NEW m \in 1..(n - 1), Earlier(m, n)
               PROVE  m \in blank \cup Members(shown) \cup lost \cup garbled
    BY DEF ShownInOrder
  <2>1. Before(n, blank, Exempt) \subseteq Took
    BY DEF IInv, OrderInv
  <2>2. m \in blank \/ m \in Before(n, blank, Exempt)
    BY DEF Before, Exempt
  <2> QED BY <2>1, <2>2 DEF Took
<1> QED BY <1>1, IInvInit, IInvStep, PTL DEF Spec

-----------------------------------------------------------------------------
(* How often a notification is in a sequence.                               *)

Places(q, n) == {i \in DOMAIN q : q[i] = n}
Times(q, n) == Cardinality(Places(q, n))

LEMMA PlacesFinite ==
  ASSUME NEW S, NEW q \in Seq(S), NEW n
  PROVE  IsFiniteSet(Places(q, n)) /\ Times(q, n) \in Nat
<1>1. DOMAIN q = 1..Len(q) /\ Len(q) \in Int /\ 1 \in Int
  OBVIOUS
<1>2. \A a, b \in Int : IsFiniteSet(a..b)
  BY FS_Interval
<1>3. IsFiniteSet(DOMAIN q) /\ Places(q, n) \subseteq DOMAIN q
  BY <1>1, <1>2 DEF Places
<1> QED BY <1>3, FS_Subset, FS_CardinalityType DEF Times

LEMMA TimesNone ==
  ASSUME NEW q, NEW n, n \notin Members(q)
  PROVE  Times(q, n) = 0
<1>1. Places(q, n) = {}
  BY DEF Places, Members
<1> QED BY <1>1, FS_EmptySet DEF Times

LEMMA TimesAppend ==
  ASSUME NEW S, NEW q \in Seq(S), NEW c \in S, NEW n
  PROVE  Times(Append(q, c), n) = Times(q, n) + (IF c = n THEN 1 ELSE 0)
<1> DEFINE r == Append(q, c)
           k == Len(q) + 1
<1>1. /\ DOMAIN q = 1..Len(q) /\ Len(q) \in Nat
      /\ DOMAIN r = 1..(Len(q) + 1)
      /\ r[Len(q) + 1] = c
      /\ \A i \in 1..Len(q) : r[i] = q[i]
  OBVIOUS
<1>2. DOMAIN r = DOMAIN q \cup {k} /\ k \notin DOMAIN q
  BY <1>1
<1>3. \A i \in DOMAIN q : r[i] = q[i]
  BY <1>1
<1>4. r[k] = c
  BY <1>1
<1>5. IsFiniteSet(Places(q, n)) /\ Times(q, n) \in Nat
  BY PlacesFinite
<1> HIDE DEF r, k
<1>6. CASE c = n
  <2>1. Places(r, n) = Places(q, n) \cup {k} /\ k \notin Places(q, n)
    BY <1>2, <1>3, <1>4, <1>6 DEF Places
  <2>2. Times(r, n) = Times(q, n) + 1
    BY <1>5, <2>1, FS_AddElement DEF Times
  <2> QED BY <1>6, <2>2 DEF r
<1>7. CASE c # n
  <2>1. Places(r, n) = Places(q, n)
    BY <1>2, <1>3, <1>4, <1>7 DEF Places
  <2>2. Times(r, n) = Times(q, n)
    BY <2>1 DEF Times
  <2> QED BY <1>5, <1>7, <2>2 DEF r
<1> QED BY <1>6, <1>7

LEMMA TimesTail ==
  ASSUME NEW S, NEW q \in Seq(S), q # <<>>, NEW n
  PROVE  Times(q, n) = Times(Tail(q), n) + (IF Head(q) = n THEN 1 ELSE 0)
<1> DEFINE t == Tail(q)
           A == Places(t, n)
           B == Places(q, n) \ {1}
           f == [j \in A |-> j + 1]
<1>1. /\ Len(q) \in Nat /\ Len(q) >= 1 /\ DOMAIN q = 1..Len(q)
      /\ t \in Seq(S) /\ DOMAIN t = 1..(Len(q) - 1)
      /\ \A i \in 1..(Len(q) - 1) : t[i] = q[i + 1]
      /\ Head(q) = q[1]
  OBVIOUS
<1>2. IsFiniteSet(A) /\ IsFiniteSet(Places(q, n)) /\ Times(t, n) \in Nat
  BY <1>1, PlacesFinite
<1>3. A \subseteq 1..(Len(q) - 1)
  BY <1>1 DEF Places
<1>4. \A j \in A : j \in Int /\ f[j] \in B
  BY <1>1, <1>3 DEF Places
<1>5. \A a, b \in A : f[a] = f[b] => a = b
  BY <1>4
<1>6. ASSUME NEW i \in B PROVE \E j \in A : f[j] = i
  <2>1. i \in 1..Len(q) /\ i # 1 /\ q[i] = n
    BY <1>1 DEF Places
  <2>2. i - 1 \in 1..(Len(q) - 1) /\ (i - 1) + 1 = i
    BY <1>1, <2>1
  <2>3. i - 1 \in A
    BY <1>1, <2>1, <2>2 DEF Places
  <2> QED BY <2>2, <2>3
<1>7. f \in Bijection(A, B)
  BY <1>4, <1>5, <1>6 DEF Bijection, Injection, Surjection, IsInjective
<1>8. IsFiniteSet(B) /\ Cardinality(B) = Cardinality(A)
  BY <1>2, <1>7, FS_Bijection DEF ExistsBijection
<1>9. 1 \in DOMAIN q
  BY <1>1
<1>10. CASE Head(q) = n
  <2>1. Places(q, n) = B \cup {1} /\ 1 \notin B
    BY <1>1, <1>9, <1>10 DEF Places
  <2>2. Cardinality(Places(q, n)) = Cardinality(B) + 1
    BY <1>8, <2>1, FS_AddElement
  <2> QED BY <1>8, <1>10, <2>2 DEF Times
<1>11. CASE Head(q) # n
  <2>1. Places(q, n) = B
    BY <1>1, <1>11 DEF Places
  <2>2. Times(q, n) = Times(t, n)
    BY <1>8, <2>1 DEF Times
  <2> QED BY <1>2, <1>11, <2>2
<1> QED BY <1>10, <1>11

-----------------------------------------------------------------------------
(* Marks that are lost.                                                     *)

\* A notification may be written once for its row and once for each lost mark:
\* whoever has it already, and the row that is still to be written, share these.
Owed(n) == IF n \in pending \ {marking} THEN 1 ELSE 0
TokenInv ==
    \A n \in (1..created) \ spliced :
        Times(shown, n) + Times(air, n) + Owed(n) <= 1 + lapses

\* The rest of the list is pending, each row once, and not the one being marked;
\* its texts are those of its rows, unless the answer was spliced.
TodoInv ==
    /\ \A i \in DOMAIN todo : todo[i] \in pending \ {marking}
    /\ \A i, j \in DOMAIN todo : i < j => todo[i] # todo[j]
    /\ \A i \in DOMAIN texts : texts[i] \in spliced \/ texts[i] = todo[i]

OnceInv == TypeOK /\ TodoInv /\ TokenInv

LEMMA TimesType ==
  ASSUME TypeOK, NEW n
  PROVE  Times(shown, n) \in Nat /\ Times(air, n) \in Nat /\ lapses \in Nat
<1>1. shown \in Seq(0..created) /\ air \in Seq(0..created)
  BY DEF TypeOK
<1>2. lapses \in Nat
  BY DEF TypeOK
<1> QED BY <1>1, <1>2, PlacesFinite

LEMMA OnceInit == Init => OnceInv
<1> SUFFICES ASSUME Init PROVE OnceInv
  OBVIOUS
<1>1. TodoInv
  BY DEF Init, TodoInv
<1>2. 1..created = {}
  BY DEF Init
<1>3. TokenInv
  BY <1>2 DEF TokenInv
<1> QED BY <1>1, <1>3, TypeInit DEF OnceInv

\* What leaves the air without being shown, and what becomes a lapse, leaves room.
LEMMA TokensKept ==
  ASSUME OnceInv, TypeOK', UNCHANGED <<created, shown>>, spliced \subseteq spliced',
         air' = air \/ air' = <<>>,
         lapses' >= lapses,
         \A n \in 1..created : lapses' > lapses \/ (Owed(n)' = 1 => Owed(n) = 1)
  PROVE  TokenInv'
<1> SUFFICES ASSUME NEW n \in (1..created) \ spliced'
             PROVE  Times(shown, n)' + Times(air, n)' + Owed(n)' <= 1 + lapses'
  BY DEF TokenInv
<1>1. Times(shown, n) + Times(air, n) + Owed(n) <= 1 + lapses
  BY DEF OnceInv, TokenInv
<1>2. Times(shown, n) \in Nat /\ Times(air, n) \in Nat /\ lapses \in Nat
  BY TimesType DEF OnceInv
<1>3. lapses' \in Nat
  BY DEF TypeOK
<1>4. Times(shown, n)' = Times(shown, n)
  BY DEF Times, Places
<1>5. Times(air, n)' = Times(air, n) \/ Times(air, n)' = 0
  <2>1. CASE air' = air
    BY <2>1 DEF Times, Places
  <2>2. CASE air' = <<>>
    <3>1. n \notin Members(<<>>)
      BY EmptyMembers
    <3>2. Times(<<>>, n) = 0
      BY <3>1, TimesNone
    <3> QED BY <2>2, <3>2 DEF Times, Places
  <2> QED BY <2>1, <2>2
<1>6. Owed(n) \in {0, 1} /\ Owed(n)' \in {0, 1}
  BY DEF Owed
<1>7. lapses' > lapses \/ (Owed(n)' = 1 => Owed(n) = 1)
  OBVIOUS
<1> QED BY <1>1, <1>2, <1>3, <1>4, <1>5, <1>6, <1>7

LEMMA OnceCreate ==
  ASSUME OnceInv, NEW hasMessage \in BOOLEAN, CreateNotification(hasMessage)
  PROVE  TodoInv' /\ TokenInv'
<1> USE DEF serverVars, walkVars, linkVars, ackVars
<1>1. /\ created \in Nat /\ created' = created + 1 /\ pending' = pending \cup {created'}
      /\ pending \subseteq 1..created /\ marking \in 0..created
  BY DeliveryAssumption DEF OnceInv, TypeOK, CreateNotification
<1>2. UNCHANGED <<todo, texts, marking, lapses, air, shown, spliced>>
  BY DEF CreateNotification
<1>3. TodoInv'
  BY <1>1, <1>2 DEF OnceInv, TodoInv
<1> SUFFICES ASSUME NEW n \in (1..created') \ spliced
             PROVE  Times(shown, n)' + Times(air, n)' + Owed(n)' <= 1 + lapses'
  BY <1>2, <1>3 DEF TokenInv
<1>4. Times(shown, n)' = Times(shown, n) /\ Times(air, n)' = Times(air, n)
  BY <1>2 DEF Times, Places
<1>5. Times(shown, n) \in Nat /\ Times(air, n) \in Nat /\ lapses \in Nat
  BY TimesType DEF OnceInv
<1>6. CASE n \in 1..created
  <2>1. Owed(n)' = Owed(n)
    BY <1>1, <1>2, <1>6 DEF Owed
  <2>2. Times(shown, n) + Times(air, n) + Owed(n) <= 1 + lapses
    BY <1>6 DEF OnceInv, TokenInv
  <2> QED BY <1>2, <1>4, <2>1, <2>2
<1>7. CASE n \notin 1..created
  <2>1. Members(shown) \subseteq 0..created /\ Members(air) \subseteq 0..created
    BY MembersType DEF OnceInv, TypeOK
  <2>2. n \notin 0..created
    BY <1>1, <1>7
  <2>4. Times(shown, n) = 0 /\ Times(air, n) = 0
    BY <2>1, <2>2, TimesNone
  <2>3. Owed(n)' \in {0, 1}
    BY DEF Owed
  <2> QED BY <1>2, <1>4, <1>5, <2>3, <2>4
<1> QED BY <1>6, <1>7

LEMMA OnceFetch ==
  ASSUME OnceInv, TypeOK', FetchPending
  PROVE  TodoInv' /\ TokenInv'
<1> USE DEF serverVars, walkVars, linkVars, ackVars
<1>1. /\ UNCHANGED <<created, pending, marking, lapses, air, shown, spliced>> /\ marking = 0
      /\ texts' = todo'
  BY DEF FetchPending, MainTask
<1>2. PICK l \in Listing(pending \ blank) : todo' = l
  BY DEF FetchPending
<1>3. \A i, j \in DOMAIN l : i < j => l[i] # l[j]
  BY DEF Listing
<1>4. \A i \in DOMAIN l : l[i] \in pending \ blank
  BY DEF Listing
<1>5. 0 \notin pending
  BY DEF OnceInv, TypeOK
<1>6. TodoInv'
  BY <1>1, <1>2, <1>3, <1>4, <1>5 DEF TodoInv
<1>7. lapses \in Nat /\ \A n : Owed(n)' = Owed(n)
  BY <1>1 DEF OnceInv, TypeOK, Owed
<1>8. TokenInv'
  BY <1>1, <1>7, TokensKept
<1> QED BY <1>6, <1>8

LEMMA OnceSpliced ==
  ASSUME OnceInv, TypeOK', FetchSpliced
  PROVE  TodoInv' /\ TokenInv'
<1> USE DEF serverVars, walkVars, linkVars, ackVars
<1>1. /\ UNCHANGED <<created, pending, marking, lapses, air, shown>> /\ marking = 0
      /\ spliced' = spliced \cup Members(texts')
  BY DEF FetchSpliced, MainTask
<1>2. PICK k \in Nat : /\ todo' \in [1..k -> pending]
                       /\ \A i, j \in 1..k : i < j => todo'[i] # todo'[j]
  BY SplicedType DEF OnceInv
<1>3. DOMAIN todo' = 1..k /\ \A i \in 1..k : todo'[i] \in pending
  BY <1>2
<1>4. 0 \notin pending
  BY DEF OnceInv, TypeOK
<1>5. \A i \in DOMAIN texts' : texts'[i] \in spliced'
  BY <1>1 DEF Members
<1>6. TodoInv'
  BY <1>1, <1>2, <1>3, <1>4, <1>5 DEF TodoInv
<1>7. lapses \in Nat /\ \A n : Owed(n)' = Owed(n)
  BY <1>1 DEF OnceInv, TypeOK, Owed
<1>8. TokenInv'
  BY <1>1, <1>7, TokensKept
<1> QED BY <1>6, <1>8

LEMMA HeadAndTail ==
  ASSUME NEW S, NEW q \in Seq(S), q # <<>>
  PROVE  /\ Len(q) \in Nat /\ Len(q) >= 1 /\ DOMAIN q = 1..Len(q)
         /\ Head(q) = q[1] /\ Head(q) \in S /\ DOMAIN Tail(q) = 1..(Len(q) - 1)
         /\ \A i \in 1..(Len(q) - 1) : Tail(q)[i] = q[i + 1] /\ Tail(q)[i] \in S
  OBVIOUS

LEMMA OnceSend ==
  ASSUME OnceInv, NEW accepted \in BOOLEAN, SendNotification(accepted)
  PROVE  TodoInv' /\ TokenInv'
<1> USE DEF serverVars, walkVars, linkVars, ackVars
<1> DEFINE d == Head(todo)
           t == Tail(todo)
           h == Head(texts)
           x == Tail(texts)
<1>1. /\ todo \in Seq(1..created) /\ air \in Seq(0..created) /\ todo # <<>> /\ marking = 0
      /\ texts \in Seq(0..created) /\ Len(texts) = Len(todo)
  BY DEF OnceInv, TypeOK, SendNotification
<1>2. /\ marking' = d /\ todo' = t /\ texts' = x
      /\ UNCHANGED <<created, pending, lapses, shown, spliced>>
  BY DEF SendNotification
<1>3. /\ Len(todo) \in Nat /\ Len(todo) >= 1 /\ DOMAIN todo = 1..Len(todo)
      /\ d = todo[1] /\ d \in 1..created /\ DOMAIN t = 1..(Len(todo) - 1)
      /\ \A i \in 1..(Len(todo) - 1) : t[i] = todo[i + 1] /\ t[i] \in 1..created
  BY <1>1, HeadAndTail
<1>14. /\ DOMAIN texts = 1..Len(todo)
       /\ h = texts[1] /\ h \in 0..created /\ DOMAIN x = 1..(Len(todo) - 1)
       /\ \A i \in 1..(Len(todo) - 1) : x[i] = texts[i + 1] /\ x[i] \in 0..created
  <2>1. texts # <<>>
    BY <1>1
  <2> QED BY <1>1, <2>1, HeadAndTail
<1>4. d \in pending /\ d # 0 /\ (h \in spliced \/ h = d)
  BY <1>1, <1>3, <1>14 DEF OnceInv, TodoInv
<1>5. ASSUME NEW i \in DOMAIN t PROVE t[i] \in pending \ {d}
  <2>1. i + 1 \in DOMAIN todo /\ t[i] = todo[i + 1] /\ 1 \in DOMAIN todo /\ 1 < i + 1
    BY <1>3, <1>5
  <2>2. todo[i + 1] \in pending /\ todo[1] # todo[i + 1]
    BY <2>1 DEF OnceInv, TodoInv
  <2> QED BY <1>3, <2>1, <2>2
<1>6. ASSUME NEW i \in DOMAIN t, NEW j \in DOMAIN t, i < j PROVE t[i] # t[j]
  <2>1. /\ i + 1 \in DOMAIN todo /\ j + 1 \in DOMAIN todo /\ i + 1 < j + 1
        /\ t[i] = todo[i + 1] /\ t[j] = todo[j + 1]
    BY <1>3, <1>6
  <2> QED BY <2>1 DEF OnceInv, TodoInv
<1>15. ASSUME NEW i \in DOMAIN x  PROVE x[i] \in spliced \/ x[i] = t[i]
  <2>1. i + 1 \in DOMAIN texts /\ x[i] = texts[i + 1] /\ t[i] = todo[i + 1]
    BY <1>3, <1>14, <1>15
  <2> QED BY <2>1 DEF OnceInv, TodoInv
<1>7. TodoInv'
  <2> HIDE DEF d, t, h, x
  <2> QED BY <1>2, <1>5, <1>6, <1>15 DEF TodoInv
<1> SUFFICES ASSUME NEW n \in (1..created) \ spliced
             PROVE  Times(shown, n)' + Times(air, n)' + Owed(n)' <= 1 + lapses'
  BY <1>2, <1>7 DEF TokenInv
<1>8. Times(shown, n) + Times(air, n) + Owed(n) <= 1 + lapses
  BY DEF OnceInv, TokenInv
<1>9. Times(shown, n) \in Nat /\ Times(air, n) \in Nat /\ lapses \in Nat
  BY TimesType DEF OnceInv
<1>10. Times(shown, n)' = Times(shown, n)
  BY <1>2 DEF Times, Places
<1>11. Times(air, n)' \in {Times(air, n), Times(air, n) + (IF h = n THEN 1 ELSE 0)}
  <2>1. CASE accepted
    <3>1. air' = Append(air, h)
      BY <2>1 DEF SendNotification
    <3>2. Times(Append(air, h), n) = Times(air, n) + (IF h = n THEN 1 ELSE 0)
      BY <1>1, <1>14, TimesAppend
    <3> QED BY <3>1, <3>2 DEF Times, Places
  <2>2. CASE ~accepted
    BY <2>2 DEF SendNotification, Times, Places
  <2> QED BY <2>1, <2>2
<1>12. CASE h = n
  <2>1. d = n
    BY <1>4, <1>12
  <2>2. Owed(n) = 1 /\ Owed(n)' = 0
    BY <1>1, <1>2, <1>4, <2>1 DEF Owed
  <2> QED BY <1>2, <1>8, <1>9, <1>10, <1>11, <1>12, <2>2
<1>13. CASE h # n
  <2>1. Owed(n) \in {0, 1} /\ Owed(n)' \in {0, 1} /\ (Owed(n)' = 1 => Owed(n) = 1)
    BY <1>1, <1>2, <1>4 DEF Owed
  <2> QED BY <1>2, <1>8, <1>9, <1>10, <1>11, <1>13, <2>1
<1> QED BY <1>12, <1>13

LEMMA OnceMark ==
  ASSUME OnceInv, TypeOK', NEW arrives \in BOOLEAN, MarkDelivered(arrives)
  PROVE  TodoInv' /\ TokenInv'
<1> USE DEF serverVars, walkVars, linkVars, ackVars
<1>1. /\ marking' = 0 /\ pending \ {marking} \subseteq pending' /\ 0 \notin pending
      /\ UNCHANGED <<created, todo, texts, air, shown, spliced>>
  <2>1. marking' = 0 /\ UNCHANGED <<created, todo, texts, air, shown, spliced>>
    BY DEF MarkDelivered
  <2>2. 0 \notin pending
    BY DEF OnceInv, TypeOK
  <2>3. CASE arrives
    BY <2>1, <2>2, <2>3 DEF MarkDelivered
  <2>4. CASE ~arrives
    BY <2>1, <2>2, <2>4 DEF MarkDelivered
  <2> QED BY <2>3, <2>4
<1>2. TodoInv'
  BY <1>1 DEF OnceInv, TodoInv
<1>3. lapses' >= lapses /\ \A n : lapses' > lapses \/ (Owed(n)' = 1 => Owed(n) = 1)
  <2>1. lapses \in Nat
    BY DEF OnceInv, TypeOK
  <2>2. CASE arrives
    <3>1. lapses' = lapses /\ pending' = pending \ {marking}
      BY <2>2 DEF MarkDelivered
    <3>2. \A n : Owed(n)' = 1 => Owed(n) = 1
      BY <3>1 DEF Owed
    <3> QED BY <2>1, <3>1, <3>2
  <2>3. CASE ~arrives
    BY <2>1, <2>3 DEF MarkDelivered
  <2> QED BY <2>2, <2>3
<1>4. TokenInv'
  BY <1>1, <1>3, TokensKept
<1> QED BY <1>2, <1>4

LEMMA OnceShows ==
  ASSUME OnceInv, WatchShows
  PROVE  TodoInv' /\ TokenInv'
<1> USE DEF serverVars, walkVars, linkVars, ackVars
<1> DEFINE h == Head(air)
<1>1. /\ air \in Seq(0..created) /\ shown \in Seq(0..created) /\ air # <<>>
  BY DEF OnceInv, TypeOK, WatchShows
<1>2. /\ air' = Tail(air) /\ shown' = Append(shown, h)
      /\ UNCHANGED <<created, pending, todo, texts, marking, lapses, spliced>>
  BY DEF WatchShows
<1>3. h \in 0..created
  BY <1>1, TailMembers
<1>4. TodoInv'
  BY <1>2 DEF OnceInv, TodoInv
<1> SUFFICES ASSUME NEW n \in (1..created) \ spliced
             PROVE  Times(shown, n)' + Times(air, n)' + Owed(n)' <= 1 + lapses'
  BY <1>2, <1>4 DEF TokenInv
<1>5. Times(shown, n) + Times(air, n) + Owed(n) <= 1 + lapses
  BY DEF OnceInv, TokenInv
<1>6. Times(Append(shown, h), n) = Times(shown, n) + (IF h = n THEN 1 ELSE 0)
  BY <1>1, <1>3, TimesAppend
<1>7. Times(air, n) = Times(Tail(air), n) + (IF h = n THEN 1 ELSE 0)
  BY <1>1, TimesTail
<1>8. Times(shown, n)' = Times(Append(shown, h), n) /\ Times(air, n)' = Times(Tail(air), n)
  BY <1>2 DEF Times, Places
<1>9. Owed(n)' = Owed(n) /\ Owed(n) \in {0, 1}
  BY <1>2 DEF Owed
<1>10. /\ Times(shown, n) \in Nat /\ Times(air, n) \in Nat /\ lapses \in Nat
       /\ Times(Tail(air), n) \in Nat
  <2>1. Tail(air) \in Seq(0..created)
    BY <1>1, TailMembers
  <2> QED BY <2>1, TimesType, PlacesFinite DEF OnceInv
<1> QED BY <1>2, <1>5, <1>6, <1>7, <1>8, <1>9, <1>10

LEMMA OnceStep == OnceInv /\ [Next]_vars => OnceInv'
<1> SUFFICES ASSUME OnceInv, [Next]_vars PROVE OnceInv'
  OBVIOUS
<1> USE DEF serverVars, walkVars, linkVars, ackVars
<1>1. TypeOK'
  BY TypeStep DEF OnceInv
<1>2. SUFFICES TodoInv' /\ TokenInv'
  BY <1>1 DEF OnceInv
<1>3. lapses \in Nat /\ 0 \notin pending
  BY DEF OnceInv, TypeOK
<1>4. ASSUME UNCHANGED <<created, pending, todo, texts, marking, lapses, shown, spliced>>,
             air' = air \/ air' = <<>>
      PROVE  TodoInv' /\ TokenInv'
  <2>1. TodoInv'
    BY <1>4 DEF OnceInv, TodoInv
  <2>2. lapses' >= lapses /\ \A n : Owed(n)' = Owed(n)
    BY <1>3, <1>4 DEF Owed
  <2> QED BY <1>1, <1>4, <2>1, <2>2, TokensKept
<1>5. ASSUME NEW hasMessage \in BOOLEAN, CreateNotification(hasMessage)
      PROVE  TodoInv' /\ TokenInv'
  BY <1>5, OnceCreate
<1>6. CASE FetchPending
  BY <1>1, <1>6, OnceFetch
<1>7. ASSUME NEW accepted \in BOOLEAN, SendNotification(accepted)
      PROVE  TodoInv' /\ TokenInv'
  BY <1>7, OnceSend
<1>8. ASSUME NEW arrives \in BOOLEAN, MarkDelivered(arrives)
      PROVE  TodoInv' /\ TokenInv'
  BY <1>1, <1>8, OnceMark
<1>9. CASE WatchShows
  BY <1>9, OnceShows
<1>10. CASE WatchDismisses \/ AckNotified \/ Connected \/ LinkLost
  BY <1>4, <1>10 DEF WatchDismisses, AckNotified, Connected, LinkLost
<1>11. CASE Disconnected
  BY <1>4, <1>11 DEF Disconnected
<1>12. CASE BridgeReboots
  <2>1. /\ air' = <<>> /\ todo' = <<>> /\ texts' = <<>> /\ marking' = 0
        /\ UNCHANGED <<created, pending, shown, spliced>>
        /\ lapses' = IF marking # 0 THEN lapses + 1 ELSE lapses
    BY <1>12 DEF BridgeReboots
  <2>2. TodoInv'
    BY <2>1 DEF TodoInv
  <2>3. lapses' >= lapses /\ \A n : lapses' > lapses \/ (Owed(n)' = 1 => Owed(n) = 1)
    BY <1>3, <2>1 DEF Owed
  <2> QED BY <1>1, <2>1, <2>2, <2>3, TokensKept
<1>13. CASE UNCHANGED vars
  BY <1>4, <1>13 DEF vars
<1>14. CASE FetchSpliced
  BY <1>1, <1>14, OnceSpliced
<1> QED BY <1>14, <1>5, <1>6, <1>7, <1>8, <1>9, <1>10, <1>11, <1>12, <1>13 DEF Next

\* However many marks are lost between a write and the server, the watch shows a
\* notification at most once more for each: poll_api_ writes a row again only when
\* its mark was lost, or the bridge restarted before it.  A text that an overfull
\* answer carried is left out: it may come under the id of another row.
THEOREM AlwaysShownOnce == Spec => []ShownOnce
<1>1. OnceInv => ShownOnce
  <2> SUFFICES ASSUME OnceInv, NEW n \in (1..created) \ spliced
               PROVE  Times(shown, n) <= 1 + lapses
    BY DEF ShownOnce, Times, Places
  <2>2. Times(shown, n) + Times(air, n) + Owed(n) <= 1 + lapses
    BY DEF OnceInv, TokenInv
  <2>3. Owed(n) \in {0, 1}
    BY DEF Owed
  <2> QED BY <2>2, <2>3, TimesType DEF OnceInv
<1> QED BY <1>1, OnceInit, OnceStep, PTL DEF Spec
=============================================================================
