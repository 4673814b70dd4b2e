--------------------------- MODULE InterfaceProofs ---------------------------
(***************************************************************************)
(* Theorems about one tab beside its event stream, for every number of      *)
(* events, streams, operations, sessions and rules, and every limit of the  *)
(* replay and of the timeline.                                              *)
(***************************************************************************)
EXTENDS Interface, FiniteSetTheorems, SequenceTheorems, TLAPS

-----------------------------------------------------------------------------
(* The stream.                                                              *)

Event == {Status(b) : b \in BOOLEAN} \cup {Wire(n) : n \in 1 .. MaxEvents}
Places == {"unused", "live", "ended", "broken", "over", "refused"}

StreamTypes ==
  /\ hubOpen \in BOOLEAN /\ keepAlive \in BOOLEAN /\ source \in BOOLEAN
  /\ status \in BOOLEAN /\ cleared \in BOOLEAN /\ up \in BOOLEAN
  /\ uninformed \in BOOLEAN
  /\ count \in 0 .. MaxEvents /\ breaks \in Nat
  /\ recent \in Seq(1 .. MaxEvents) /\ Len(recent) <= ReplayLimit
  /\ timeline \in Seq(1 .. MaxEvents) /\ Len(timeline) <= TimelineLimit
  /\ subscribers \subseteq Streams
  /\ stream \in [Streams -> Places]
  /\ channel \in [Streams -> Seq(Event)]

\* The streams the tab reads: one at most, known to the hub while it is live.
Reading == At("live") \cup At("ended")

StreamsAreSound ==
  /\ \A j, k \in Reading : j = k
  /\ \A k \in At("live") : hubOpen /\ source /\ k \in subscribers
  /\ \A k \in At("ended") : ~hubOpen
  /\ keepAlive <=> subscribers # {}

\* The last status on the way is that of the connection, and so is the one the
\* tab has when none is on the way.
IsStatus(event) == event.name = "status"
On(k) == 1 .. Len(channel[k])
Quiet(k) == \A i \in On(k) : ~IsStatus(channel[k][i])

StatusArrives ==
  /\ \A k \in At("live") : \A i \in On(k) :
       /\ IsStatus(channel[k][i])
       /\ \A j \in On(k) : j > i => ~IsStatus(channel[k][j])
       => channel[k][i].up = up
  /\ /\ hubOpen /\ source /\ breaks = 0 /\ ~uninformed
     /\ \A k \in At("live") : Quiet(k)
     => status = up

\* Up to h the events have been read from stream k, and the others are on it.
IsWire(event) == event.name = "wire"

ReadUpTo(k, h) ==
  /\ \A i \in On(k) : IsWire(channel[k][i]) => channel[k][i].seq \in h + 1 .. count
  /\ \A n \in h + 1 .. count : \E i \in On(k) : channel[k][i] = Wire(n)
  /\ \A i, j \in On(k) :
       i < j /\ IsWire(channel[k][i]) /\ IsWire(channel[k][j])
         => channel[k][i].seq < channel[k][j].seq

\* Of the recent ones the tab shows all it has read.
ShownUpTo(h) ==
  (~cleared /\ TimelineLimit >= ReplayLimit) =>
    \A n \in count - Len(recent) + 1 .. h :
      Len(timeline) > h - n /\ timeline[Len(timeline) - (h - n)] = n

RecentArrives ==
  /\ Len(recent) <= count
  /\ \A i \in 1 .. Len(recent) : recent[i] = count - Len(recent) + i
  /\ \A k \in At("live") : \E h \in 0 .. count : ReadUpTo(k, h) /\ ShownUpTo(h)

\* The timeline starts over where the stream did.
StartsOver(s) == {i \in 1 .. Len(s) - 1 : s[i] >= s[i + 1]}

\* The next event to be read comes before the last that was.
NextStartsOver(k) ==
  /\ timeline # <<>>
  /\ \E i \in On(k) :
       IsWire(channel[k][i]) /\ channel[k][i].seq <= timeline[Len(timeline)]

OrderArrives ==
  /\ \A k \in Reading : \A i, j \in On(k) :
       i < j /\ IsWire(channel[k][i]) /\ IsWire(channel[k][j])
         => channel[k][i].seq < channel[k][j].seq
  /\ \A k \in Reading : \A i \in On(k) : IsWire(channel[k][i]) => channel[k][i].seq <= count
  /\ \A i \in 1 .. Len(timeline) : timeline[i] <= count
  /\ Cardinality(StartsOver(timeline)) <= breaks
  /\ \A k \in Reading : NextStartsOver(k) => Cardinality(StartsOver(timeline)) < breaks
  /\ Reading = {} /\ hubOpen /\ timeline # <<>> => Cardinality(StartsOver(timeline)) < breaks

StreamInv ==
  /\ StreamTypes
  /\ StreamsAreSound
  /\ StatusArrives
  /\ RecentArrives
  /\ OrderArrives

-----------------------------------------------------------------------------
(* Sequences.                                                               *)

\* The newest of a sequence are its end.
LEMMA LastOfIsTheEnd ==
  ASSUME NEW S, NEW s \in Seq(S), NEW limit \in Nat
  PROVE  /\ LastOf(limit, s) \in Seq(S)
         /\ Len(LastOf(limit, s)) = IF Len(s) > limit THEN limit ELSE Len(s)
         /\ \A i \in 1 .. Len(LastOf(limit, s)) :
              LastOf(limit, s)[i] = s[Len(s) - Len(LastOf(limit, s)) + i]
<1> DEFINE n == Len(s)
<1>1. n \in Nat /\ \A i \in 1 .. n : s[i] \in S
  BY LenProperties, ElementOfSeq
<1>2. CASE n > limit
  <2>1. \A i \in n - limit + 1 .. n : s[i] \in S
    BY <1>1, <1>2
  <2> HIDE DEF n
  <2>2. /\ SubSeq(s, n - limit + 1, n) \in Seq(S)
        /\ Len(SubSeq(s, n - limit + 1, n)) = IF n - limit + 1 <= n
                                               THEN n - (n - limit + 1) + 1 ELSE 0
        /\ \A i \in 1 .. n - (n - limit + 1) + 1 :
             SubSeq(s, n - limit + 1, n)[i] = s[n - limit + 1 + i - 1]
    BY <1>1, <2>1, SubSeqProperties
  <2>3. Len(SubSeq(s, n - limit + 1, n)) = limit
    BY <1>1, <1>2, <2>2
  <2>4. ASSUME NEW i \in 1 .. limit PROVE SubSeq(s, n - limit + 1, n)[i] = s[n - limit + i]
    <3>1. i \in 1 .. n - (n - limit + 1) + 1 /\ n - limit + 1 + i - 1 = n - limit + i
      BY <1>1, <1>2
    <3> QED BY <2>2, <3>1
  <2>5. LastOf(limit, s) = SubSeq(s, n - limit + 1, n)
    BY <1>2 DEF LastOf, n
  <2> QED BY <1>2, <2>2, <2>3, <2>4, <2>5 DEF n
<1>3. CASE ~(n > limit)
  <2>1. LastOf(limit, s) = s
    BY <1>3 DEF LastOf
  <2> HIDE DEF LastOf
  <2>2. \A i \in 1 .. n : n - n + i = i
    BY <1>1
  <2> QED BY <1>1, <1>3, <2>1, <2>2
<1> QED BY <1>2, <1>3

\* t is s with n at its end, as long as the limit allows.
IsGrown(t, limit, s, n) ==
  /\ Len(t) \in Nat \ {0} /\ t[Len(t)] = n
  /\ Len(t) = IF Len(s) + 1 > limit THEN limit ELSE Len(s) + 1
  /\ \A d \in 1 .. Len(t) - 1 : /\ Len(s) + 1 - d \in 1 .. Len(s)
                                /\ t[Len(t) - d] = s[Len(s) + 1 - d]

\* The newest of a sequence with one more.
LEMMA NewestWithOneMore ==
  ASSUME NEW S, NEW s \in Seq(S), NEW n \in S, NEW limit \in Nat \ {0}
  PROVE  LET t == LastOf(limit, Append(s, n))
         IN  t \in Seq(S) /\ IsGrown(t, limit, s, n)
<1> DEFINE all == Append(s, n)
           t == LastOf(limit, all)
<1>1. /\ all \in Seq(S) /\ Len(all) = Len(s) + 1 /\ Len(s) \in Nat
      /\ \A i \in 1 .. Len(s) : all[i] = s[i]
      /\ all[Len(s) + 1] = n
  BY AppendProperties, LenProperties
<1>2. t = LastOf(limit, all)
  OBVIOUS
<1> HIDE DEF all, t
<1>3. /\ t \in Seq(S) /\ Len(t) = IF Len(all) > limit THEN limit ELSE Len(all)
      /\ \A i \in 1 .. Len(t) : t[i] = all[Len(all) - Len(t) + i]
  <2>1. limit \in Nat /\ all \in Seq(S)
    BY <1>1
  <2>2. /\ LastOf(limit, all) \in Seq(S)
        /\ Len(LastOf(limit, all)) = IF Len(all) > limit THEN limit ELSE Len(all)
        /\ \A i \in 1 .. Len(LastOf(limit, all)) :
             LastOf(limit, all)[i] = all[Len(all) - Len(LastOf(limit, all)) + i]
    BY <2>1, LastOfIsTheEnd
  <2> QED BY <1>2, <2>2
<1>4. PICK m \in Nat : m = Len(s)
  BY <1>1
<1>5. /\ Len(t) \in Nat \ {0} /\ Len(t) <= m + 1
      /\ Len(t) = IF m + 1 > limit THEN limit ELSE m + 1
  BY <1>1, <1>3, <1>4
<1>6. PICK l \in Nat \ {0} : l = Len(t) /\ l <= m + 1
  BY <1>5
<1>7. ASSUME NEW i \in 1 .. l PROVE t[i] = all[m + 1 - l + i]
  <2>1. Len(all) = m + 1 /\ Len(t) = l
    BY <1>1, <1>4, <1>6
  <2>2. t[i] = all[Len(all) - Len(t) + i]
    BY <1>3, <2>1
  <2> QED BY <2>1, <2>2
<1>8. t[l] = n
  <2>1. l \in 1 .. l /\ m + 1 - l + l = m + 1
    BY <1>4, <1>6
  <2> QED BY <1>1, <1>4, <1>7, <2>1
<1>9. ASSUME NEW d \in 1 .. l - 1 PROVE m + 1 - d \in 1 .. m /\ t[l - d] = s[m + 1 - d]
  <2>1. l - d \in 1 .. l /\ m + 1 - l + (l - d) = m + 1 - d /\ m + 1 - d \in 1 .. m
    BY <1>4, <1>6
  <2>2. t[l - d] = all[m + 1 - d]
    BY <1>7, <2>1
  <2> QED BY <1>1, <1>4, <2>1, <2>2
<1>10. IsGrown(t, limit, s, n)
  BY <1>4, <1>5, <1>6, <1>8, <1>9 DEF IsGrown
<1> QED BY <1>3, <1>10 DEF t, all

\* Where a sequence starts over are finitely many places.
LEMMA StartsOverIsFinite ==
  ASSUME NEW s \in Seq(Nat)
  PROVE  IsFiniteSet(StartsOver(s)) /\ Cardinality(StartsOver(s)) \in Nat
<1>1. Len(s) \in Nat
  BY LenProperties
<1>2. IsFiniteSet(1 .. Len(s) - 1)
  BY <1>1, FS_Interval
<1>3. StartsOver(s) \in SUBSET (1 .. Len(s) - 1)
  BY DEF StartsOver
<1>4. IsFiniteSet(StartsOver(s))
  BY <1>2, <1>3, FS_Subset
<1> QED BY <1>4, FS_CardinalityType

\* One more number starts the sequence over once at most, and not when it comes
\* after the last.
LEMMA AppendStartsOver ==
  ASSUME NEW s \in Seq(Nat), NEW n \in Nat
  PROVE  Cardinality(StartsOver(Append(s, n))) <=
           Cardinality(StartsOver(s)) + (IF s # <<>> /\ n <= s[Len(s)] THEN 1 ELSE 0)
<1> DEFINE t == Append(s, n)
           m == Len(s)
<1>1. /\ m \in Nat /\ t \in Seq(Nat) /\ Len(t) = m + 1 /\ Len(s) = m
      /\ \A i \in 1 .. m : t[i] = s[i] /\ s[i] \in Nat
      /\ t[m + 1] = n /\ (s = <<>> <=> m = 0)
  BY LenProperties, AppendProperties, ElementOfSeq, EmptySeq
<1>2. IsFiniteSet(StartsOver(s)) /\ Cardinality(StartsOver(s)) \in Nat
  BY StartsOverIsFinite
<1> HIDE DEF t, m
<1>5. ASSUME NEW i \in StartsOver(t), i # m PROVE i \in StartsOver(s)
  <2>1. i \in 1 .. m /\ t[i] >= t[i + 1]
    <3>1. i \in 1 .. Len(t) - 1 /\ t[i] >= t[i + 1]
      BY DEF StartsOver
    <3> QED BY <1>1, <3>1
  <2>2. i \in 1 .. m - 1 /\ i \in 1 .. m /\ i + 1 \in 1 .. m
    BY <1>1, <1>5, <2>1
  <2>3. t[i] = s[i] /\ t[i + 1] = s[i + 1]
    BY <1>1, <2>2
  <2> QED BY <1>1, <2>1, <2>2, <2>3 DEF StartsOver
<1>3. CASE s # <<>> /\ n <= s[m]
  <2>1. StartsOver(t) \subseteq StartsOver(s) \cup {m}
    BY <1>5
  <2>2. /\ IsFiniteSet(StartsOver(s) \cup {m})
        /\ Cardinality(StartsOver(s) \cup {m}) <= Cardinality(StartsOver(s)) + 1
    <3>1. /\ IsFiniteSet(StartsOver(s) \cup {m})
          /\ Cardinality(StartsOver(s) \cup {m}) =
               IF m \in StartsOver(s) THEN Cardinality(StartsOver(s))
                                      ELSE Cardinality(StartsOver(s)) + 1
      BY <1>2, FS_AddElement
    <3> QED BY <1>2, <3>1
  <2>3. /\ Cardinality(StartsOver(t)) <= Cardinality(StartsOver(s) \cup {m})
        /\ IsFiniteSet(StartsOver(t))
    BY <2>1, <2>2, FS_Subset
  <2>4. Cardinality(StartsOver(t)) \in Nat /\ Cardinality(StartsOver(s) \cup {m}) \in Nat
    BY <2>2, <2>3, FS_CardinalityType
  <2> QED BY <1>2, <1>3, <2>2, <2>3, <2>4 DEF t, m
<1>4. CASE ~(s # <<>> /\ n <= s[m])
  <2>1. StartsOver(t) \subseteq StartsOver(s)
    <3>1. m \notin StartsOver(t)
      <4>1. m = 0 => m \notin StartsOver(t)
        BY <1>1 DEF StartsOver
      <4>2. m # 0 => t[m] = s[m] /\ s[m] \in Nat /\ ~(n <= s[m])
        BY <1>1, <1>4
      <4>3. m # 0 => ~(t[m] >= t[m + 1])
        BY <1>1, <4>2
      <4> QED BY <4>1, <4>3 DEF StartsOver
    <3> QED BY <1>5, <3>1
  <2>2. Cardinality(StartsOver(t)) <= Cardinality(StartsOver(s))
    BY <1>2, <2>1, FS_Subset
  <2> QED BY <1>2, <1>4, <2>2 DEF t, m
<1> QED BY <1>3, <1>4

\* The end of a sequence starts over no more often than the whole.
LEMMA LastOfStartsOver ==
  ASSUME NEW s \in Seq(Nat), NEW limit \in Nat
  PROVE  Cardinality(StartsOver(LastOf(limit, s))) <= Cardinality(StartsOver(s))
<1> DEFINE t == LastOf(limit, s)
           d == Len(s) - Len(t)
           f == [i \in StartsOver(t) |-> i + d]
<1>1. /\ t \in Seq(Nat) /\ Len(t) \in Nat /\ Len(s) \in Nat /\ d \in Nat
      /\ \A i \in 1 .. Len(t) : t[i] = s[d + i]
  BY LastOfIsTheEnd, LenProperties
<1> HIDE DEF t
<1>2. ASSUME NEW i \in StartsOver(t) PROVE i \in Nat /\ i + d \in StartsOver(s)
  <2>1. i \in 1 .. Len(t) - 1 /\ t[i] >= t[i + 1]
    BY DEF StartsOver
  <2>2. i \in 1 .. Len(t) /\ i + 1 \in 1 .. Len(t)
    BY <1>1, <2>1
  <2>3. t[i] = s[d + i] /\ t[i + 1] = s[d + (i + 1)]
    BY <1>1, <2>2
  <2>4. d + i = i + d /\ d + (i + 1) = (i + d) + 1
    BY <1>1, <2>1
  <2>5. i + d \in 1 .. Len(s) - 1
    <3>1. PICK n \in Nat : n = Len(s)
      BY <1>1
    <3>2. PICK m \in Nat : m = Len(t)
      BY <1>1
    <3>3. d = n - m /\ d \in Nat /\ i \in 1 .. m - 1
      BY <1>1, <2>1, <3>1, <3>2 DEF d
    <3>4. i + (n - m) \in 1 .. n - 1
      BY <3>3
    <3> QED BY <3>1, <3>3, <3>4
  <2> QED BY <2>1, <2>3, <2>4, <2>5 DEF StartsOver
<1> HIDE DEF d
<1>3. f \in Injection(StartsOver(t), StartsOver(s))
  <2>1. f \in [StartsOver(t) -> StartsOver(s)]
    BY <1>2
  <2>2. \A i, j \in StartsOver(t) : f[i] = f[j] => i = j
    BY <1>1, <1>2
  <2> QED BY <2>1, <2>2 DEF Injection, IsInjective
<1>4. IsFiniteSet(StartsOver(s))
  BY StartsOverIsFinite
<1> HIDE DEF f
<1> QED BY <1>3, <1>4, FS_Injection DEF t

-----------------------------------------------------------------------------
(* What is written to the streams.                                          *)

\* An event is a status or carries a number.
LEMMA EventFacts ==
  ASSUME NEW e \in Event
  PROVE  /\ e.seq \in Nat /\ e.up \in BOOLEAN /\ (IsStatus(e) <=> ~IsWire(e))
         /\ IsWire(e) => e.seq \in 1 .. MaxEvents /\ e = Wire(e.seq)
<1>1. ASSUME NEW b \in BOOLEAN, e = Status(b)
      PROVE  e.seq = 0 /\ e.up = b /\ e.name = "status"
  BY <1>1 DEF Status
<1>2. ASSUME NEW n \in 1 .. MaxEvents, e = Wire(n)
      PROVE  e.seq = n /\ e.up = FALSE /\ e.name = "wire"
  BY <1>2 DEF Wire
<1>3. MaxEvents \in Nat
  BY EventHubAssumption
<1>4. CASE e \in {Status(b) : b \in BOOLEAN}
  <2>1. PICK b \in BOOLEAN : e = Status(b)
    BY <1>4
  <2> QED BY <1>1, <2>1 DEF IsStatus, IsWire
<1>5. CASE e \in {Wire(n) : n \in 1 .. MaxEvents}
  <2>1. PICK n \in 1 .. MaxEvents : e = Wire(n)
    BY <1>5
  <2>2. e.seq = n /\ e.up = FALSE /\ e.name = "wire"
    BY <1>2, <2>1
  <2>3. e = Wire(e.seq)
    BY <2>1, <2>2
  <2>4. n \in Nat
    BY <1>3
  <2> QED BY <2>2, <2>3, <2>4 DEF IsStatus, IsWire
<1> QED BY <1>4, <1>5 DEF Event

\* The types of what the streams and the timeline hold.
LEMMA StreamFacts ==
  ASSUME StreamTypes
  PROVE  /\ \A k \in Streams : /\ channel[k] \in Seq(Event) /\ Len(channel[k]) \in Nat
                               /\ \A i \in On(k) : channel[k][i] \in Event
         /\ Len(recent) \in Nat /\ Len(timeline) \in Nat
         /\ \A i \in 1 .. Len(recent) : recent[i] \in Nat
         /\ timeline \in Seq(Nat)
         /\ \A i \in 1 .. Len(timeline) : timeline[i] \in Nat
         /\ (timeline = <<>> <=> Len(timeline) = 0)
         /\ Cardinality(StartsOver(timeline)) \in Nat
         /\ count \in Nat /\ At("live") \subseteq Streams /\ At("ended") \subseteq Streams
<1>1. \A k \in Streams : channel[k] \in Seq(Event)
  BY DEF StreamTypes
<1>2. \A k \in Streams : Len(channel[k]) \in Nat /\ \A i \in On(k) : channel[k][i] \in Event
  BY <1>1, LenProperties, ElementOfSeq DEF On
<1>3. recent \in Seq(1 .. MaxEvents) /\ timeline \in Seq(1 .. MaxEvents)
  BY DEF StreamTypes
<1>4. \A i \in 1 .. Len(recent) : recent[i] \in 1 .. MaxEvents
  BY <1>3, ElementOfSeq
<1>5. \A i \in 1 .. Len(timeline) : timeline[i] \in 1 .. MaxEvents
  BY <1>3, ElementOfSeq
<1>6. Len(recent) \in Nat /\ Len(timeline) \in Nat
  BY <1>3, LenProperties
<1>7. MaxEvents \in Nat
  BY EventHubAssumption
<1>8. timeline \in Seq(Nat)
  <2>1. SubSeq(timeline, 1, Len(timeline)) = timeline
    BY <1>3, <1>6, SubSeqFull
  <2>2. \A i \in 1 .. Len(timeline) : timeline[i] \in Nat
    BY <1>5, <1>7
  <2> QED BY <1>6, <2>1, <2>2, SubSeqProperties
<1>9. Cardinality(StartsOver(timeline)) \in Nat
  BY <1>8, StartsOverIsFinite
<1>10. timeline = <<>> <=> Len(timeline) = 0
  BY <1>3, EmptySeq
<1>11. count \in Nat /\ At("live") \subseteq Streams /\ At("ended") \subseteq Streams
  BY <1>7 DEF StreamTypes, At
<1>12. \A i \in 1 .. Len(recent) : recent[i] \in Nat
  BY <1>4, <1>7
<1>13. \A i \in 1 .. Len(timeline) : timeline[i] \in Nat
  BY <1>5, <1>7
<1> QED BY <1>1, <1>2, <1>6, <1>8, <1>9, <1>10, <1>11, <1>12, <1>13

\* An event is added to the stream that is live, and to no other.
LEMMA SentFacts ==
  ASSUME StreamTypes, StreamsAreSound, NEW e \in Event, Sent(e)
  PROVE  /\ channel' \in [Streams -> Seq(Event)]
         /\ \A k \in At("live") : /\ Len(channel'[k]) = Len(channel[k]) + 1
                                  /\ \A i \in On(k) : channel'[k][i] = channel[k][i]
                                  /\ channel'[k][Len(channel[k]) + 1] = e
         /\ \A k \in Streams : k \notin At("live") => channel'[k] = channel[k]
<1>1. \A k \in At("live") : k \in Streams /\ k \in subscribers /\ stream[k] = "live"
  BY StreamFacts DEF StreamsAreSound, At
<1>2. \A k \in Streams : k \notin At("live") => stream[k] # "live"
  BY DEF At
<1>3. \A k \in At("live") : channel'[k] = Append(channel[k], e)
  BY <1>1 DEF Sent
<1>4. \A k \in Streams : k \notin At("live") => channel'[k] = channel[k]
  BY <1>2 DEF Sent
<1>5. \A k \in Streams : /\ Append(channel[k], e) \in Seq(Event)
                         /\ Len(Append(channel[k], e)) = Len(channel[k]) + 1
                         /\ \A i \in On(k) : Append(channel[k], e)[i] = channel[k][i]
                         /\ Append(channel[k], e)[Len(channel[k]) + 1] = e
  BY StreamFacts, AppendProperties DEF On
<1>6. channel' \in [Streams -> Seq(Event)]
  BY <1>5, StreamFacts DEF Sent
<1> QED BY <1>1, <1>3, <1>4, <1>5, <1>6

\* Steps that touch neither the stream nor the connection.
LEMMA ElsewhereKeepsStream ==
  ASSUME StreamInv, UNCHANGED <<streamVars, up, uninformed>>
  PROVE  StreamInv'
<1>1. /\ UNCHANGED <<hubOpen, recent, count, subscribers, keepAlive, stream, channel>>
      /\ UNCHANGED <<source, status, timeline, cleared, breaks, up, uninformed>>
  BY DEF streamVars, hubVars, tabVars
<1>2. At("live")' = At("live") /\ At("ended")' = At("ended") /\ Reading' = Reading
  BY <1>1 DEF At, Reading
<1>3. \A k : On(k)' = On(k) /\ (Quiet(k)' <=> Quiet(k))
  BY <1>1 DEF On, Quiet
<1>4. \A k, h : (ReadUpTo(k, h)' <=> ReadUpTo(k, h)) /\ (ShownUpTo(h)' <=> ShownUpTo(h))
  BY <1>1, <1>3 DEF ReadUpTo, ShownUpTo
<1>5. StreamTypes' /\ StreamsAreSound'
  BY <1>1, <1>2 DEF StreamInv, StreamTypes, StreamsAreSound
<1>6. StatusArrives'
  BY <1>1, <1>2, <1>3 DEF StreamInv, StatusArrives
<1>7. RecentArrives'
  BY <1>1, <1>2, <1>4 DEF StreamInv, RecentArrives
<1>8. OrderArrives'
  BY <1>1, <1>2, <1>3 DEF StreamInv, OrderArrives, NextStartsOver
<1> QED BY <1>5, <1>6, <1>7, <1>8 DEF StreamInv

\* A change of the connection is told to the stream that is live.
LEMMA TellKeepsStream ==
  ASSUME StreamInv, NEW state \in BOOLEAN, Tell(state), up' = state,
         UNCHANGED <<tabVars, breaks>>
  PROVE  StreamInv'
<1>1. /\ UNCHANGED <<hubOpen, recent, count, subscribers, keepAlive, stream>>
      /\ UNCHANGED <<source, status, timeline, cleared, breaks>>
      /\ uninformed' = (uninformed \/ At("live") = {})
  BY DEF Tell, PublishStatus, tabVars
<1>2. At("live")' = At("live") /\ At("ended")' = At("ended") /\ Reading' = Reading
  BY <1>1 DEF At, Reading
<1>3. StreamTypes /\ StreamsAreSound /\ StatusArrives /\ RecentArrives /\ OrderArrives
  BY DEF StreamInv
<1> DEFINE e == Status(state)
<1>4. e \in Event /\ IsStatus(e) /\ ~IsWire(e) /\ e.up = state
  BY DEF Event, IsStatus, IsWire, Status
<1>5. hubOpen => Sent(e)
  BY DEF Tell, PublishStatus
<1>6. ~hubOpen => channel' = channel /\ At("live") = {}
  BY <1>3 DEF Tell, PublishStatus, StreamsAreSound
<1> HIDE DEF e
<1>7. /\ channel' \in [Streams -> Seq(Event)]
      /\ \A k \in At("live") : /\ Len(channel'[k]) = Len(channel[k]) + 1
                               /\ \A i \in On(k) : channel'[k][i] = channel[k][i]
                               /\ channel'[k][Len(channel[k]) + 1] = e
      /\ \A k \in Streams : k \notin At("live") => channel'[k] = channel[k]
  <2>1. CASE hubOpen
    BY <1>3, <1>4, <1>5, <2>1, SentFacts
  <2>2. CASE ~hubOpen
    BY <1>3, <1>6, <2>2 DEF StreamTypes
  <2> QED BY <2>1, <2>2
<1>8. \A k \in At("live") : \A i \in On(k)' :
        \/ i \in On(k) /\ channel'[k][i] = channel[k][i]
        \/ i = Len(channel[k]) + 1 /\ channel'[k][i] = e
  BY <1>3, <1>7, StreamFacts DEF On
<1>9. StreamTypes'
  <2>1. uninformed' \in BOOLEAN
    BY <1>1, <1>3 DEF StreamTypes
  <2> QED BY <1>1, <1>3, <1>7, <2>1 DEF StreamTypes
<1>10. StreamsAreSound'
  BY <1>1, <1>2, <1>3 DEF StreamsAreSound
<1>11. \A k \in At("live") : Len(channel[k]) + 1 \in On(k)'
  BY <1>3, <1>7, StreamFacts DEF On
<1>12. StatusArrives'
  <2>1. ASSUME NEW k \in At("live"), NEW i \in On(k)', IsStatus(channel'[k][i]),
               \A j \in On(k)' : j > i => ~IsStatus(channel'[k][j])
        PROVE  channel'[k][i].up = up'
    <3>1. CASE channel'[k][i] = e
      BY <1>4, <3>1
    <3>2. CASE i \in On(k)
      <4>1. Len(channel[k]) + 1 > i
        BY <1>3, <3>2, StreamFacts DEF On
      <4>2. IsStatus(channel'[k][Len(channel[k]) + 1])
        BY <1>4, <1>7
      <4> QED BY <1>11, <2>1, <4>1, <4>2
    <3> QED BY <1>8, <3>1, <3>2
  <2>2. \A k \in At("live") : ~Quiet(k)'
    BY <1>4, <1>7, <1>11 DEF Quiet
  <2>3. At("live") = {} => uninformed'
    BY <1>1
  <2> QED BY <1>2, <2>1, <2>2, <2>3 DEF StatusArrives
<1>13. RecentArrives'
  <2>1. ASSUME NEW k \in At("live"), NEW h \in 0 .. count, ReadUpTo(k, h), ShownUpTo(h)
        PROVE  ReadUpTo(k, h)' /\ ShownUpTo(h)'
    <3>1. \A i \in On(k)' : IsWire(channel'[k][i]) => i \in On(k) /\ channel'[k][i] = channel[k][i]
      BY <1>4, <1>8
    <3>2. \A i \in On(k) : i \in On(k)' /\ channel'[k][i] = channel[k][i]
      BY <1>3, <1>7, StreamFacts DEF On
    <3>3. ReadUpTo(k, h)'
      BY <1>1, <2>1, <3>1, <3>2 DEF ReadUpTo
    <3>4. ShownUpTo(h)'
      BY <1>1, <2>1 DEF ShownUpTo
    <3> QED BY <3>3, <3>4
  <2> QED BY <1>1, <1>2, <1>3, <2>1 DEF RecentArrives
<1>14. OrderArrives'
  <2>1. \A k \in Reading : \A i \in On(k)' :
          IsWire(channel'[k][i]) => i \in On(k) /\ channel'[k][i] = channel[k][i]
    BY <1>3, <1>4, <1>7, <1>8, StreamFacts DEF Reading, On
  <2>2. \A k \in Reading : NextStartsOver(k)' => NextStartsOver(k)
    BY <1>1, <2>1 DEF NextStartsOver
  <2> QED BY <1>1, <1>2, <1>3, <2>1, <2>2 DEF OrderArrives
<1> QED BY <1>9, <1>10, <1>12, <1>13, <1>14 DEF StreamInv

\* A reply tells the tab of the connection, or does not concern it.
LEMMA ReplyKeepsStream ==
  ASSUME StreamInv, UNCHANGED <<hubVars, timeline, cleared, breaks, up>>,
         \/ UNCHANGED <<status, source, uninformed>>
         \/ /\ status' \in BOOLEAN /\ uninformed' = (status' # up)
            /\ source' \in {source, TRUE}
  PROVE  StreamInv'
<1>1. UNCHANGED <<hubOpen, recent, count, subscribers, keepAlive, stream, channel>>
  BY DEF hubVars
<1>2. At("live")' = At("live") /\ At("ended")' = At("ended") /\ Reading' = Reading
  BY <1>1 DEF At, Reading
<1>3. \A k : On(k)' = On(k) /\ (Quiet(k)' <=> Quiet(k))
  BY <1>1 DEF On, Quiet
<1>4. \A k, h : (ReadUpTo(k, h)' <=> ReadUpTo(k, h)) /\ (ShownUpTo(h)' <=> ShownUpTo(h))
  BY <1>1, <1>3 DEF ReadUpTo, ShownUpTo
<1>5. StreamTypes' /\ (source => source')
  BY <1>1 DEF StreamInv, StreamTypes
<1>6. StreamsAreSound'
  BY <1>1, <1>2, <1>5 DEF StreamInv, StreamsAreSound
<1>7. StatusArrives'
  <2>1. StatusArrives /\ status \in BOOLEAN /\ up \in BOOLEAN /\ up' = up
    BY DEF StreamInv, StreamTypes
  <2>2. CASE UNCHANGED <<status, source, uninformed>>
    BY <1>1, <1>2, <1>3, <2>1, <2>2 DEF StatusArrives
  <2>3. CASE status' \in BOOLEAN /\ uninformed' = (status' # up)
    <3>1. ~uninformed' => status' = up'
      BY <2>1, <2>3
    <3>2. \A k \in At("live")' : \A i \in On(k)' :
            /\ IsStatus(channel'[k][i])
            /\ \A j \in On(k)' : j > i => ~IsStatus(channel'[k][j])
            => channel'[k][i].up = up'
      BY <1>1, <1>2, <1>3, <2>1 DEF StatusArrives
    <3> QED BY <3>1, <3>2 DEF StatusArrives
  <2> QED BY <2>2, <2>3
<1>8. RecentArrives'
  BY <1>1, <1>2, <1>4 DEF StreamInv, RecentArrives
<1>9. OrderArrives'
  BY <1>1, <1>2, <1>3 DEF StreamInv, OrderArrives, NextStartsOver
<1> QED BY <1>5, <1>6, <1>7, <1>8, <1>9 DEF StreamInv

\* What is published goes to the stream that is live and joins the recent ones.
LEMMA PublishKeepsStream ==
  ASSUME StreamInv, Publish, UNCHANGED <<up, uninformed>>
  PROVE  StreamInv'
<1>1. /\ UNCHANGED <<hubOpen, stream, source, status, timeline, cleared, breaks, up, uninformed>>
      /\ count < MaxEvents /\ hubOpen /\ count' = count + 1
      /\ recent' = LastOf(ReplayLimit, Append(recent, count + 1))
      /\ Sent(Wire(count + 1))
  BY DEF Publish, tabVars
<1>2. At("live")' = At("live") /\ At("ended")' = At("ended") /\ Reading' = Reading
  BY <1>1 DEF At, Reading
<1>3. StreamTypes /\ StreamsAreSound /\ StatusArrives /\ RecentArrives /\ OrderArrives
  BY DEF StreamInv
<1>4. /\ count \in Nat /\ MaxEvents \in Nat /\ ReplayLimit \in Nat /\ Len(recent) \in Nat
      /\ count + 1 \in 1 .. MaxEvents
  BY <1>1, <1>3, EventHubAssumption, StreamFacts
<1> DEFINE e == Wire(count + 1)
<1>5. e \in Event /\ ~IsStatus(e) /\ IsWire(e) /\ e.seq = count + 1
  BY <1>4 DEF Event, IsStatus, IsWire, Wire
<1>6. e = Wire(count + 1) /\ Sent(e)
  BY <1>1
<1> HIDE DEF e
<1>7. /\ channel' \in [Streams -> Seq(Event)]
      /\ \A k \in At("live") : /\ Len(channel'[k]) = Len(channel[k]) + 1
                               /\ \A i \in On(k) : channel'[k][i] = channel[k][i]
                               /\ channel'[k][Len(channel[k]) + 1] = e
      /\ \A k \in Streams : k \notin At("live") => channel'[k] = channel[k]
  BY <1>3, <1>5, <1>6, SentFacts
<1>8. \A k \in At("live") : \A i \in On(k)' :
        \/ i \in On(k) /\ channel'[k][i] = channel[k][i]
        \/ i = Len(channel[k]) + 1 /\ channel'[k][i] = e
  BY <1>3, <1>7, StreamFacts DEF On
<1>9. \A k \in At("live") :
        /\ Len(channel[k]) + 1 \in On(k)'
        /\ \A i \in On(k) : i \in On(k)' /\ i < Len(channel[k]) + 1
  BY <1>3, <1>7, StreamFacts DEF On
<1>19. \A k \in At("live") :
         /\ Len(channel[k]) \in Nat /\ On(k) = 1 .. Len(channel[k])
         /\ On(k)' = 1 .. Len(channel[k]) + 1
  BY <1>3, <1>7, StreamFacts DEF On
<1>10. Reading = At("live")
  BY <1>1, <1>3 DEF StreamsAreSound, Reading
<1>11. /\ recent' \in Seq(1 .. MaxEvents)
       /\ Len(recent') = IF Len(recent) + 1 > ReplayLimit THEN ReplayLimit ELSE Len(recent) + 1
       /\ \A i \in 1 .. Len(recent') : recent'[i] = count + 1 - Len(recent') + i
  <2> DEFINE all == Append(recent, count + 1)
  <2>1. recent \in Seq(1 .. MaxEvents)
    BY <1>3 DEF StreamTypes
  <2>2. /\ all \in Seq(1 .. MaxEvents) /\ Len(all) = Len(recent) + 1
        /\ \A i \in 1 .. Len(recent) : all[i] = recent[i]
        /\ all[Len(recent) + 1] = count + 1
    BY <1>4, <2>1, AppendProperties
  <2>3. recent' = LastOf(ReplayLimit, all)
    BY <1>1
  <2> HIDE DEF all
  <2>4. /\ recent' \in Seq(1 .. MaxEvents)
        /\ Len(recent') = IF Len(all) > ReplayLimit THEN ReplayLimit ELSE Len(all)
        /\ \A i \in 1 .. Len(recent') : recent'[i] = all[Len(all) - Len(recent') + i]
    BY <1>4, <2>2, <2>3, LastOfIsTheEnd
  <2>5. ASSUME NEW i \in 1 .. Len(recent') PROVE recent'[i] = count + 1 - Len(recent') + i
    <3> DEFINE j == Len(recent) + 1 - Len(recent') + i
    <3>5. Len(recent') \in Nat /\ Len(recent') <= Len(recent) + 1
      BY <1>4, <2>2, <2>4
    <3>6. i \in 1 .. Len(recent') /\ recent'[i] = all[Len(all) - Len(recent') + i]
      BY <2>4
    <3>7. Len(all) = Len(recent) + 1 /\ Len(recent) \in Nat
      BY <1>4, <2>2
    <3>1. Len(recent') \in Nat /\ j \in 1 .. Len(recent) + 1 /\ recent'[i] = all[j]
      <4>1. all[Len(all) - Len(recent') + i] = all[Len(recent) + 1 - Len(recent') + i]
        BY <3>7
      <4>2. Len(recent) + 1 - Len(recent') + i \in 1 .. Len(recent) + 1
        BY <3>5, <3>6, <3>7
      <4> QED BY <3>5, <3>6, <4>1, <4>2
    <3>2. j \in 1 .. Len(recent) => all[j] = count - Len(recent) + j
      BY <1>3, <2>2 DEF RecentArrives
    <3>3. j = Len(recent) + 1 => all[j] = count + 1
      BY <2>2
    <3>4. all[j] = count - Len(recent) + j
      BY <1>4, <3>1, <3>2, <3>3
    <3> QED BY <1>4, <3>1, <3>4
  <2> QED BY <2>2, <2>4, <2>5
<1>12. Len(recent') \in Nat /\ Len(recent') <= Len(recent) + 1 /\ Len(recent') <= ReplayLimit
  BY <1>4, <1>11
<1>13. /\ subscribers' \subseteq subscribers
       /\ \A k \in subscribers : k \in subscribers' \/ stream[k] = "broken"
       /\ keepAlive' \in BOOLEAN /\ (keepAlive' <=> subscribers' # {})
  <2>1. PICK throwing \in {{}, subscribers \cap At("broken")} : Dropped(throwing)
    BY DEF Publish
  <2>2. \A k \in throwing : stream[k] = "broken"
    BY <2>1 DEF At
  <2>3. subscribers' = subscribers \ throwing /\ keepAlive' = (keepAlive /\ subscribers' # {})
    BY <2>1 DEF Dropped
  <2>4. keepAlive <=> subscribers # {}
    BY <1>3 DEF StreamsAreSound
  <2> QED BY <2>2, <2>3, <2>4
<1>14. StreamTypes'
  <2>1. subscribers' \subseteq Streams
    BY <1>3, <1>13 DEF StreamTypes
  <2> QED BY <1>1, <1>3, <1>4, <1>7, <1>11, <1>12, <1>13, <2>1 DEF StreamTypes
<1>15. StreamsAreSound'
  <2>1. \A k \in At("live") : hubOpen /\ source /\ k \in subscribers'
    BY <1>3, <1>13 DEF StreamsAreSound, At
  <2> QED BY <1>1, <1>2, <1>3, <1>13, <2>1 DEF StreamsAreSound
<1>16. StatusArrives'
  <2>1. \A k \in At("live") : \A i \in On(k)' :
          IsStatus(channel'[k][i]) => i \in On(k) /\ channel'[k][i] = channel[k][i]
    BY <1>5, <1>8
  <2>2. ASSUME NEW k \in At("live"), NEW i \in On(k)', IsStatus(channel'[k][i]),
               \A j \in On(k)' : j > i => ~IsStatus(channel'[k][j])
        PROVE  channel'[k][i].up = up'
    <3>1. i \in On(k) /\ channel'[k][i] = channel[k][i] /\ IsStatus(channel[k][i])
      BY <2>1, <2>2
    <3>2. \A j \in On(k) : j > i => ~IsStatus(channel[k][j])
      BY <1>7, <1>9, <2>2
    <3> QED BY <1>1, <1>3, <3>1, <3>2 DEF StatusArrives
  <2>3. \A k \in At("live") : Quiet(k)' => Quiet(k)
    BY <1>7, <1>9 DEF Quiet
  <2> QED BY <1>1, <1>2, <1>3, <2>2, <2>3 DEF StatusArrives
<1>17. RecentArrives'
  <2>1. ASSUME NEW k \in At("live"), NEW h \in 0 .. count, ReadUpTo(k, h), ShownUpTo(h)
        PROVE  h \in 0 .. count' /\ ReadUpTo(k, h)' /\ ShownUpTo(h)'
    <3>1. h \in 0 .. count' /\ h \in Nat
      BY <1>1, <1>4
    <3>2. \A i \in On(k)' : IsWire(channel'[k][i]) => channel'[k][i].seq \in h + 1 .. count'
      BY <1>1, <1>4, <1>5, <1>8, <2>1, <3>1 DEF ReadUpTo
    <3>3. \A n \in h + 1 .. count' : \E i \in On(k)' : channel'[k][i] = Wire(n)
      <4> SUFFICES ASSUME NEW n \in h + 1 .. count'
                   PROVE  \E i \in On(k)' : channel'[k][i] = Wire(n)
        OBVIOUS
      <4>1. CASE n = count + 1
        BY <1>6, <1>7, <1>9, <4>1
      <4>2. CASE n # count + 1
        <5>1. n \in h + 1 .. count
          BY <1>1, <1>4, <4>2
        <5>2. PICK i \in On(k) : channel[k][i] = Wire(n)
          BY <2>1, <5>1 DEF ReadUpTo
        <5> QED BY <1>7, <1>9, <5>2
      <4> QED BY <4>1, <4>2
    <3>4. \A i, j \in On(k)' : i < j /\ IsWire(channel'[k][i]) /\ IsWire(channel'[k][j])
                                 => channel'[k][i].seq < channel'[k][j].seq
      <4> SUFFICES ASSUME NEW i \in On(k)', NEW j \in On(k)', i < j,
                          IsWire(channel'[k][i]), IsWire(channel'[k][j])
                   PROVE  channel'[k][i].seq < channel'[k][j].seq
        OBVIOUS
      <4>1. i \in On(k) /\ channel'[k][i] = channel[k][i]
        <5>1. i \in 1 .. Len(channel[k])
          BY <1>19
        <5> QED BY <1>7, <1>19, <5>1
      <4>2. CASE j \in On(k)
        BY <1>7, <2>1, <4>1, <4>2 DEF ReadUpTo
      <4>3. CASE j \notin On(k)
        <5>1. channel'[k][j].seq = count + 1
          BY <1>5, <1>8, <4>3
        <5>2. channel[k][i].seq \in h + 1 .. count
          BY <2>1, <4>1 DEF ReadUpTo
        <5> QED BY <1>4, <3>1, <4>1, <5>1, <5>2
      <4> QED BY <4>2, <4>3
    <3>5. ShownUpTo(h)'
      <4>1. \A n \in count' - Len(recent') + 1 .. h : n \in count - Len(recent) + 1 .. h
        BY <1>1, <1>4, <1>12, <3>1
      <4> QED BY <1>1, <2>1, <4>1 DEF ShownUpTo
    <3> QED BY <3>1, <3>2, <3>3, <3>4, <3>5 DEF ReadUpTo
  <2>2. Len(recent') <= count'
    <3>1. Len(recent) <= count
      BY <1>3 DEF RecentArrives
    <3>2. count' = count + 1 /\ count \in Nat /\ Len(recent) \in Nat
      BY <1>1, <1>4
    <3>3. Len(recent') \in Nat /\ Len(recent') <= Len(recent) + 1
      BY <1>12
    <3> QED BY <3>1, <3>2, <3>3
  <2>3. \A i \in 1 .. Len(recent') : recent'[i] = count' - Len(recent') + i
    <3>1. count' = count + 1
      BY <1>1
    <3>2. ASSUME NEW i \in 1 .. Len(recent') PROVE recent'[i] = count' - Len(recent') + i
      <4>1. recent'[i] = count + 1 - Len(recent') + i
        BY <1>11
      <4>2. count \in Nat /\ Len(recent') \in Nat /\ i \in Nat
        BY <1>4, <1>12
      <4>3. count + 1 - Len(recent') + i = count' - Len(recent') + i
        BY <3>1, <4>2
      <4> QED BY <4>1, <4>3
    <3> QED BY <3>2
  <2>4. \A k \in At("live") : \E h \in 0 .. count : ReadUpTo(k, h) /\ ShownUpTo(h)
    BY <1>3 DEF RecentArrives
  <2>5. \A k \in At("live")' : \E h \in 0 .. count' : ReadUpTo(k, h)' /\ ShownUpTo(h)'
    BY <1>2, <2>1, <2>4
  <2> QED BY <2>2, <2>3, <2>5 DEF RecentArrives
<1>18. OrderArrives'
  <2>1. ASSUME NEW k \in At("live"), NEW i \in On(k)', IsWire(channel'[k][i])
        PROVE  /\ i \in On(k) => channel'[k][i] = channel[k][i] /\ channel[k][i].seq <= count
               /\ i \notin On(k) => channel'[k][i].seq = count + 1
               /\ channel'[k][i].seq <= count'
    <3>1. i \in On(k) => channel'[k][i] = channel[k][i] /\ channel[k][i].seq <= count
      BY <1>3, <1>7, <1>10, <2>1 DEF OrderArrives
    <3>2. i \notin On(k) => channel'[k][i].seq = count + 1
      BY <1>5, <1>8
    <3>3. i \in On(k) => channel[k][i].seq \in Nat
      BY <1>3, StreamFacts, EventFacts
    <3> QED BY <1>1, <1>4, <3>1, <3>2, <3>3
  <2>2. ASSUME NEW k \in At("live"), NEW i \in On(k)', NEW j \in On(k)', i < j,
               IsWire(channel'[k][i]), IsWire(channel'[k][j])
        PROVE  channel'[k][i].seq < channel'[k][j].seq
    <3>1. i \in On(k)
      <4>1. i \in 1 .. Len(channel[k])
        BY <1>19, <2>2
      <4> QED BY <1>19, <4>1
    <3>2. CASE j \in On(k)
      BY <1>3, <1>10, <2>1, <2>2, <3>1, <3>2 DEF OrderArrives
    <3>3. CASE j \notin On(k)
      <4>1. channel[k][i].seq \in Nat
        BY <1>3, <3>1, StreamFacts, EventFacts
      <4> QED BY <1>4, <2>1, <2>2, <3>1, <3>3, <4>1
    <3> QED BY <3>2, <3>3
  <2>3. \A i \in 1 .. Len(timeline) : timeline[i] \in Nat /\ timeline[i] <= count
    BY <1>3, StreamFacts DEF OrderArrives
  <2>4. ASSUME NEW k \in At("live"), NextStartsOver(k)' PROVE NextStartsOver(k)
    <3>1. PICK i \in On(k)' : IsWire(channel'[k][i])
                              /\ channel'[k][i].seq <= timeline[Len(timeline)]
      BY <1>1, <2>4 DEF NextStartsOver
    <3>2. timeline # <<>> /\ Len(timeline) \in 1 .. Len(timeline)
      BY <1>1, <1>3, <2>4, StreamFacts DEF NextStartsOver
    <3>3. i \in On(k)
      BY <1>4, <2>1, <2>3, <3>1, <3>2
    <3> QED BY <2>1, <3>1, <3>2, <3>3 DEF NextStartsOver
  <2>5. \A i \in 1 .. Len(timeline) : timeline[i] <= count'
    BY <1>1, <1>4, <2>3
  <2> QED BY <1>1, <1>2, <1>3, <1>10, <2>1, <2>2, <2>4, <2>5 DEF OrderArrives
<1> QED BY <1>14, <1>15, <1>16, <1>17, <1>18 DEF StreamInv

\* A stream opens with what is recent, or is refused.
LEMMA OpenKeepsStream ==
  ASSUME StreamInv, NEW k \in Streams, Open(k), UNCHANGED <<up, uninformed>>
  PROVE  StreamInv'
<1>1. /\ UNCHANGED <<hubOpen, recent, count, source, status, timeline, cleared, breaks>>
      /\ UNCHANGED <<up, uninformed>> /\ source /\ stream[k] = "unused"
      /\ At("live") = {} /\ At("ended") = {}
  BY DEF Open, MayOpen, Subscribe, tabVars
<1>2. StreamTypes /\ StreamsAreSound /\ StatusArrives /\ RecentArrives /\ OrderArrives
  BY DEF StreamInv
<1>3. stream \in [Streams -> Places] /\ channel \in [Streams -> Seq(Event)]
  BY <1>2 DEF StreamTypes
<1>4. \A j \in Streams : stream[j] # "live" /\ stream[j] # "ended"
  BY <1>1 DEF At
<1>5. \A h : ShownUpTo(h)' <=> ShownUpTo(h)
  BY <1>1 DEF ShownUpTo
<1>6. CASE hubOpen
  <2>1. /\ stream' = [stream EXCEPT ![k] = "live"]
        /\ channel' = [channel EXCEPT ![k] = [i \in DOMAIN recent |-> Wire(recent[i])]]
        /\ subscribers' = subscribers \cup {k} /\ keepAlive' = TRUE
    BY <1>6 DEF Open, Subscribe
  <2>2. At("live")' = {k} /\ At("ended")' = {} /\ Reading' = {k}
    <3>1. \A j \in Streams : stream'[j] = IF j = k THEN "live" ELSE stream[j]
      BY <1>3, <2>1
    <3> QED BY <1>4, <3>1 DEF At, Reading
  <2>3. /\ recent \in Seq(1 .. MaxEvents) /\ Len(recent) \in Nat /\ DOMAIN recent = 1 .. Len(recent)
        /\ \A i \in 1 .. Len(recent) : recent[i] \in 1 .. MaxEvents
    <3>1. recent \in Seq(1 .. MaxEvents)
      BY <1>2 DEF StreamTypes
    <3> QED BY <3>1, LenProperties, ElementOfSeq
  <2>4. /\ count \in Nat /\ Len(recent) <= count
        /\ \A i \in 1 .. Len(recent) : recent[i] = count - Len(recent) + i
    BY <1>2, StreamFacts DEF RecentArrives
  <2> DEFINE replay == [i \in 1 .. Len(recent) |-> Wire(recent[i])]
  <2>5. replay \in Seq(Event) /\ Len(replay) = Len(recent)
    <3>1. \A i \in 1 .. Len(recent) : Wire(recent[i]) \in Event
      BY <2>3 DEF Event
    <3> QED BY <2>3, <3>1
  <2>6. \A i \in 1 .. Len(recent) : replay[i] = Wire(count - Len(recent) + i)
    BY <2>4
  <2>7. channel' = [channel EXCEPT ![k] = replay]
    BY <2>1, <2>3
  <2> HIDE DEF replay
  <2>8. /\ channel' \in [Streams -> Seq(Event)] /\ channel'[k] = replay
        /\ On(k)' = 1 .. Len(recent)
    BY <1>3, <2>5, <2>7 DEF On
  <2>9. \A i \in On(k)' : /\ channel'[k][i] = Wire(count - Len(recent) + i)
                          /\ channel'[k][i].seq = count - Len(recent) + i
                          /\ ~IsStatus(channel'[k][i])
    BY <2>6, <2>8 DEF Wire, IsStatus
  <2>10. StreamTypes'
    <3>1. stream' \in [Streams -> Places] /\ subscribers' \subseteq Streams
      BY <1>2, <1>3, <2>1 DEF Places, StreamTypes
    <3> QED BY <1>1, <1>2, <2>1, <2>8, <3>1 DEF StreamTypes
  <2>11. StreamsAreSound'
    BY <1>1, <1>6, <2>1, <2>2 DEF StreamsAreSound
  <2>12. StatusArrives'
    <3>1. (breaks = 0 /\ ~uninformed) => status = up
      BY <1>1, <1>2, <1>6 DEF StatusArrives
    <3>2. \A j \in At("live")' : \A i \in On(j)' : ~IsStatus(channel'[j][i])
      BY <2>2, <2>9
    <3> QED BY <1>1, <3>1, <3>2 DEF StatusArrives
  <2>13. RecentArrives'
    <3>8. PICK h \in Nat : h = count - Len(recent)
      BY <2>3, <2>4
    <3>1. h \in 0 .. count /\ h \in Nat /\ count = h + Len(recent)
      BY <2>3, <2>4, <3>8
    <3>2. \A i \in On(k)' : channel'[k][i] = Wire(h + i) /\ channel'[k][i].seq = h + i
      BY <2>9, <3>8
    <3>3. \A i \in On(k)' : h + i \in h + 1 .. count
      BY <2>3, <2>8, <3>1
    <3>4. \A n \in h + 1 .. count : \E i \in On(k)' : channel'[k][i] = Wire(n)
      <4> SUFFICES ASSUME NEW n \in h + 1 .. count
                   PROVE  \E i \in On(k)' : channel'[k][i] = Wire(n)
        OBVIOUS
      <4>1. n - h \in 1 .. Len(recent) /\ h + (n - h) = n
        BY <2>3, <3>1
      <4> QED BY <2>8, <3>2, <4>1
    <3>5. \A i, j \in On(k)' : i < j => channel'[k][i].seq < channel'[k][j].seq
      <4> SUFFICES ASSUME NEW i \in On(k)', NEW j \in On(k)', i < j
                   PROVE  channel'[k][i].seq < channel'[k][j].seq
        OBVIOUS
      <4>1. i \in Nat /\ j \in Nat
        BY <2>3, <2>8
      <4> QED BY <3>1, <3>2, <4>1
    <3>6. ReadUpTo(k, h)'
      BY <1>1, <3>2, <3>3, <3>4, <3>5 DEF ReadUpTo
    <3>7. ShownUpTo(h)'
      <4>1. \A n \in h + 1 .. h : FALSE
        BY <3>1
      <4>2. \A n \in count - Len(recent) + 1 .. h : FALSE
        BY <3>8, <4>1
      <4> QED BY <1>1, <4>2 DEF ShownUpTo
    <3>9. \A j \in At("live")' : \E n \in 0 .. count' : ReadUpTo(j, n)' /\ ShownUpTo(n)'
      BY <1>1, <2>2, <3>1, <3>6, <3>7
    <3> QED BY <1>1, <1>2, <3>9 DEF RecentArrives
  <2>14. OrderArrives'
    <3>1. \A i, j \in On(k)' : i < j => channel'[k][i].seq < channel'[k][j].seq
      <4> SUFFICES ASSUME NEW i \in On(k)', NEW j \in On(k)', i < j
                   PROVE  channel'[k][i].seq < channel'[k][j].seq
        OBVIOUS
      <4>1. i \in Nat /\ j \in Nat
        BY <2>3, <2>8
      <4> QED BY <2>3, <2>4, <2>9, <4>1
    <3>2. \A i \in On(k)' : channel'[k][i].seq <= count
      BY <2>3, <2>4, <2>8, <2>9
    <3>3. NextStartsOver(k)' => Cardinality(StartsOver(timeline)) < breaks
      BY <1>1, <1>2, <1>6 DEF OrderArrives, NextStartsOver, Reading
    <3> QED BY <1>1, <1>2, <2>2, <3>1, <3>2, <3>3 DEF OrderArrives
  <2> QED BY <2>10, <2>11, <2>12, <2>13, <2>14 DEF StreamInv
<1>7. CASE ~hubOpen
  <2>1. /\ stream' = [stream EXCEPT ![k] = "refused"]
        /\ UNCHANGED <<subscribers, keepAlive, channel>>
    BY <1>7 DEF Open
  <2>2. At("live")' = {} /\ At("ended")' = {} /\ Reading' = {}
    <3>1. \A j \in Streams : stream'[j] = IF j = k THEN "refused" ELSE stream[j]
      BY <1>3, <2>1
    <3> QED BY <1>4, <3>1 DEF At, Reading
  <2>3. StreamTypes'
    <3>1. stream' \in [Streams -> Places]
      BY <1>3, <2>1 DEF Places
    <3> QED BY <1>1, <1>2, <2>1, <3>1 DEF StreamTypes
  <2>4. StreamsAreSound'
    BY <1>2, <2>1, <2>2 DEF StreamsAreSound
  <2>5. StatusArrives'
    BY <1>1, <1>7, <2>2 DEF StatusArrives
  <2>6. RecentArrives'
    BY <1>1, <1>2, <2>2 DEF RecentArrives
  <2>7. OrderArrives'
    BY <1>1, <1>2, <1>7, <2>2 DEF OrderArrives
  <2> QED BY <2>3, <2>4, <2>5, <2>6, <2>7 DEF StreamInv
<1> QED BY <1>6, <1>7

\* A stream that breaks leaves the tab without one.
LEMMA BreakKeepsStream ==
  ASSUME StreamInv, NEW k \in Streams, Break(k), UNCHANGED <<up, uninformed>>
  PROVE  StreamInv'
<1>1. /\ UNCHANGED <<hubOpen, recent, count, subscribers, keepAlive>>
      /\ UNCHANGED <<source, status, timeline, cleared, up, uninformed>>
      /\ stream[k] = "live" /\ stream' = [stream EXCEPT ![k] = "broken"]
      /\ channel' = [channel EXCEPT ![k] = <<>>] /\ breaks' = breaks + 1
  BY DEF Break, tabVars
<1>2. StreamTypes /\ StreamsAreSound /\ RecentArrives /\ OrderArrives
  BY DEF StreamInv
<1>3. stream \in [Streams -> Places] /\ channel \in [Streams -> Seq(Event)] /\ breaks \in Nat
  BY <1>2 DEF StreamTypes
<1>4. At("live")' = {} /\ At("ended")' = {} /\ Reading' = {}
  <2>1. \A j \in Streams : stream'[j] = IF j = k THEN "broken" ELSE stream[j]
    BY <1>1, <1>3
  <2>2. \A j \in Streams : j # k => stream[j] # "live" /\ stream[j] # "ended"
    BY <1>1, <1>2 DEF StreamsAreSound, Reading, At
  <2> QED BY <2>1, <2>2 DEF At, Reading
<1>5. StreamTypes'
  <2>1. stream' \in [Streams -> Places]
    BY <1>1, <1>3 DEF Places
  <2>2. channel' \in [Streams -> Seq(Event)] /\ breaks' \in Nat /\ breaks' # 0
    BY <1>1, <1>3
  <2> QED BY <1>1, <1>2, <2>1, <2>2 DEF StreamTypes
<1>6. StreamsAreSound'
  BY <1>1, <1>2, <1>4 DEF StreamsAreSound
<1>7. StatusArrives'
  BY <1>1, <1>3, <1>4 DEF StatusArrives
<1>8. RecentArrives'
  BY <1>1, <1>2, <1>4 DEF RecentArrives
<1>9. OrderArrives'
  <2>1. Cardinality(StartsOver(timeline)) < breaks'
    BY <1>1, <1>2, <1>3, StreamFacts DEF OrderArrives
  <2>2. Cardinality(StartsOver(timeline)) <= breaks'
    BY <1>1, <1>2, <1>3, StreamFacts DEF OrderArrives
  <2> QED BY <1>1, <1>2, <1>4, <2>1, <2>2 DEF OrderArrives
<1> QED BY <1>5, <1>6, <1>7, <1>8, <1>9 DEF StreamInv

\* The hub hears that a stream broke.
LEMMA DetachKeepsStream ==
  ASSUME StreamInv, NEW k \in Streams, Detach(k), UNCHANGED <<up, uninformed>>
  PROVE  StreamInv'
<1>1. /\ UNCHANGED <<hubOpen, recent, count, channel>>
      /\ UNCHANGED <<source, status, timeline, cleared, breaks, up, uninformed>>
      /\ stream[k] = "broken" /\ stream' = [stream EXCEPT ![k] = "over"]
      /\ subscribers' = subscribers \ {k} /\ keepAlive' = (keepAlive /\ subscribers' # {})
  BY DEF Detach, Dropped, tabVars
<1>2. StreamTypes /\ StreamsAreSound /\ StatusArrives /\ RecentArrives /\ OrderArrives
  BY DEF StreamInv
<1>3. stream \in [Streams -> Places]
  BY <1>2 DEF StreamTypes
<1>4. At("live")' = At("live") /\ At("ended")' = At("ended") /\ k \notin At("live")
  <2>1. \A j \in Streams : stream'[j] = IF j = k THEN "over" ELSE stream[j]
    BY <1>1, <1>3
  <2> QED BY <1>1, <2>1 DEF At
<1>5. Reading' = Reading /\ \A j : On(j)' = On(j) /\ (Quiet(j)' <=> Quiet(j))
  BY <1>1, <1>4 DEF Reading, On, Quiet
<1>6. \A j, h : (ReadUpTo(j, h)' <=> ReadUpTo(j, h)) /\ (ShownUpTo(h)' <=> ShownUpTo(h))
  BY <1>1, <1>5 DEF ReadUpTo, ShownUpTo
<1>7. StreamTypes'
  <2>1. stream' \in [Streams -> Places]
    BY <1>1, <1>3 DEF Places
  <2>2. subscribers' \subseteq Streams /\ keepAlive' \in BOOLEAN
    BY <1>1, <1>2 DEF StreamTypes
  <2> QED BY <1>1, <1>2, <2>1, <2>2 DEF StreamTypes
<1>8. StreamsAreSound'
  <2>1. \A j \in At("live") : j \in subscribers'
    BY <1>1, <1>2, <1>4 DEF StreamsAreSound
  <2>2. keepAlive' <=> subscribers' # {}
    BY <1>1, <1>2 DEF StreamsAreSound
  <2> QED BY <1>1, <1>2, <1>4, <1>5, <2>1, <2>2 DEF StreamsAreSound
<1>9. StatusArrives'
  BY <1>1, <1>2, <1>4, <1>5 DEF StatusArrives
<1>10. RecentArrives'
  BY <1>1, <1>2, <1>4, <1>6 DEF RecentArrives
<1>11. OrderArrives'
  BY <1>1, <1>2, <1>5 DEF OrderArrives, NextStartsOver
<1> QED BY <1>7, <1>8, <1>9, <1>10, <1>11 DEF StreamInv

\* The hub ends the stream, and the tab reads on.
LEMMA CloseKeepsStream ==
  ASSUME StreamInv, CloseHub, UNCHANGED <<up, uninformed>>
  PROVE  StreamInv'
<1>1. /\ UNCHANGED <<recent, count, channel>> /\ hubOpen' = FALSE
      /\ UNCHANGED <<source, status, timeline, cleared, breaks, up, uninformed>>
      /\ stream' = [j \in Streams |-> IF stream[j] = "live" THEN "ended" ELSE stream[j]]
      /\ subscribers' = {} /\ keepAlive' = FALSE
  BY DEF CloseHub, tabVars
<1>2. StreamTypes /\ StreamsAreSound /\ RecentArrives /\ OrderArrives
  BY DEF StreamInv
<1>3. stream \in [Streams -> Places]
  BY <1>2 DEF StreamTypes
<1>4. At("live")' = {} /\ At("ended")' = At("live") \cup At("ended")
  <2>1. \A j \in Streams : stream'[j] = IF stream[j] = "live" THEN "ended" ELSE stream[j]
    BY <1>1
  <2> QED BY <2>1 DEF At
<1>5. Reading' = Reading /\ \A j : On(j)' = On(j)
  BY <1>1, <1>4 DEF Reading, On
<1>6. StreamTypes'
  <2>1. stream' \in [Streams -> Places]
    BY <1>1, <1>3 DEF Places
  <2> QED BY <1>1, <1>2, <2>1 DEF StreamTypes
<1>7. StreamsAreSound'
  BY <1>1, <1>2, <1>4, <1>5 DEF StreamsAreSound
<1>8. StatusArrives'
  BY <1>1, <1>4 DEF StatusArrives
<1>9. RecentArrives'
  BY <1>1, <1>2, <1>4 DEF RecentArrives
<1>10. OrderArrives'
  BY <1>1, <1>2, <1>5 DEF OrderArrives, NextStartsOver
<1> QED BY <1>6, <1>7, <1>8, <1>9, <1>10 DEF StreamInv

\* The tab is through with the stream that was ended.
LEMMA FinishKeepsStream ==
  ASSUME StreamInv, NEW k \in Streams, Finish(k), UNCHANGED <<up, uninformed>>
  PROVE  StreamInv'
<1>1. /\ UNCHANGED <<hubOpen, recent, count, subscribers, keepAlive, channel>>
      /\ UNCHANGED <<source, status, timeline, cleared, breaks, up, uninformed>>
      /\ stream[k] = "ended" /\ stream' = [stream EXCEPT ![k] = "over"]
  BY DEF Finish, tabVars
<1>2. StreamTypes /\ StreamsAreSound /\ RecentArrives /\ OrderArrives
  BY DEF StreamInv
<1>3. stream \in [Streams -> Places]
  BY <1>2 DEF StreamTypes
<1>4. ~hubOpen /\ At("live")' = {} /\ At("ended")' = {} /\ Reading' = {}
  <2>1. \A j \in Streams : stream'[j] = IF j = k THEN "over" ELSE stream[j]
    BY <1>1, <1>3
  <2>2. \A j \in Streams : j # k => stream[j] # "live" /\ stream[j] # "ended"
    BY <1>1, <1>2 DEF StreamsAreSound, Reading, At
  <2>3. ~hubOpen
    BY <1>1, <1>2 DEF StreamsAreSound, At
  <2> QED BY <2>1, <2>2, <2>3 DEF At, Reading
<1>5. StreamTypes'
  <2>1. stream' \in [Streams -> Places]
    BY <1>1, <1>3 DEF Places
  <2> QED BY <1>1, <1>2, <2>1 DEF StreamTypes
<1>6. StreamsAreSound'
  BY <1>1, <1>2, <1>4 DEF StreamsAreSound
<1>7. StatusArrives'
  BY <1>1, <1>4 DEF StatusArrives
<1>8. RecentArrives'
  BY <1>1, <1>2, <1>4 DEF RecentArrives
<1>9. OrderArrives'
  BY <1>1, <1>2, <1>4 DEF OrderArrives
<1> QED BY <1>5, <1>6, <1>7, <1>8, <1>9 DEF StreamInv

\* The timeline is cleared.
LEMMA ClearKeepsStream ==
  ASSUME StreamInv, ClearTimeline, UNCHANGED <<up, uninformed>>
  PROVE  StreamInv'
<1>1. /\ UNCHANGED <<hubOpen, recent, count, subscribers, keepAlive, stream, channel>>
      /\ UNCHANGED <<source, status, breaks, up, uninformed>>
      /\ timeline' = <<>> /\ cleared' = TRUE
  BY DEF ClearTimeline, hubVars
<1>2. StreamTypes /\ StreamsAreSound /\ StatusArrives /\ RecentArrives /\ OrderArrives
  BY DEF StreamInv
<1>3. At("live")' = At("live") /\ At("ended")' = At("ended") /\ Reading' = Reading
  BY <1>1 DEF At, Reading
<1>4. \A j : On(j)' = On(j) /\ (Quiet(j)' <=> Quiet(j))
  BY <1>1 DEF On, Quiet
<1>5. \A j, h : (ReadUpTo(j, h) => ReadUpTo(j, h)') /\ ShownUpTo(h)'
  BY <1>1, <1>4 DEF ReadUpTo, ShownUpTo
<1>6. timeline' \in Seq(1 .. MaxEvents) /\ Len(timeline') = 0
  BY <1>1
<1>7. StreamTypes'
  <2>1. Len(timeline') <= TimelineLimit
    BY <1>6, EventHubAssumption
  <2> QED BY <1>1, <1>2, <1>6, <2>1 DEF StreamTypes
<1>8. StreamsAreSound'
  BY <1>1, <1>2, <1>3 DEF StreamsAreSound
<1>9. StatusArrives'
  BY <1>1, <1>2, <1>3, <1>4 DEF StatusArrives
<1>10. RecentArrives'
  BY <1>1, <1>2, <1>3, <1>5 DEF RecentArrives
<1>11. OrderArrives'
  <2>1. StartsOver(timeline') = {}
    BY <1>6 DEF StartsOver
  <2>2. Cardinality(StartsOver(timeline')) <= breaks'
    <3>1. Cardinality(StartsOver(timeline')) = 0
      BY <2>1, FS_EmptySet
    <3>2. breaks' \in Nat
      BY <1>7 DEF StreamTypes
    <3> QED BY <3>1, <3>2
  <2>3. \A i \in 1 .. Len(timeline') : FALSE
    BY <1>6
  <2> QED BY <1>1, <1>2, <1>3, <1>4, <2>2, <2>3 DEF OrderArrives, NextStartsOver
<1> QED BY <1>7, <1>8, <1>9, <1>10, <1>11 DEF StreamInv

\* The tab handles the next event of its stream.
LEMMA HandleKeepsStream ==
  ASSUME StreamInv, NEW k \in Streams, Handle(k), UNCHANGED <<up, uninformed>>
  PROVE  StreamInv'
<1> DEFINE event == Head(channel[k])
<1>1. /\ UNCHANGED <<hubOpen, recent, count, subscribers, keepAlive, stream>>
      /\ UNCHANGED <<source, breaks, cleared, up, uninformed>>
      /\ channel[k] # <<>> /\ channel' = [channel EXCEPT ![k] = Tail(channel[k])]
      /\ timeline' = IF IsWire(event) THEN LastOf(TimelineLimit, Append(timeline, event.seq))
                                      ELSE timeline
      /\ status' = IF IsStatus(event) THEN event.up ELSE status
  BY DEF Handle, IsWire, IsStatus
<1>2. StreamTypes /\ StreamsAreSound /\ StatusArrives /\ RecentArrives /\ OrderArrives
  BY DEF StreamInv
<1>3. At("live")' = At("live") /\ At("ended")' = At("ended") /\ Reading' = Reading
  BY <1>1 DEF At, Reading
<1>4. k \in Reading /\ \A j \in Reading : j = k
  BY <1>2 DEF Handle, Reading, At, StreamsAreSound
<1>5. channel[k] \in Seq(Event) /\ channel \in [Streams -> Seq(Event)]
  BY <1>2 DEF StreamTypes
<1>6. /\ Tail(channel[k]) \in Seq(Event) /\ Len(Tail(channel[k])) = Len(channel[k]) - 1
      /\ \A i \in 1 .. Len(Tail(channel[k])) : Tail(channel[k])[i] = channel[k][i + 1]
      /\ event = channel[k][1] /\ event \in Event /\ Len(channel[k]) \in Nat \ {0}
  <2>1. Len(channel[k]) \in Nat \ {0}
    BY <1>1, <1>5, LenProperties, EmptySeq
  <2>2. event = channel[k][1] /\ event \in Event
    BY <1>1, <1>5, HeadTailProperties, <2>1, ElementOfSeq
  <2> QED BY <1>1, <1>5, <2>1, <2>2, HeadTailProperties
<1>7. PICK m \in Nat \ {0} : m = Len(channel[k])
  BY <1>6
<1>8. /\ channel' \in [Streams -> Seq(Event)] /\ channel'[k] = Tail(channel[k])
      /\ On(k) = 1 .. m /\ On(k)' = 1 .. m - 1
      /\ \A i \in On(k)' : i + 1 \in On(k) /\ channel'[k][i] = channel[k][i + 1]
  <2>1. channel' \in [Streams -> Seq(Event)] /\ channel'[k] = Tail(channel[k])
    BY <1>1, <1>5, <1>6
  <2>2. On(k) = 1 .. m /\ On(k)' = 1 .. m - 1
    BY <1>6, <1>7, <2>1 DEF On
  <2>3. \A i \in 1 .. m - 1 : i + 1 \in 1 .. m
    BY <1>7
  <2> QED BY <1>6, <1>7, <2>1, <2>2, <2>3
<1>9. /\ 1 \in On(k) /\ channel[k][1] = event
      /\ \A i \in On(k) : i # 1 => i - 1 \in On(k)' /\ i - 1 + 1 = i
  BY <1>6, <1>7, <1>8
<1>10. /\ event \in Event /\ event.seq \in Nat /\ event.up \in BOOLEAN
       /\ (IsStatus(event) <=> ~IsWire(event))
       /\ IsWire(event) => event.seq \in 1 .. MaxEvents /\ event = Wire(event.seq)
  BY <1>6, EventFacts
<1>11. /\ MaxEvents \in Nat /\ count \in Nat
       /\ ReplayLimit \in Nat \ {0} /\ TimelineLimit \in Nat \ {0}
       /\ Len(timeline) \in Nat /\ Len(recent) \in Nat
  BY <1>2, StreamFacts, EventHubAssumption
<1>12. \A i \in On(k)' : channel'[k][i] \in Event
  BY <1>2, <1>8, StreamFacts
<1> HIDE DEF event
<1>13. IsWire(event) => /\ timeline' \in Seq(1 .. MaxEvents)
                        /\ IsGrown(timeline', TimelineLimit, timeline, event.seq)
  <2>1. timeline \in Seq(1 .. MaxEvents)
    BY <1>2 DEF StreamTypes
  <2>2. IsWire(event) => /\ event.seq \in 1 .. MaxEvents
                         /\ timeline' = LastOf(TimelineLimit, Append(timeline, event.seq))
    BY <1>1, <1>10
  <2> QED BY <1>11, <2>1, <2>2, NewestWithOneMore
<1>14. ~IsWire(event) => timeline' = timeline
  BY <1>1
<1>15. StreamTypes'
  <2>1. timeline' \in Seq(1 .. MaxEvents) /\ Len(timeline') <= TimelineLimit
    <3>1. timeline \in Seq(1 .. MaxEvents) /\ Len(timeline) <= TimelineLimit
      BY <1>2 DEF StreamTypes
    <3> QED BY <1>11, <1>13, <1>14, <3>1 DEF IsGrown
  <2>2. status' \in BOOLEAN
    BY <1>1, <1>2, <1>10 DEF StreamTypes
  <2> QED BY <1>1, <1>2, <1>8, <2>1, <2>2 DEF StreamTypes
<1>16. StreamsAreSound'
  BY <1>1, <1>2, <1>3 DEF StreamsAreSound
<1>17. StatusArrives'
  <2>1. ASSUME NEW j \in At("live"), NEW i \in On(j)', IsStatus(channel'[j][i]),
               \A l \in On(j)' : l > i => ~IsStatus(channel'[j][l])
        PROVE  channel'[j][i].up = up'
    <3>1. j = k /\ i + 1 \in On(k) /\ channel'[j][i] = channel[k][i + 1]
      BY <1>4, <1>8, <2>1 DEF Reading
    <3>2. ASSUME NEW l \in On(k), l > i + 1 PROVE ~IsStatus(channel[k][l])
      <4>1. i \in Nat /\ l \in Nat
        BY <1>7, <1>8, <3>1
      <4>2. l - 1 \in On(k)' /\ l - 1 + 1 = l /\ l - 1 > i
        BY <1>9, <3>2, <4>1
      <4> QED BY <1>8, <2>1, <3>1, <4>2
    <3> QED BY <1>1, <1>2, <2>1, <3>1, <3>2 DEF StatusArrives
  <2>2. ASSUME hubOpen, source, breaks = 0, ~uninformed, \A j \in At("live") : Quiet(j)'
        PROVE  status' = up
    <3>1. k \in At("live")
      BY <1>2, <1>4, <2>2 DEF Reading, StreamsAreSound
    <3>2. \A i \in On(k) : i # 1 => ~IsStatus(channel[k][i])
      BY <1>8, <1>9, <2>2, <3>1 DEF Quiet
    <3>3. CASE IsStatus(event)
      <4>1. \A j \in On(k) : j > 1 => ~IsStatus(channel[k][j])
        BY <3>2
      <4>2. channel[k][1].up = up
        BY <1>2, <1>9, <3>1, <3>3, <4>1 DEF StatusArrives
      <4> QED BY <1>1, <1>9, <3>3, <4>2
    <3>4. CASE ~IsStatus(event)
      <4>1. Quiet(k)
        BY <1>9, <3>2, <3>4 DEF Quiet
      <4>2. \A j \in At("live") : Quiet(j)
        BY <1>4, <4>1 DEF Reading
      <4> QED BY <1>1, <1>2, <2>2, <3>4, <4>2 DEF StatusArrives
    <3> QED BY <3>3, <3>4
  <2>3. \A j \in At("live")' : \A i \in On(j)' :
          /\ IsStatus(channel'[j][i])
          /\ \A l \in On(j)' : l > i => ~IsStatus(channel'[j][l])
          => channel'[j][i].up = up'
    BY <1>3, <2>1
  <2>4. /\ hubOpen' /\ source' /\ breaks' = 0 /\ ~uninformed'
        /\ \A j \in At("live")' : Quiet(j)'
        => status' = up'
    BY <1>1, <1>3, <2>2
  <2> QED BY <2>3, <2>4 DEF StatusArrives
<1>20. ASSUME NEW i \in On(k)', NEW j \in On(k)', i < j
       PROVE  i + 1 \in On(k) /\ j + 1 \in On(k) /\ i + 1 < j + 1
  <2>1. i \in Nat /\ j \in Nat
    BY <1>7, <1>8
  <2> QED BY <1>8, <1>20, <2>1
<1>18. RecentArrives'
  <2>1. ASSUME NEW h \in 0 .. count, ReadUpTo(k, h), ShownUpTo(h), ~IsWire(event)
        PROVE  ReadUpTo(k, h)' /\ ShownUpTo(h)'
    <3>1. ShownUpTo(h)'
      BY <1>1, <1>14, <2>1 DEF ShownUpTo
    <3>2. \A i \in On(k)' : IsWire(channel'[k][i]) => channel'[k][i].seq \in h + 1 .. count'
      BY <1>1, <1>8, <2>1 DEF ReadUpTo
    <3>3. \A n \in h + 1 .. count' : \E i \in On(k)' : channel'[k][i] = Wire(n)
      <4> SUFFICES ASSUME NEW n \in h + 1 .. count
                   PROVE  \E i \in On(k)' : channel'[k][i] = Wire(n)
        BY <1>1
      <4>1. PICK i \in On(k) : channel[k][i] = Wire(n)
        BY <2>1 DEF ReadUpTo
      <4>2. i # 1
        BY <1>9, <2>1, <4>1 DEF Wire, IsWire
      <4> QED BY <1>8, <1>9, <4>1, <4>2
    <3>4. \A i, j \in On(k)' : i < j /\ IsWire(channel'[k][i]) /\ IsWire(channel'[k][j])
                                 => channel'[k][i].seq < channel'[k][j].seq
      BY <1>8, <1>20, <2>1 DEF ReadUpTo
    <3> QED BY <3>1, <3>2, <3>3, <3>4 DEF ReadUpTo
  <2>2. ASSUME NEW h \in 0 .. count, ReadUpTo(k, h), ShownUpTo(h), IsWire(event)
        PROVE  h + 1 \in 0 .. count /\ ReadUpTo(k, h + 1)' /\ ShownUpTo(h + 1)'
    <3>1. event.seq \in h + 1 .. count
      BY <1>9, <2>2 DEF ReadUpTo
    <3>2. h \in Nat /\ h + 1 \in h + 1 .. count /\ h + 1 \in 0 .. count /\ event.seq \in Nat
      BY <1>10, <1>11, <3>1
    <3>3. event.seq = h + 1
      <4>1. PICK i \in On(k) : channel[k][i] = Wire(h + 1)
        BY <2>2, <3>2 DEF ReadUpTo
      <4>2. channel[k][i].seq = h + 1 /\ IsWire(channel[k][i])
        BY <4>1 DEF Wire, IsWire
      <4>3. i # 1 => 1 < i
        BY <1>7, <1>8
      <4>4. i # 1 => event.seq < h + 1
        BY <1>9, <2>2, <4>2, <4>3 DEF ReadUpTo
      <4>5. ~(event.seq < h + 1)
        BY <3>1, <3>2
      <4> QED BY <1>9, <4>2, <4>4, <4>5
    <3>4. \A i \in On(k)' : IsWire(channel'[k][i]) => channel'[k][i].seq \in h + 1 + 1 .. count'
      <4> SUFFICES ASSUME NEW i \in On(k)', IsWire(channel'[k][i])
                   PROVE  channel'[k][i].seq \in h + 1 + 1 .. count
        BY <1>1
      <4>1. i + 1 \in On(k) /\ channel'[k][i] = channel[k][i + 1] /\ 1 < i + 1
        BY <1>7, <1>8
      <4>2. channel'[k][i].seq \in h + 1 .. count
        BY <2>2, <4>1 DEF ReadUpTo
      <4>3. event.seq < channel'[k][i].seq
        BY <1>9, <2>2, <4>1 DEF ReadUpTo
      <4> QED BY <1>11, <3>2, <3>3, <4>2, <4>3
    <3>5. \A n \in h + 1 + 1 .. count' : \E i \in On(k)' : channel'[k][i] = Wire(n)
      <4> SUFFICES ASSUME NEW n \in h + 1 + 1 .. count
                   PROVE  \E i \in On(k)' : channel'[k][i] = Wire(n)
        BY <1>1
      <4>1. n \in h + 1 .. count /\ n # h + 1
        BY <1>11, <3>2
      <4>2. PICK i \in On(k) : channel[k][i] = Wire(n)
        BY <2>2, <4>1 DEF ReadUpTo
      <4>3. i # 1
        BY <1>9, <3>3, <4>1, <4>2 DEF Wire
      <4> QED BY <1>8, <1>9, <4>2, <4>3
    <3>6. \A i, j \in On(k)' : i < j /\ IsWire(channel'[k][i]) /\ IsWire(channel'[k][j])
                                 => channel'[k][i].seq < channel'[k][j].seq
      BY <1>8, <1>20, <2>2 DEF ReadUpTo
    <3>7. ReadUpTo(k, h + 1)'
      BY <3>4, <3>5, <3>6 DEF ReadUpTo
    <3>8. ShownUpTo(h + 1)'
      <4> SUFFICES ASSUME ~cleared, TimelineLimit >= ReplayLimit,
                          NEW n \in count - Len(recent) + 1 .. h + 1
                   PROVE  /\ Len(timeline') > h + 1 - n
                          /\ timeline'[Len(timeline') - (h + 1 - n)] = n
        BY <1>1 DEF ShownUpTo
      <4>1. PICK d \in Nat : d = h + 1 - n /\ n = h + 1 - d /\ d < Len(recent)
        <5>1. /\ n \in Int /\ n <= h + 1 /\ n >= count - Len(recent) + 1 /\ h + 1 <= count
              /\ h + 1 - n \in Nat
          BY <1>11, <3>2
        <5> QED BY <1>11, <3>2, <5>1
      <4>2. d < TimelineLimit
        <5>1. Len(recent) <= ReplayLimit
          BY <1>2 DEF StreamTypes
        <5> QED BY <1>11, <4>1, <5>1
      <4>3. CASE d = 0
        <5>1. Len(timeline') \in Nat \ {0} /\ timeline'[Len(timeline')] = n
          BY <1>13, <2>2, <3>2, <3>3, <4>1, <4>3 DEF IsGrown
        <5>2. Len(timeline') - d = Len(timeline')
          BY <4>3, <5>1
        <5> QED BY <4>1, <4>3, <5>1, <5>2
      <4>4. CASE d # 0
        <5>1. n \in count - Len(recent) + 1 .. h
          BY <1>11, <3>2, <4>1, <4>4
        <5>2. h - n = d - 1
          BY <3>2, <4>1
        <5>3. Len(timeline) > d - 1 /\ timeline[Len(timeline) - (d - 1)] = n
          BY <2>2, <5>1, <5>2 DEF ShownUpTo
        <5>4. /\ Len(timeline') \in Nat \ {0}
              /\ Len(timeline') = IF Len(timeline) + 1 > TimelineLimit THEN TimelineLimit
                                                                       ELSE Len(timeline) + 1
              /\ \A x \in 1 .. Len(timeline') - 1 :
                   timeline'[Len(timeline') - x] = timeline[Len(timeline) + 1 - x]
          BY <1>13, <2>2 DEF IsGrown
        <5>5. Len(timeline') > d
          BY <1>11, <4>1, <4>2, <5>3, <5>4
        <5>6. d \in 1 .. Len(timeline') - 1 /\ Len(timeline) + 1 - d = Len(timeline) - (d - 1)
          BY <1>11, <4>1, <4>4, <5>4, <5>5
        <5>7. timeline'[Len(timeline') - d] = n
          BY <5>3, <5>4, <5>6
        <5> QED BY <4>1, <5>5, <5>7
      <4> QED BY <4>3, <4>4
    <3> QED BY <3>2, <3>7, <3>8
  <2>3. \A j \in At("live")' : \E h \in 0 .. count' : ReadUpTo(j, h)' /\ ShownUpTo(h)'
    <3> SUFFICES ASSUME NEW j \in At("live")
                 PROVE  \E h \in 0 .. count : ReadUpTo(k, h)' /\ ShownUpTo(h)'
      BY <1>1, <1>3, <1>4 DEF Reading
    <3>1. PICK h \in 0 .. count : ReadUpTo(k, h) /\ ShownUpTo(h)
      BY <1>2, <1>4 DEF RecentArrives, Reading
    <3>2. CASE IsWire(event)
      BY <2>2, <3>1, <3>2
    <3>3. CASE ~IsWire(event)
      BY <2>1, <3>1, <3>3
    <3> QED BY <3>2, <3>3
  <2> QED BY <1>1, <1>2, <2>3 DEF RecentArrives
<1>19. OrderArrives'
  <2>1. \A j \in Reading : j = k
    BY <1>4
  <2>2. \A i, j \in On(k)' : i < j /\ IsWire(channel'[k][i]) /\ IsWire(channel'[k][j])
                               => channel'[k][i].seq < channel'[k][j].seq
    BY <1>2, <1>4, <1>8, <1>20 DEF OrderArrives
  <2>3. \A i \in On(k)' : IsWire(channel'[k][i]) => channel'[k][i].seq <= count
    BY <1>2, <1>4, <1>8 DEF OrderArrives
  <2>4. CASE IsWire(event)
    <3>1. event.seq <= count
      BY <1>2, <1>4, <1>9, <2>4 DEF OrderArrives
    <3>2. ASSUME NEW i \in 1 .. Len(timeline') PROVE timeline'[i] <= count
      <4>1. PICK l \in Nat \ {0} : l = Len(timeline')
        BY <1>13, <2>4 DEF IsGrown
      <4>2. CASE i = l
        BY <1>13, <2>4, <3>1, <4>1, <4>2 DEF IsGrown
      <4>3. CASE i # l
        <5>1. l - i \in 1 .. l - 1 /\ l - (l - i) = i
          BY <4>1, <4>3
        <5>2. timeline'[i] = timeline[Len(timeline) + 1 - (l - i)]
              /\ Len(timeline) + 1 - (l - i) \in 1 .. Len(timeline)
          BY <1>13, <2>4, <4>1, <5>1 DEF IsGrown
        <5> QED BY <1>2, <5>2 DEF OrderArrives
      <4> QED BY <4>2, <4>3
    <3>3. Cardinality(StartsOver(timeline')) <= breaks
      <4>1. timeline \in Seq(Nat) /\ Cardinality(StartsOver(timeline)) \in Nat
        BY <1>2, StreamFacts
      <4>2. Append(timeline, event.seq) \in Seq(Nat)
        BY <1>10, <4>1, AppendProperties
      <4>3. timeline' = LastOf(TimelineLimit, Append(timeline, event.seq))
        BY <1>1, <2>4
      <4>4. Cardinality(StartsOver(timeline')) <=
              Cardinality(StartsOver(Append(timeline, event.seq)))
        BY <1>11, <4>2, <4>3, LastOfStartsOver
      <4>5. Cardinality(StartsOver(Append(timeline, event.seq))) <=
              Cardinality(StartsOver(timeline)) +
                (IF timeline # <<>> /\ event.seq <= timeline[Len(timeline)] THEN 1 ELSE 0)
        BY <1>10, <4>1, AppendStartsOver
      <4>6. (timeline # <<>> /\ event.seq <= timeline[Len(timeline)])
              => Cardinality(StartsOver(timeline)) < breaks
        <5>1. (timeline # <<>> /\ event.seq <= timeline[Len(timeline)]) => NextStartsOver(k)
          BY <1>9, <2>4 DEF NextStartsOver
        <5> QED BY <1>2, <1>4, <5>1 DEF OrderArrives
      <4>7. Cardinality(StartsOver(timeline)) <= breaks /\ breaks \in Nat
        BY <1>2 DEF OrderArrives, StreamTypes
      <4>8. Cardinality(StartsOver(Append(timeline, event.seq))) \in Nat
        BY <4>2, StartsOverIsFinite
      <4>9. Cardinality(StartsOver(timeline')) \in Nat
        <5>1. timeline' \in Seq(Nat)
          BY <1>11, <4>2, <4>3, LastOfIsTheEnd
        <5> QED BY <5>1, StartsOverIsFinite
      <4>10. Cardinality(StartsOver(Append(timeline, event.seq))) <= breaks
        BY <4>1, <4>5, <4>6, <4>7, <4>8
      <4> QED BY <4>4, <4>7, <4>8, <4>9, <4>10
    <3>4. ~NextStartsOver(k)'
      <4> SUFFICES ASSUME NEW i \in On(k)', IsWire(channel'[k][i]),
                          channel'[k][i].seq <= timeline'[Len(timeline')]
                   PROVE  FALSE
        BY DEF NextStartsOver
      <4>1. i + 1 \in On(k) /\ channel'[k][i] = channel[k][i + 1] /\ 1 < i + 1
        BY <1>7, <1>8
      <4>2. event.seq < channel'[k][i].seq
        BY <1>2, <1>4, <1>9, <2>4, <4>1 DEF OrderArrives
      <4>3. channel'[k][i].seq <= event.seq
        BY <1>13, <2>4 DEF IsGrown
      <4>4. channel'[k][i].seq \in Nat /\ event.seq \in Nat
        BY <1>10, <1>12, EventFacts
      <4> QED BY <4>2, <4>3, <4>4
    <3> QED BY <1>1, <1>3, <1>4, <2>1, <2>2, <2>3, <3>2, <3>3, <3>4 DEF OrderArrives
  <2>5. CASE ~IsWire(event)
    <3>1. NextStartsOver(k)' => NextStartsOver(k)
      BY <1>8, <1>14, <2>5 DEF NextStartsOver
    <3> QED BY <1>1, <1>2, <1>3, <1>4, <1>14, <2>1, <2>2, <2>3, <2>5, <3>1 DEF OrderArrives
  <2> QED BY <2>4, <2>5
<1> QED BY <1>15, <1>16, <1>17, <1>18, <1>19 DEF StreamInv

-----------------------------------------------------------------------------
(* The tab, the bridge and the server.                                      *)

\* A tab before its first rendering, and one that is connected and at rest.
LEMMA StreamInitially ==
  ASSUME InterfaceInit
  PROVE  StreamInv
<1>1. /\ uninformed = FALSE /\ hubOpen = TRUE /\ recent = <<>> /\ count = 0
      /\ channel = [k \in Streams |-> <<>>] /\ timeline = <<>> /\ breaks = 0 /\ cleared = FALSE
      /\ status = source /\ source \in BOOLEAN /\ up \in BOOLEAN /\ (source => up = TRUE)
  BY DEF InterfaceInit, FreshTab, SettledTab, HubInit
<1>2. /\ stream \in [Streams -> Places] /\ subscribers = At("live") /\ At("ended") = {}
      /\ At("live") = IF source THEN {1} ELSE {}
      /\ keepAlive \in BOOLEAN /\ (keepAlive <=> subscribers # {})
  <2>1. CASE FreshTab
    BY <2>1 DEF FreshTab, HubInit, At, Places
  <2>2. CASE SettledTab
    <3>1. 1 \in Streams
      BY EventHubAssumption DEF Streams
    <3> QED BY <2>2, <3>1 DEF SettledTab, At, Places
  <2> QED BY <2>1, <2>2 DEF InterfaceInit
<1>3. \A k \in Streams : channel[k] = <<>> /\ Len(channel[k]) = 0 /\ On(k) = {}
  BY <1>1 DEF On
<1>4. At("live") \subseteq Streams /\ Reading = At("live")
  BY <1>2 DEF At, Reading
<1>5. StreamTypes
  <2>1. {ReplayLimit, TimelineLimit, MaxEvents} \subseteq Nat
    BY EventHubAssumption
  <2>2. count \in 0 .. MaxEvents /\ breaks \in Nat
    BY <1>1, <2>1
  <2>3. recent \in Seq(1 .. MaxEvents) /\ Len(recent) <= ReplayLimit
    BY <1>1, <2>1
  <2>4. timeline \in Seq(1 .. MaxEvents) /\ Len(timeline) <= TimelineLimit
    BY <1>1, <2>1
  <2>5. channel \in [Streams -> Seq(Event)]
    BY <1>1
  <2> QED BY <1>1, <1>2, <1>4, <2>2, <2>3, <2>4, <2>5 DEF StreamTypes
<1>6. StreamsAreSound
  BY <1>1, <1>2, <1>4 DEF StreamsAreSound
<1>7. StatusArrives
  BY <1>1, <1>3, <1>4 DEF StatusArrives
<1>8. RecentArrives
  <2>1. Len(recent) = 0
    BY <1>1
  <2>2. ASSUME NEW k \in At("live") PROVE ReadUpTo(k, 0) /\ ShownUpTo(0)
    BY <1>1, <1>3, <1>4, <2>1 DEF ReadUpTo, ShownUpTo
  <2> QED BY <1>1, <2>1, <2>2 DEF RecentArrives
<1>9. OrderArrives
  <2>1. Len(timeline) = 0
    BY <1>1
  <2>2. StartsOver(timeline) = {}
    BY <2>1 DEF StartsOver
  <2>3. Cardinality(StartsOver(timeline)) = 0
    BY <2>2, FS_EmptySet
  <2> QED BY <1>1, <1>3, <1>4, <2>1, <2>3 DEF OrderArrives, NextStartsOver
<1> QED BY <1>5, <1>6, <1>7, <1>8, <1>9 DEF StreamInv

\* What the user starts changes neither the stream nor the connection, nor does
\* a request that is served; a change of the connection is told to the stream.
LEMMA NextKeepsStream ==
  ASSUME StreamInv, [Next]_vars
  PROVE  StreamInv'
<1> USE DEF serverVars, historyVars, viewVars
<1>1. CASE UNCHANGED vars
  BY <1>1, ElsewhereKeepsStream DEF vars
<1>2. ASSUME NEW o, NEW kind, NEW s, NEW rule, NEW of, Start(o, kind, s, rule, of)
      PROVE  StreamInv'
  BY <1>2, ElsewhereKeepsStream DEF Start
<1>3. ASSUME NEW o \in Ops, Serve(o) PROVE StreamInv'
  <2>1. UNCHANGED <<tabVars, hubVars, breaks, uninformed, up>>
    BY <1>3 DEF Serve
  <2> QED BY <2>1, ElsewhereKeepsStream DEF streamVars
<1>4. ASSUME NEW o \in Ops, TellStatus(o) \/ Fails(o) \/ ReplyLost(o) PROVE StreamInv'
  BY <1>4, ElsewhereKeepsStream DEF TellStatus, Fails, ReplyLost
<1>5. ASSUME NEW o \in Ops, BridgeConnects(o) PROVE StreamInv'
  <2>1. up' = TRUE /\ UNCHANGED <<tabVars, breaks>>
    BY <1>5 DEF BridgeConnects
  <2>2. CASE up
    <3>1. UNCHANGED <<hubVars, uninformed>> /\ up \in BOOLEAN
      BY <1>5, <2>2 DEF BridgeConnects, StreamInv, StreamTypes
    <3> QED BY <2>1, <2>2, <3>1, ElsewhereKeepsStream DEF streamVars
  <2>3. CASE ~up
    <3>1. Tell(TRUE)
      BY <1>5, <2>3 DEF BridgeConnects
    <3> QED BY <2>1, <3>1, TellKeepsStream
  <2> QED BY <2>2, <2>3
<1>6. ASSUME NEW o \in Ops, BridgeDisconnects(o) PROVE StreamInv'
  <2>1. up' = FALSE /\ UNCHANGED <<tabVars, breaks>>
    BY <1>6 DEF BridgeDisconnects
  <2>2. CASE ~up
    <3>1. UNCHANGED <<hubVars, uninformed>> /\ up \in BOOLEAN
      BY <1>6, <2>2 DEF BridgeDisconnects, StreamInv, StreamTypes
    <3> QED BY <2>1, <2>2, <3>1, ElsewhereKeepsStream DEF streamVars
  <2>3. CASE up
    <3>1. Tell(FALSE)
      BY <1>6, <2>3 DEF BridgeDisconnects
    <3> QED BY <2>1, <3>1, TellKeepsStream
  <2> QED BY <2>2, <2>3
<1>7. ASSUME LinkLost PROVE StreamInv'
  <2>1. up' = FALSE /\ Tell(FALSE) /\ UNCHANGED <<tabVars, breaks>>
    BY <1>7 DEF LinkLost
  <2> QED BY <2>1, TellKeepsStream
<1>8. ASSUME NEW o \in Ops, Resume(o) PROVE StreamInv'
  <2>1. UNCHANGED <<hubVars, timeline, cleared, breaks, up>>
    BY <1>8 DEF Resume
  <2>2. source \in BOOLEAN
    BY DEF StreamInv, StreamTypes
  <2>3. CASE op[o].ok
    <3> DEFINE told == Request(o) \in {"status", "connect", "disconnect"}
    <3>1. /\ status' = IF told THEN op[o].data = Told(TRUE) ELSE status
          /\ uninformed' = IF told THEN status' # up ELSE uninformed
          /\ source' = (source \/ (Request(o) \in {"status", "connect"} /\ status'))
      BY <1>8, <2>3 DEF Resume, Show
    <3>2. CASE told
      <4>1. status' \in BOOLEAN /\ uninformed' = (status' # up) /\ source' \in {source, TRUE}
        BY <2>2, <3>1, <3>2
      <4> QED BY <2>1, <4>1, ReplyKeepsStream
    <3>3. CASE ~told
      <4>1. UNCHANGED <<status, source, uninformed>>
        BY <2>2, <3>1, <3>3
      <4> QED BY <2>1, <4>1, ReplyKeepsStream
    <3> QED BY <3>2, <3>3
  <2>4. CASE ~op[o].ok
    <3>1. UNCHANGED <<status, source, uninformed>>
      BY <1>8, <2>4 DEF Resume
    <3> QED BY <2>1, <3>1, ReplyKeepsStream
  <2> QED BY <2>3, <2>4
<1>9. ASSUME Deselect \/ AddOrCancel \/ \E rule \in Rules : Edit(rule) PROVE StreamInv'
  BY <1>9, ElsewhereKeepsStream DEF Deselect, AddOrCancel, Edit
<1>10. ASSUME StreamStep, UNCHANGED <<serverVars, op, viewVars, historyVars>> PROVE StreamInv'
  <2>1. UNCHANGED <<up, uninformed>>
    BY <1>10
  <2> QED BY <1>10, <2>1, PublishKeepsStream, CloseKeepsStream, ClearKeepsStream,
             OpenKeepsStream, BreakKeepsStream, DetachKeepsStream, HandleKeepsStream,
             FinishKeepsStream DEF StreamStep
<1>11. ASSUME NEW o \in Ops,
              \/ Mount(o) \/ Connect(o) \/ Disconnect(o) \/ Create(o) \/ Raw(o)
              \/ Load(o)
              \/ \E typed \in Rules \cup {None} : Submit(o, typed)
              \/ \E s \in Sessions : Select(o, s)
              \/ \E kind \in {"close", "run"} : OnCurrent(o, kind)
              \/ \E kind \in {"update", "delete"}, rule \in Rules : OnRule(o, kind, rule)
       PROVE  StreamInv'
  <2>1. \E kind, s, rule, of : Start(o, kind, s, rule, of)
    BY <1>11, Zenon DEF Mount, Connect, Disconnect, Create, Raw, Submit, Load, Select,
                        OnCurrent, OnRule
  <2> QED BY <1>2, <2>1
<1> QED BY <1>1, <1>3, <1>4, <1>5, <1>6, <1>7, <1>8, <1>9, <1>10, <1>11 DEF Next

\* The invariant of the stream holds throughout.
LEMMA StreamIsKept == Spec => []StreamInv
<1>1. InterfaceInit => StreamInv
  BY StreamInitially
<1>2. StreamInv /\ [Next]_vars => StreamInv'
  BY NextKeepsStream
<1> QED BY <1>1, <1>2, PTL DEF Spec

\* The status of a tab that has read its stream is that of the connection,
\* however the operations, the events, the losses and the breaks fall
\* (useBridge.ts, events.ts): unless the stream broke, a reply of before came
\* last, or no stream was open for the change.
THEOREM StatusStaysCurrent == Spec => []StatusIsCurrent
<1>1. StreamInv => StatusIsCurrent
  <2> SUFFICES ASSUME StreamInv, NEW k \in At("live"), channel[k] = <<>>, breaks = 0, ~uninformed
               PROVE  status = up
    BY DEF StatusIsCurrent
  <2>1. StreamsAreSound /\ StatusArrives
    BY DEF StreamInv
  <2>2. \A j \in At("live") : j = k
    BY <2>1 DEF StreamsAreSound, Reading
  <2>3. Quiet(k)
    BY DEF Quiet, On
  <2> QED BY <2>1, <2>2, <2>3 DEF StatusArrives, StreamsAreSound
<1> QED BY <1>1, StreamIsKept, PTL

-----------------------------------------------------------------------------
(* The view.                                                                *)

OnSession == {"select", "close", "add", "save", "update", "delete", "run", "load"}
OnRules == {"save", "update", "delete"}
OnLists == {"add"} \cup OnRules

Operation ==
  [kind : DOMAIN Program \cup {"none"}, session : Sessions \cup {None}, rule : Rules \cup {None},
   of : Sessions \cup {None}, step : {1, 2}, at : {"unused", "sent", "replied", "over"},
   ok : BOOLEAN, data : SUBSET Nat]

Editors == [open : BOOLEAN, rule : Rules \cup {None}, of : Sessions \cup {None}]

ViewTypes ==
  /\ connecting \in BOOLEAN /\ busy \in BOOLEAN /\ overlapped \in BOOLEAN /\ lost \in Nat
  /\ created \in 0 .. MaxSessions /\ added \in 0 .. MaxRules
  /\ active \subseteq 1 .. created
  /\ sessions \in Seq(Sessions) /\ \A i \in 1 .. Len(sessions) : sessions[i] <= created
  /\ current \in Sessions \cup {None} /\ results \in Sessions \cup {None}
  /\ lastResult \in Sessions \cup {None}
  /\ rules \in [of : Sessions \cup {None}, ids : SUBSET Rules]
  /\ editing \in Editors /\ fields \in Editors
  /\ chosen \subseteq Rules
  /\ op \in [Ops -> Operation]

\* An operation that was started has a request, and a session when it needs one.
OperationsAreSound ==
  \A o \in Ops :
    /\ op[o].at # "unused" => op[o].kind # "none" /\ op[o].step \in 1 .. Len(Program[op[o].kind])
    /\ o \in Under /\ op[o].kind \in OnSession => op[o].session \in Sessions

\* What a reply brings is what the server has or had.
Answered(o, request) == op[o].at = "replied" /\ op[o].ok /\ Request(o) = request

RepliesAreSound ==
  \A o \in Ops :
    /\ Answered(o, "LIST_SESSIONS") => op[o].data \subseteq 1 .. created
    /\ Answered(o, "CREATE_SESSION") => \E n \in 1 .. created : op[o].data = {n}

\* Rule r is or was one of session s, and of no other, unless a client chose its
\* identifier.
IsOf(r, s, held, n, c) ==
  r \in c \/ (r \in 1 .. n /\ \A t \in Sessions : r \in held[t] => t = s)

RulesHaveSessions ==
  /\ rulesOf \in [Sessions -> SUBSET Rules]
  /\ \A s \in Sessions : \A r \in rulesOf[s] : IsOf(r, s, rulesOf, added, chosen)
  /\ \A s \in Sessions : s > created => rulesOf[s] = {}
  /\ \A r \in rules.ids : IsOf(r, rules.of, rulesOf, added, chosen)
  /\ \A o \in Ops :
       /\ op[o].kind \in OnRules /\ o \in Under =>
            IsOf(op[o].rule, op[o].of, rulesOf, added, chosen)
       /\ op[o].kind = "add" /\ o \in Under => op[o].rule \in chosen \cup {None}
       /\ Answered(o, "LIST_RULES") =>
            \A r \in op[o].data : IsOf(r, op[o].session, rulesOf, added, chosen)

\* So have the editor and its fields, which hold a rule only while it is on one.
EditorIsSound ==
  /\ editing.rule # None => IsOf(editing.rule, editing.of, rulesOf, added, chosen)
  /\ fields.rule # None => IsOf(fields.rule, fields.of, rulesOf, added, chosen)
  /\ fields.open => editing.open /\ current # None
  /\ fields.rule # None => editing.rule # None

\* Without operations under way together:
OneIsUnder == \A o, p \in Under : o = p

UnderIsOfTheSession ==
  current # None => \A o \in Under : op[o].kind \in OnSession => op[o].session = current

CreatedIsNew ==
  \A o \in Ops : Answered(o, "CREATE_SESSION") =>
    \A n \in op[o].data : rulesOf[n] = {} /\ \A i \in 1 .. Len(sessions) : sessions[i] # n

\* The list of rules waits to be shown.
Stale(o) ==
  \/ op[o].kind = "select" /\ op[o].step = 1
  \/ /\ op[o].kind \in OnLists
     /\ op[o].step = 2 \/ (op[o].at = "replied" /\ op[o].ok)

RulesArrive ==
  /\ \A o \in Under : op[o].at = "replied" /\ Request(o) = "LIST_RULES"
                        => op[o].ok /\ op[o].data = rulesOf[op[o].session]
  /\ current # None /\ (\A o \in Under : ~Stale(o)) => rules.ids = rulesOf[current]

Alone ==
  ~overlapped => /\ OneIsUnder
                 /\ UnderIsOfTheSession
                 /\ current # None => rules.of = current /\ results = current
                 /\ CreatedIsNew
                 /\ IsInjective(sessions)
                 /\ lost = 0 => RulesArrive

ViewInv ==
  /\ ViewTypes
  /\ OperationsAreSound
  /\ RepliesAreSound
  /\ RulesHaveSessions
  /\ EditorIsSound
  /\ ChangesMeetTheirRule
  /\ Alone

-----------------------------------------------------------------------------
(* Operations and replies.                                                  *)

\* The requests of each operation.
LEMMA ProgramFacts ==
  /\ DOMAIN Program = {"mount", "connect", "disconnect", "select", "create", "close", "add",
                       "save", "update", "delete", "run", "load", "raw"}
  /\ \A kind \in DOMAIN Program : Len(Program[kind]) \in {1, 2}
  /\ \A kind \in OnLists : Len(Program[kind]) = 2
  /\ Program["select"][1] = "LIST_RULES"
  /\ \A kind \in OnLists : Program[kind][2] = "LIST_RULES"
  /\ \A kind \in OnRules : Program[kind][1] \in {"UPDATE_RULE", "DELETE_RULE"}
  /\ \A kind \in DOMAIN Program : \A i \in 1 .. Len(Program[kind]) :
       /\ Program[kind][i] = "LIST_RULES" =>
            (kind = "select" /\ i = 1) \/ (kind \in OnLists /\ i = 2)
       /\ Program[kind][i] = "LIST_RESULTS" => kind \in {"select", "run"} /\ i = 2
       /\ Program[kind][i] \in {"ADD_RULE"} => kind = "add" /\ i = 1
       /\ Program[kind][i] \in {"UPDATE_RULE"} => kind \in {"save", "update"} /\ i = 1
       /\ Program[kind][i] \in {"DELETE_RULE"} => kind = "delete" /\ i = 1
       /\ Program[kind][i] = "CLOSE_SESSION" => kind = "close"
       /\ Program[kind][i] = "RUN_TEST" => kind = "run"
       /\ Program[kind][i] = "GET_RESULT" => kind = "load"
       /\ Program[kind][i] \in {"CREATE_SESSION", "disconnect", "LIST_SESSIONS"} =>
            i = Len(Program[kind])
<1>1. DOMAIN Program = {"mount", "connect", "disconnect", "select", "create", "close", "add",
                        "save", "update", "delete", "run", "load", "raw"}
  BY DEF Program
<1>2. /\ Program["mount"] = <<"status", "LIST_SESSIONS">>
      /\ Program["connect"] = <<"connect", "LIST_SESSIONS">>
      /\ Program["disconnect"] = <<"disconnect">>
      /\ Program["select"] = <<"LIST_RULES", "LIST_RESULTS">>
      /\ Program["create"] = <<"CREATE_SESSION">>
      /\ Program["close"] = <<"CLOSE_SESSION", "LIST_SESSIONS">>
  BY DEF Program
<1>3. /\ Program["add"] = <<"ADD_RULE", "LIST_RULES">>
      /\ Program["save"] = <<"UPDATE_RULE", "LIST_RULES">>
      /\ Program["update"] = <<"UPDATE_RULE", "LIST_RULES">>
      /\ Program["delete"] = <<"DELETE_RULE", "LIST_RULES">>
      /\ Program["run"] = <<"RUN_TEST", "LIST_RESULTS">>
      /\ Program["load"] = <<"GET_RESULT">>
      /\ Program["raw"] = <<"raw">>
  BY DEF Program
<1> HIDE DEF Program
<1>4. \A a : Len(<<a>>) = 1 /\ <<a>>[1] = a
  OBVIOUS
<1>5. \A a, b : Len(<<a, b>>) = 2 /\ <<a, b>>[1] = a /\ <<a, b>>[2] = b
  OBVIOUS
<1>6. /\ Len(Program["mount"]) = 2 /\ Program["mount"][1] = "status"
      /\ Program["mount"][2] = "LIST_SESSIONS"
      /\ Len(Program["connect"]) = 2 /\ Program["connect"][1] = "connect"
      /\ Program["connect"][2] = "LIST_SESSIONS"
      /\ Len(Program["disconnect"]) = 1 /\ Program["disconnect"][1] = "disconnect"
  BY <1>2, <1>4, <1>5
<1>7. /\ Len(Program["select"]) = 2 /\ Program["select"][1] = "LIST_RULES"
      /\ Program["select"][2] = "LIST_RESULTS"
      /\ Len(Program["create"]) = 1 /\ Program["create"][1] = "CREATE_SESSION"
      /\ Len(Program["close"]) = 2 /\ Program["close"][1] = "CLOSE_SESSION"
      /\ Program["close"][2] = "LIST_SESSIONS"
  BY <1>2, <1>4, <1>5
<1>8. /\ Len(Program["add"]) = 2 /\ Program["add"][1] = "ADD_RULE"
      /\ Program["add"][2] = "LIST_RULES"
      /\ Len(Program["save"]) = 2 /\ Program["save"][1] = "UPDATE_RULE"
      /\ Program["save"][2] = "LIST_RULES"
      /\ Len(Program["update"]) = 2 /\ Program["update"][1] = "UPDATE_RULE"
      /\ Program["update"][2] = "LIST_RULES"
      /\ Len(Program["delete"]) = 2 /\ Program["delete"][1] = "DELETE_RULE"
      /\ Program["delete"][2] = "LIST_RULES"
  BY <1>3, <1>5
<1>9. /\ Len(Program["run"]) = 2 /\ Program["run"][1] = "RUN_TEST"
      /\ Program["run"][2] = "LIST_RESULTS"
      /\ Len(Program["load"]) = 1 /\ Program["load"][1] = "GET_RESULT"
      /\ Len(Program["raw"]) = 1 /\ Program["raw"][1] = "raw"
  BY <1>3, <1>4, <1>5
<1>10. 1 .. 1 = {1} /\ 1 .. 2 = {1, 2}
  OBVIOUS
<1>11. ASSUME NEW kind \in DOMAIN Program, NEW i \in 1 .. Len(Program[kind])
       PROVE  /\ Program[kind][i] = "LIST_RULES" =>
                   (kind = "select" /\ i = 1) \/ (kind \in OnLists /\ i = 2)
              /\ Program[kind][i] = "LIST_RESULTS" => kind \in {"select", "run"} /\ i = 2
              /\ Program[kind][i] \in {"ADD_RULE"} => kind = "add" /\ i = 1
              /\ Program[kind][i] \in {"UPDATE_RULE"} => kind \in {"save", "update"} /\ i = 1
              /\ Program[kind][i] \in {"DELETE_RULE"} => kind = "delete" /\ i = 1
              /\ Program[kind][i] = "CLOSE_SESSION" => kind = "close"
              /\ Program[kind][i] = "RUN_TEST" => kind = "run"
              /\ Program[kind][i] = "GET_RESULT" => kind = "load"
              /\ Program[kind][i] \in {"CREATE_SESSION", "disconnect", "LIST_SESSIONS"} =>
                   i = Len(Program[kind])
  <2>1. CASE kind \in {"mount", "connect", "disconnect"}
    BY <1>6, <1>10, <2>1
  <2>2. CASE kind = "select"
    <3>1. i \in {1, 2}
      BY <1>7, <1>10, <2>2
    <3>2. CASE i = 1
      <4>1. Program[kind][i] = "LIST_RULES"
        BY <1>7, <2>2, <3>2
      <4> QED BY <2>2, <3>2, <4>1
    <3>3. CASE i = 2
      <4>1. Program[kind][i] = "LIST_RESULTS"
        BY <1>7, <2>2, <3>3
      <4> QED BY <2>2, <3>3, <4>1
    <3> QED BY <3>1, <3>2, <3>3
  <2>5. CASE kind \in {"create", "close"}
    BY <1>7, <1>10, <2>5
  <2>3. CASE kind \in OnLists
    BY <1>8, <1>10, <2>3 DEF OnLists, OnRules
  <2>4. CASE kind \in {"run", "load", "raw"}
    BY <1>9, <1>10, <2>4
  <2> QED BY <1>1, <2>1, <2>2, <2>3, <2>4, <2>5 DEF OnLists, OnRules
<1>12. \A kind \in DOMAIN Program : Len(Program[kind]) \in {1, 2}
  BY <1>1, <1>6, <1>7, <1>8, <1>9
<1> QED BY <1>1, <1>7, <1>8, <1>11, <1>12 DEF OnLists, OnRules

\* The elements of a finite set, one after the other.
LEMMA SetToSeqListsThem ==
  ASSUME NEW S, IsFiniteSet(S)
  PROVE  SetToSeq(S) \in Seq(S) /\ IsInjective(SetToSeq(S))
<1>1. Cardinality(S) \in Nat /\ ExistsBijection(1 .. Cardinality(S), S)
  BY FS_CardinalityType
<1>2. PICK f \in [1 .. Cardinality(S) -> S] : \A a, b \in 1 .. Cardinality(S) : f[a] = f[b] => a = b
  BY <1>1 DEF ExistsBijection, Bijection, Injection, IsInjective
<1>3. IsInjective(f)
  BY <1>2 DEF IsInjective
<1>4. SetToSeq(S) \in [1 .. Cardinality(S) -> S] /\ IsInjective(SetToSeq(S))
  BY <1>2, <1>3 DEF SetToSeq
<1> QED BY <1>1, <1>4

\* The types of the operations and of what there is.
LEMMA ViewFacts ==
  ASSUME ViewInv
  PROVE  /\ MaxSessions \in Nat /\ MaxRules \in Nat /\ created \in Nat /\ added \in Nat
         /\ 1 .. created \subseteq Sessions /\ 1 .. added \subseteq Rules
         /\ \A s \in Sessions : s \in Nat /\ s # None
         /\ \A o \in Ops : /\ op[o] \in Operation
                           /\ op[o].kind \in DOMAIN Program \cup {"none"}
                           /\ op[o].session \in Sessions \cup {None}
                           /\ op[o].rule \in Rules \cup {None}
                           /\ op[o].of \in Sessions \cup {None} /\ op[o].step \in {1, 2}
                           /\ op[o].at \in {"unused", "sent", "replied", "over"}
                           /\ op[o].ok \in BOOLEAN /\ op[o].data \in SUBSET Nat
         /\ \A o \in Under : /\ o \in Ops /\ op[o].kind \in DOMAIN Program
                             /\ op[o].step \in 1 .. Len(Program[op[o].kind])
<1>1. MaxSessions \in Nat /\ MaxRules \in Nat
  BY InterfaceAssumption
<1>2. created \in 0 .. MaxSessions /\ added \in 0 .. MaxRules /\ op \in [Ops -> Operation]
  BY DEF ViewInv, ViewTypes
<1>3. created \in Nat /\ added \in Nat /\ created <= MaxSessions /\ added <= MaxRules
  BY <1>1, <1>2
<1>4. 1 .. created \subseteq Sessions /\ 1 .. added \subseteq Rules
  BY <1>1, <1>3 DEF Sessions, Rules
<1>5. \A s \in Sessions : s \in Nat /\ s # None
  BY <1>1 DEF Sessions, None
<1>6. \A o \in Ops : op[o] \in Operation
  BY <1>2
<1>7. ASSUME NEW o \in Ops
      PROVE  /\ op[o].kind \in DOMAIN Program \cup {"none"}
             /\ op[o].session \in Sessions \cup {None}
             /\ op[o].rule \in Rules \cup {None}
             /\ op[o].of \in Sessions \cup {None} /\ op[o].step \in {1, 2}
             /\ op[o].at \in {"unused", "sent", "replied", "over"}
             /\ op[o].ok \in BOOLEAN /\ op[o].data \in SUBSET Nat
  <2>1. op[o] \in Operation
    BY <1>6
  <2> QED BY <2>1 DEF Operation
<1>8. ASSUME NEW o \in Under
      PROVE  /\ o \in Ops /\ op[o].kind \in DOMAIN Program
             /\ op[o].step \in 1 .. Len(Program[op[o].kind])
  <2>1. o \in Ops /\ op[o].at # "unused"
    BY DEF Under
  <2>2. op[o].kind # "none" /\ op[o].step \in 1 .. Len(Program[op[o].kind])
    BY <2>1 DEF ViewInv, OperationsAreSound
  <2> QED BY <1>7, <2>1, <2>2
<1> QED BY <1>1, <1>3, <1>4, <1>5, <1>6, <1>7, <1>8

\* What a request says of its operation.
LEMMA RequestFacts ==
  ASSUME ViewInv, NEW o \in Under
  PROVE  /\ Request(o) = "LIST_RULES" =>
              \/ op[o].kind = "select" /\ op[o].step = 1
              \/ op[o].kind \in OnLists /\ op[o].step = 2
         /\ op[o].kind = "select" /\ op[o].step = 1 => Request(o) = "LIST_RULES"
         /\ op[o].kind \in OnLists /\ op[o].step = 2
              => Request(o) = "LIST_RULES"
         /\ op[o].kind \in OnLists => Len(Program[op[o].kind]) = 2
         /\ Request(o) = "LIST_RESULTS" => op[o].kind \in {"select", "run"}
         /\ Request(o) = "ADD_RULE" => op[o].kind = "add"
         /\ Request(o) = "UPDATE_RULE" => op[o].kind \in {"save", "update"} /\ op[o].step = 1
         /\ Request(o) = "DELETE_RULE" => op[o].kind = "delete" /\ op[o].step = 1
         /\ Request(o) \in {"CREATE_SESSION", "disconnect", "LIST_SESSIONS"} =>
              op[o].step = Len(Program[op[o].kind])
         /\ Request(o) \in {"LIST_RULES", "LIST_RESULTS", "ADD_RULE", "UPDATE_RULE", "DELETE_RULE",
                            "CLOSE_SESSION", "RUN_TEST", "GET_RESULT"} =>
              op[o].kind \in OnSession /\ op[o].session \in Sessions
<1>1. PICK kind \in DOMAIN Program : kind = op[o].kind
  BY ViewFacts
<1>2. PICK i \in 1 .. Len(Program[kind]) : i = op[o].step
  BY <1>1, ViewFacts
<1>3. Request(o) = Program[kind][i]
  BY <1>1, <1>2 DEF Request
<1>4. o \in Ops /\ (kind \in OnSession => op[o].session \in Sessions)
  BY <1>1, ViewFacts DEF ViewInv, OperationsAreSound
<1>5. /\ Program[kind][i] = "LIST_RULES" =>
           (kind = "select" /\ i = 1) \/ (kind \in OnLists /\ i = 2)
      /\ Program[kind][i] = "LIST_RESULTS" => kind \in {"select", "run"} /\ i = 2
      /\ Program[kind][i] \in {"ADD_RULE"} => kind = "add" /\ i = 1
      /\ Program[kind][i] \in {"UPDATE_RULE"} => kind \in {"save", "update"} /\ i = 1
      /\ Program[kind][i] \in {"DELETE_RULE"} => kind = "delete" /\ i = 1
      /\ Program[kind][i] = "CLOSE_SESSION" => kind = "close"
      /\ Program[kind][i] = "RUN_TEST" => kind = "run"
      /\ Program[kind][i] = "GET_RESULT" => kind = "load"
      /\ Program[kind][i] \in {"CREATE_SESSION", "disconnect", "LIST_SESSIONS"} =>
           i = Len(Program[kind])
  BY ProgramFacts
<1>6. /\ kind = "select" /\ i = 1 => Program[kind][i] = "LIST_RULES"
      /\ kind \in OnLists /\ i = 2 => Program[kind][i] = "LIST_RULES"
      /\ kind \in OnLists => Len(Program[kind]) = 2
  BY ProgramFacts
<1>7. Program[kind][i] \in {"LIST_RULES", "LIST_RESULTS", "ADD_RULE", "UPDATE_RULE", "DELETE_RULE",
                            "CLOSE_SESSION", "RUN_TEST", "GET_RESULT"} => kind \in OnSession
  BY <1>5 DEF OnSession, OnLists, OnRules
<1> QED BY <1>1, <1>2, <1>3, <1>4, <1>5, <1>6, <1>7

\* A reply changes nothing else of the operations.
LEMMA ReplyFacts ==
  ASSUME ViewInv, NEW o \in Under, NEW ok \in BOOLEAN, NEW data \in SUBSET Nat, Reply(o, ok, data)
  PROVE  /\ op' \in [Ops -> Operation] /\ Under' = Under
         /\ \A p \in Ops : p # o => op'[p] = op[p]
         /\ \A p \in Ops : /\ op'[p].kind = op[p].kind /\ op'[p].session = op[p].session
                           /\ op'[p].rule = op[p].rule /\ op'[p].of = op[p].of
                           /\ op'[p].step = op[p].step
         /\ \A p \in Ops : Request(p)' = Request(p)
         /\ op'[o].at = "replied" /\ op'[o].ok = ok /\ op'[o].data = data
<1>1. op \in [Ops -> Operation]
  BY DEF ViewInv, ViewTypes
<1>2. o \in Ops /\ op[o].at \in {"sent", "replied"}
  BY DEF Under
<1>3. op[o] \in Operation
  BY <1>1, <1>2
<1>4. op' = [op EXCEPT ![o] = [op[o] EXCEPT !.at = "replied", !.ok = ok, !.data = data]]
  BY <1>1, <1>2 DEF Reply
<1>5. PICK new : new = [op[o] EXCEPT !.at = "replied", !.ok = ok, !.data = data]
  OBVIOUS
<1>6. /\ new \in Operation /\ new.kind = op[o].kind /\ new.session = op[o].session
      /\ new.rule = op[o].rule /\ new.of = op[o].of /\ new.step = op[o].step
      /\ new.at = "replied" /\ new.ok = ok /\ new.data = data
  BY <1>3, <1>5 DEF Operation
<1>7. op'[o] = new /\ \A p \in Ops : p # o => op'[p] = op[p]
  BY <1>1, <1>2, <1>4, <1>5
<1>8. op' \in [Ops -> Operation]
  BY <1>1, <1>2, <1>4, <1>5, <1>6
<1>9. ASSUME NEW p \in Ops
      PROVE  /\ op'[p].kind = op[p].kind /\ op'[p].session = op[p].session
             /\ op'[p].rule = op[p].rule /\ op'[p].of = op[p].of
             /\ op'[p].step = op[p].step
             /\ op'[p].at \in {"sent", "replied"} <=> op[p].at \in {"sent", "replied"}
  <2>1. CASE p = o
    BY <1>2, <1>6, <1>7, <2>1
  <2>2. CASE p # o
    BY <1>7, <2>2
  <2> QED BY <2>1, <2>2
<1>10. Under' = Under
  BY <1>9 DEF Under
<1>11. \A p \in Ops : Request(p)' = Request(p)
  BY <1>9 DEF Request
<1> QED BY <1>6, <1>7, <1>8, <1>9, <1>10, <1>11

-----------------------------------------------------------------------------
(* The steps of the view.                                                   *)

\* What a request does to the sessions and rules, and what its reply tells of them.
AddsRule(s, r) ==
  /\ s \in active
  /\ r \in chosen \/ (r = added + 1 /\ added' = r)
  /\ rulesOf' = [rulesOf EXCEPT ![s] = rulesOf[s] \cup {r}]

DeletesRule(s, r) ==
  /\ added' = added
  /\ rulesOf' = [rulesOf EXCEPT ![s] = rulesOf[s] \ {r}]

CreatesSession ==
  /\ created < MaxSessions /\ created' = created + 1
  /\ active' = active \cup {created + 1}

Effect(o, ok, data) ==
  /\ Reply(o, ok, data)
  /\ Request(o) = "LIST_SESSIONS" /\ ok => data = 1 .. created
  /\ Request(o) = "LIST_RULES" => /\ ok => data = rulesOf[op[o].session]
                                  /\ lost' = 0 => ok
  /\ Request(o) = "CREATE_SESSION" /\ ok => data = {created + 1} /\ CreatesSession
  /\ Request(o) \in {"UPDATE_RULE", "DELETE_RULE"} /\ ok => op[o].rule \in rulesOf[op[o].session]
  /\ CreatesSession \/ (created' = created /\ active' \subseteq active)
  /\ \/ UNCHANGED <<added, rulesOf>>
     \/ /\ Request(o) = "ADD_RULE" /\ added' \in {added, added + 1} \cap 0 .. MaxRules
        /\ UNCHANGED rulesOf \/ (ok /\ \E r : AddsRule(op[o].session, r))
     \/ Request(o) = "DELETE_RULE" /\ ok /\ DeletesRule(op[o].session, op[o].rule)

\* A step that only serves a request.
LEMMA EffectKeepsRules ==
  ASSUME ViewInv, NEW o \in Under, NEW ok \in BOOLEAN, NEW data \in SUBSET Nat, Effect(o, ok, data)
  PROVE  /\ created' \in created .. MaxSessions /\ added' \in added .. MaxRules
         /\ active' \subseteq 1 .. created'
         /\ rulesOf' \in [Sessions -> SUBSET Rules]
         /\ \A s \in Sessions : \A r \in rulesOf'[s] :
              \/ r \in rulesOf[s]
              \/ /\ r \in chosen \/ (r = added + 1 /\ added' = added + 1)
                 /\ s = op[o].session
         /\ \A s \in Sessions : s > created => rulesOf'[s] = {}
<1>1. /\ active \subseteq 1 .. created /\ rulesOf \in [Sessions -> SUBSET Rules]
      /\ created \in 0 .. MaxSessions /\ added \in 0 .. MaxRules
      /\ \A s \in Sessions : s > created => rulesOf[s] = {}
  BY DEF ViewInv, ViewTypes, RulesHaveSessions
<1>2. MaxSessions \in Nat /\ MaxRules \in Nat /\ created \in Nat /\ added \in Nat
  BY ViewFacts
<1>3. created' \in created .. MaxSessions /\ active' \subseteq 1 .. created'
  <2>1. CASE CreatesSession
    <3>1. 1 .. created \cup {created + 1} = 1 .. created + 1
      BY <1>2
    <3> QED BY <1>1, <1>2, <2>1, <3>1 DEF CreatesSession
  <2>2. CASE created' = created /\ active' \subseteq active
    BY <1>1, <1>2, <2>2
  <2> QED BY <2>1, <2>2 DEF Effect
<1>4. CASE UNCHANGED <<added, rulesOf>>
  BY <1>1, <1>2, <1>3, <1>4
<1>7. ASSUME added' \in {added, added + 1} \cap 0 .. MaxRules PROVE added' \in added .. MaxRules
  BY <1>2, <1>7
<1>8. CASE /\ added' \in {added, added + 1} \cap 0 .. MaxRules /\ UNCHANGED rulesOf
  BY <1>1, <1>3, <1>7, <1>8
<1>5. ASSUME Request(o) = "ADD_RULE", added' \in {added, added + 1} \cap 0 .. MaxRules,
             NEW r, AddsRule(op[o].session, r)
      PROVE  /\ rulesOf' \in [Sessions -> SUBSET Rules]
             /\ \A s \in Sessions : \A q \in rulesOf'[s] :
                  \/ q \in rulesOf[s]
                  \/ /\ q \in chosen \/ (q = added + 1 /\ added' = added + 1)
                     /\ s = op[o].session
             /\ \A s \in Sessions : s > created => rulesOf'[s] = {}
  <2>1. PICK s \in Sessions : s = op[o].session
    BY <1>5, RequestFacts
  <2>2. /\ s \in active /\ (r \in chosen \/ (r = added + 1 /\ added' = added + 1))
        /\ rulesOf' = [rulesOf EXCEPT ![s] = rulesOf[s] \cup {r}]
    BY <1>5, <2>1 DEF AddsRule
  <2>3. r \in Rules
    <3>1. chosen \subseteq Rules
      BY DEF ViewInv, ViewTypes
    <3>2. r = added + 1 /\ added' = added + 1 => r \in Rules
      BY <1>2, <1>5, <1>7 DEF Rules
    <3> QED BY <2>2, <3>1, <3>2
  <2>4. rulesOf[s] \cup {r} \in SUBSET Rules
    BY <1>1, <2>3
  <2>5. rulesOf' \in [Sessions -> SUBSET Rules]
    BY <1>1, <2>2, <2>4
  <2>6. \A t \in Sessions : rulesOf'[t] = IF t = s THEN rulesOf[s] \cup {r} ELSE rulesOf[t]
    BY <1>1, <2>2
  <2>7. \A t \in Sessions : t > created => t # s
    <3>1. s \in 1 .. created
      BY <1>1, <2>2
    <3> QED BY <1>2, <3>1
  <2> QED BY <1>1, <2>1, <2>2, <2>5, <2>6, <2>7
<1>6. CASE Request(o) = "DELETE_RULE" /\ DeletesRule(op[o].session, op[o].rule)
  <2>1. PICK s \in Sessions : s = op[o].session
    BY <1>6, RequestFacts
  <2>2. added' = added /\ rulesOf' = [rulesOf EXCEPT ![s] = rulesOf[s] \ {op[o].rule}]
    BY <1>6, <2>1 DEF DeletesRule
  <2>3. rulesOf' \in [Sessions -> SUBSET Rules]
    BY <1>1, <2>2
  <2>4. \A t \in Sessions : rulesOf'[t] \subseteq rulesOf[t]
    BY <1>1, <2>2
  <2> QED BY <1>1, <1>2, <1>3, <2>2, <2>3, <2>4
<1>9. CASE /\ Request(o) = "ADD_RULE" /\ added' \in {added, added + 1} \cap 0 .. MaxRules
           /\ \E r : AddsRule(op[o].session, r)
  BY <1>3, <1>5, <1>7, <1>9
<1> QED BY <1>4, <1>6, <1>8, <1>9 DEF Effect

\* A reply is on its way, with what was done for it.
LEMMA AnswerKeepsView ==
  ASSUME ViewInv, NEW o \in Under, NEW ok \in BOOLEAN, NEW data \in SUBSET Nat, Effect(o, ok, data),
         UNCHANGED <<viewVars, chosen, overlapped>>, lost' \in {lost, lost + 1},
         op[o].at = "sent" \/ lost' # 0
  PROVE  ViewInv'
<1>1. /\ UNCHANGED <<connecting, busy, sessions, current, rules, results, lastResult>>
      /\ UNCHANGED <<editing, fields, chosen, overlapped>>
  BY DEF viewVars, editorVars
<1>2. /\ ViewTypes /\ OperationsAreSound /\ RepliesAreSound /\ RulesHaveSessions
      /\ EditorIsSound /\ ChangesMeetTheirRule /\ Alone
  BY DEF ViewInv
<1>3. /\ op' \in [Ops -> Operation] /\ Under' = Under
      /\ \A p \in Ops : p # o => op'[p] = op[p]
      /\ \A p \in Ops : /\ op'[p].kind = op[p].kind /\ op'[p].session = op[p].session
                        /\ op'[p].rule = op[p].rule /\ op'[p].of = op[p].of
                        /\ op'[p].step = op[p].step
      /\ \A p \in Ops : Request(p)' = Request(p)
      /\ op'[o].at = "replied" /\ op'[o].ok = ok /\ op'[o].data = data
  BY ReplyFacts DEF Effect
<1>4. /\ created' \in created .. MaxSessions /\ added' \in added .. MaxRules
      /\ active' \subseteq 1 .. created'
      /\ rulesOf' \in [Sessions -> SUBSET Rules]
      /\ \A s \in Sessions : \A r \in rulesOf'[s] :
           \/ r \in rulesOf[s]
           \/ /\ r \in chosen \/ (r = added + 1 /\ added' = added + 1)
              /\ s = op[o].session
      /\ \A s \in Sessions : s > created => rulesOf'[s] = {}
  BY EffectKeepsRules
<1>5. /\ MaxSessions \in Nat /\ MaxRules \in Nat /\ created \in Nat /\ added \in Nat
      /\ \A s \in Sessions : s \in Nat /\ 1 .. created \subseteq Sessions
      /\ o \in Ops
  BY ViewFacts
<1>6. /\ created' \in Nat /\ created <= created' /\ created' \in 0 .. MaxSessions
      /\ added' \in Nat /\ added <= added' /\ added' \in 0 .. MaxRules
  BY <1>4, <1>5
<1>7. lost' \in Nat /\ (lost' = 0 => lost = 0)
  <2>1. lost \in Nat
    BY <1>2 DEF ViewTypes
  <2> QED BY <2>1
<1>8. ViewTypes'
  <2>1. \A i \in 1 .. Len(sessions) : sessions[i] <= created'
    <3> SUFFICES ASSUME NEW i \in 1 .. Len(sessions) PROVE sessions[i] <= created'
      OBVIOUS
    <3>1. sessions[i] \in Sessions /\ sessions[i] <= created
      BY <1>2, ElementOfSeq DEF ViewTypes
    <3>2. sessions[i] \in Nat
      BY <1>5, <3>1
    <3> QED BY <1>5, <1>6, <3>1, <3>2
  <2> QED BY <1>1, <1>2, <1>3, <1>4, <1>6, <1>7, <2>1 DEF ViewTypes
<1>9. OperationsAreSound'
  <2>1. \A p \in Ops : op'[p].at # "unused" => op[p].at # "unused"
    BY <1>3 DEF Under
  <2> QED BY <1>2, <1>3, <2>1 DEF OperationsAreSound
<1>10. \A p \in Ops : \A request : p # o => (Answered(p, request)' <=> Answered(p, request))
  BY <1>3 DEF Answered
<1>11. \A request : Answered(o, request)' <=> ok /\ Request(o) = request
  BY <1>3, <1>5 DEF Answered
<1>12. RepliesAreSound'
  <2>1. ASSUME NEW p \in Ops, Answered(p, "LIST_SESSIONS")'
        PROVE  op'[p].data \subseteq 1 .. created'
    <3>1. 1 .. created \subseteq 1 .. created'
      BY <1>5, <1>6
    <3>2. CASE p = o
      BY <1>3, <1>11, <2>1, <3>1, <3>2 DEF Effect
    <3>3. CASE p # o
      BY <1>2, <1>3, <1>10, <2>1, <3>1, <3>3 DEF RepliesAreSound
    <3> QED BY <3>2, <3>3
  <2>2. ASSUME NEW p \in Ops, Answered(p, "CREATE_SESSION")'
        PROVE  \E n \in 1 .. created' : op'[p].data = {n}
    <3>1. CASE p = o
      <4>1. data = {created + 1} /\ created' = created + 1
        BY <1>11, <2>2, <3>1 DEF Effect, CreatesSession
      <4>2. created + 1 \in 1 .. created'
        BY <1>5, <4>1
      <4> QED BY <1>3, <3>1, <4>1, <4>2
    <3>2. CASE p # o
      <4>1. PICK n \in 1 .. created : op[p].data = {n}
        BY <1>2, <1>10, <2>2, <3>2 DEF RepliesAreSound
      <4>2. n \in 1 .. created'
        BY <1>5, <1>6
      <4> QED BY <1>3, <3>2, <4>1, <4>2
    <3> QED BY <3>1, <3>2
  <2> QED BY <2>1, <2>2 DEF RepliesAreSound
<1>13. \A r, s : IsOf(r, s, rulesOf, added, chosen)
                   => IsOf(r, s, rulesOf', added', chosen')
  <2> SUFFICES ASSUME NEW r, NEW s, IsOf(r, s, rulesOf, added, chosen), r \notin chosen
               PROVE  IsOf(r, s, rulesOf', added', chosen')
    BY <1>1 DEF IsOf
  <2>1. r \in 1 .. added /\ \A t \in Sessions : r \in rulesOf[t] => t = s
    BY DEF IsOf
  <2>2. r \in 1 .. added' /\ r # added + 1
    BY <1>5, <1>6, <2>1
  <2>3. \A t \in Sessions : r \in rulesOf'[t] => r \in rulesOf[t]
    BY <1>4, <2>2
  <2> QED BY <2>1, <2>2, <2>3 DEF IsOf
<1>14. RulesHaveSessions'
  <2>1. ASSUME NEW s \in Sessions, NEW r \in rulesOf'[s]
        PROVE  IsOf(r, s, rulesOf', added', chosen')
    <3>1. CASE r \in rulesOf[s]
      BY <1>2, <1>13, <3>1 DEF RulesHaveSessions
    <3>3. CASE r \in chosen
      BY <1>1, <3>3 DEF IsOf
    <3>2. CASE r \notin rulesOf[s] /\ r \notin chosen
      <4>1. r = added + 1 /\ added' = added + 1 /\ s = op[o].session
        BY <1>4, <3>2
      <4>2. r \in 1 .. added'
        BY <1>5, <4>1
      <4>3. \A t \in Sessions : r \notin rulesOf[t]
        <5>1. \A t \in Sessions : r \in rulesOf[t] => r \in 1 .. added
          BY <1>2, <3>2 DEF RulesHaveSessions, IsOf
        <5>2. r \notin 1 .. added
          BY <1>5, <4>1
        <5> QED BY <5>1, <5>2
      <4>4. \A t \in Sessions : r \in rulesOf'[t] => t = s
        BY <1>4, <4>1, <4>3
      <4> QED BY <4>2, <4>4 DEF IsOf
    <3> QED BY <3>1, <3>2, <3>3
  <2>2. \A s \in Sessions : s > created' => rulesOf'[s] = {}
    BY <1>4, <1>5, <1>6
  <2>3. \A p \in Ops : op'[p].kind \in OnRules /\ p \in Under'
                         => IsOf(op'[p].rule, op'[p].of, rulesOf', added', chosen')
    BY <1>2, <1>3, <1>13 DEF RulesHaveSessions
  <2>6. \A p \in Ops : op'[p].kind = "add" /\ p \in Under' => op'[p].rule \in chosen' \cup {None}
    BY <1>1, <1>2, <1>3 DEF RulesHaveSessions
  <2>4. ASSUME NEW p \in Ops, Answered(p, "LIST_RULES")', NEW r \in op'[p].data
        PROVE  IsOf(r, op'[p].session, rulesOf', added', chosen')
    <3>1. CASE p = o
      <4>1. data = rulesOf[op[o].session] /\ op[o].session \in Sessions
        BY <1>11, <2>4, <3>1, RequestFacts DEF Effect
      <4>2. IsOf(r, op[o].session, rulesOf, added, chosen)
        BY <1>2, <1>3, <2>4, <3>1, <4>1 DEF RulesHaveSessions
      <4> QED BY <1>3, <1>5, <1>13, <3>1, <4>2
    <3>2. CASE p # o
      BY <1>2, <1>3, <1>10, <1>13, <2>4, <3>2 DEF RulesHaveSessions
    <3> QED BY <3>1, <3>2
  <2>5. \A r \in rules.ids : IsOf(r, rules.of, rulesOf', added', chosen')
    BY <1>2, <1>13 DEF RulesHaveSessions
  <2> QED BY <1>1, <1>4, <2>1, <2>2, <2>3, <2>4, <2>5, <2>6 DEF RulesHaveSessions
<1>15. ChangesMeetTheirRule'
  <2>1. ASSUME NEW p \in Ops, op'[p].kind \in OnRules, op'[p].step = 1,
               op'[p].session # op'[p].of
        PROVE  /\ op'[p].ok => op'[p].rule \in chosen'
               /\ overlapped' \/ op'[p].kind = "save"
    <3>1. /\ op[p].kind \in OnRules /\ op[p].step = 1 /\ op[p].session # op[p].of
          /\ op[p].ok => op[p].rule \in chosen
          /\ overlapped \/ op[p].kind = "save"
      BY <1>2, <1>3, <2>1 DEF ChangesMeetTheirRule, OnRules
    <3>2. ASSUME p = o, ok PROVE op[o].rule \in chosen
      <4>1. Request(o) \in {"UPDATE_RULE", "DELETE_RULE"}
        BY <3>1, <3>2, ProgramFacts DEF Request
      <4>2. op[o].rule \in rulesOf[op[o].session] /\ op[o].session \in Sessions
        BY <3>2, <4>1, RequestFacts DEF Effect
      <4>3. IsOf(op[o].rule, op[o].of, rulesOf, added, chosen)
        BY <1>2, <1>5, <3>1, <3>2 DEF RulesHaveSessions
      <4> QED BY <3>1, <3>2, <4>2, <4>3 DEF IsOf
    <3> QED BY <1>1, <1>3, <3>1, <3>2
  <2> QED BY <2>1 DEF ChangesMeetTheirRule, OnRules
<1>17. EditorIsSound'
  BY <1>1, <1>2, <1>13 DEF EditorIsSound
<1>16. Alone'
  <2> SUFFICES ASSUME ~overlapped
               PROVE  /\ OneIsUnder' /\ UnderIsOfTheSession'
                      /\ current # None => rules.of = current /\ results = current
                      /\ CreatedIsNew' /\ IsInjective(sessions)
                      /\ lost' = 0 => RulesArrive'
    BY <1>1 DEF Alone
  <2>1. /\ OneIsUnder /\ UnderIsOfTheSession
        /\ current # None => rules.of = current /\ results = current
        /\ CreatedIsNew /\ IsInjective(sessions)
        /\ lost = 0 => RulesArrive
    BY <1>2 DEF Alone
  <2>2. OneIsUnder' /\ \A p \in Under : p = o
    BY <1>3, <2>1 DEF OneIsUnder
  <2>3. UnderIsOfTheSession'
    <3>1. \A p \in Under : p \in Ops
      BY DEF Under
    <3> QED BY <1>1, <1>3, <2>1, <3>1 DEF UnderIsOfTheSession
  <2>4. CreatedIsNew'
    <3>1. ASSUME NEW p \in Ops, Answered(p, "CREATE_SESSION")', NEW n \in op'[p].data
          PROVE  rulesOf'[n] = {} /\ \A i \in 1 .. Len(sessions) : sessions[i] # n
      <4>1. p = o
        <5>1. p \in Under'
          BY <3>1 DEF Answered, Under
        <5> QED BY <1>3, <2>2, <5>1
      <4>2. n = created + 1 /\ created' = created + 1
        BY <1>3, <1>11, <3>1, <4>1 DEF Effect, CreatesSession
      <4>3. n \in Sessions /\ n > created
        BY <1>5, <1>6, <4>2 DEF Sessions
      <4>4. \A i \in 1 .. Len(sessions) : sessions[i] # n
        <5>1. \A i \in 1 .. Len(sessions) : sessions[i] <= created
          BY <1>2 DEF ViewTypes
        <5>2. ~(n <= created)
          BY <1>5, <4>2
        <5> QED BY <5>1, <5>2
      <4> QED BY <1>4, <4>3, <4>4
    <3>2. \A p \in Ops : Answered(p, "CREATE_SESSION")' =>
            \A n \in op'[p].data : rulesOf'[n] = {} /\ \A i \in 1 .. Len(sessions) : sessions[i] # n
      BY <3>1
    <3> QED BY <1>1, <3>2 DEF CreatedIsNew
  <2>5. ASSUME lost' = 0 PROVE RulesArrive'
    <3>1. RulesArrive /\ op[o].at = "sent"
      BY <1>7, <2>1, <2>5
    <3>2. ASSUME Request(o) = "LIST_RULES" PROVE ok /\ data = rulesOf'[op[o].session]
      <4>1. ok /\ data = rulesOf[op[o].session]
        BY <2>5, <3>2 DEF Effect
      <4>2. rulesOf' = rulesOf
        BY <3>2 DEF Effect
      <4> QED BY <4>1, <4>2
    <3>3. \A p \in Under' : op'[p].at = "replied" /\ Request(p)' = "LIST_RULES"
                              => op'[p].ok /\ op'[p].data = rulesOf'[op'[p].session]
      BY <1>3, <1>5, <2>2, <3>2
    <3>4. ASSUME current # None, \A p \in Under' : ~Stale(p)'
          PROVE  rules.ids = rulesOf'[current]
      <4>1. ~Stale(o)'
        BY <1>3, <3>4
      <4>2. ~Stale(o)
        BY <1>3, <1>5, <3>1, <4>1 DEF Stale
      <4>3. rules.ids = rulesOf[current]
        BY <2>2, <3>1, <3>4, <4>2 DEF RulesArrive
      <4>4. ok => op[o].kind \notin OnLists
        BY <1>3, <1>5, <4>1 DEF Stale
      <4>5. rulesOf' = rulesOf
        BY <4>4, RequestFacts DEF Effect, OnLists, OnRules
      <4> QED BY <4>3, <4>5
    <3>5. (current' # None /\ \A p \in Under' : ~Stale(p)') => rules.ids = rulesOf'[current]
      BY <1>1, <3>4
    <3> QED BY <1>1, <3>3, <3>5 DEF RulesArrive
  <2> QED BY <2>1, <2>2, <2>3, <2>4, <2>5
<1> QED BY <1>8, <1>9, <1>12, <1>14, <1>15, <1>16, <1>17 DEF ViewInv

\* Steps that serve nothing and show nothing.
LEMMA SilenceKeepsView ==
  ASSUME ViewInv, UNCHANGED <<created, active, rulesOf, added, op, viewVars, chosen, overlapped>>,
         lost' \in {lost, lost + 1}
  PROVE  ViewInv'
<1>1. /\ UNCHANGED <<created, active, rulesOf, added, op, chosen, overlapped>>
      /\ UNCHANGED <<connecting, busy, sessions, current, rules, results, lastResult>>
      /\ UNCHANGED <<editing, fields>>
  BY DEF viewVars, editorVars
<1>2. lost' \in Nat /\ (lost' = 0 => lost = 0)
  <2>1. lost \in Nat
    BY DEF ViewInv, ViewTypes
  <2> QED BY <2>1
<1>3. /\ Under' = Under /\ \A o : (Stale(o)' <=> Stale(o)) /\ Request(o)' = Request(o)
      /\ \A o, request : Answered(o, request)' <=> Answered(o, request)
  BY <1>1 DEF Under, Stale, Answered, Request
<1>4. ViewTypes'
  BY <1>1, <1>2 DEF ViewInv, ViewTypes
<1>5. OperationsAreSound' /\ RepliesAreSound' /\ ChangesMeetTheirRule'
  BY <1>1, <1>3 DEF ViewInv, OperationsAreSound, RepliesAreSound, ChangesMeetTheirRule
<1>6. RulesHaveSessions' /\ EditorIsSound'
  BY <1>1, <1>3 DEF ViewInv, RulesHaveSessions, EditorIsSound
<1>7. RulesArrive => RulesArrive'
  BY <1>1, <1>3 DEF RulesArrive
<1>8. /\ OneIsUnder => OneIsUnder'
      /\ UnderIsOfTheSession => UnderIsOfTheSession'
      /\ CreatedIsNew => CreatedIsNew'
  BY <1>1, <1>3 DEF OneIsUnder, UnderIsOfTheSession, CreatedIsNew
<1>9. Alone'
  BY <1>1, <1>2, <1>7, <1>8 DEF ViewInv, Alone
<1> QED BY <1>4, <1>5, <1>6, <1>9 DEF ViewInv

\* What the editor's fields hold was seen in its session.
LEMMA RenderedKeepsEditor ==
  ASSUME ViewTypes, EditorIsSound, Rendered, UNCHANGED <<rulesOf, added>>,
         chosen \subseteq chosen', editing' \in Editors,
         \/ editing' \in {editing, Closed}
         \/ editing' = NewRule /\ ~editing.open
         \/ /\ editing'.open /\ editing'.rule # None
            /\ IsOf(editing'.rule, editing'.of, rulesOf, added, chosen)
  PROVE  EditorIsSound' /\ fields' \in Editors
<1>1. \A r, s : IsOf(r, s, rulesOf, added, chosen) => IsOf(r, s, rulesOf', added', chosen')
  BY DEF IsOf
<1>2. /\ Closed.open = FALSE /\ Closed.rule = None /\ Closed \in Editors
      /\ NewRule.open = TRUE /\ NewRule.rule = None /\ NewRule \in Editors
  BY DEF Closed, NewRule, Editors
<1>3. editing'.rule # None => IsOf(editing'.rule, editing'.of, rulesOf', added', chosen')
  BY <1>1, <1>2 DEF EditorIsSound
<1>4. CASE fields' = Closed
  BY <1>2, <1>3, <1>4 DEF EditorIsSound
<1>5. CASE fields' = editing' /\ current' # None
  BY <1>3, <1>5 DEF EditorIsSound
<1>6. CASE fields' = fields /\ fields.open /\ editing'.open /\ current' # None
  <2>1. fields.rule # None => editing'.rule # None
    BY <1>2, <1>6 DEF EditorIsSound
  <2> QED BY <1>1, <1>3, <1>6, <2>1 DEF EditorIsSound, ViewTypes
<1> QED BY <1>4, <1>5, <1>6 DEF Rendered

\* Nothing is selected any more.
LEMMA DeselectKeepsView ==
  ASSUME ViewInv, Deselect
  PROVE  ViewInv'
<1>1. /\ UNCHANGED <<created, active, rulesOf, added, op, chosen, overlapped, lost>>
      /\ UNCHANGED <<connecting, busy, sessions, editing>> /\ Rendered
      /\ current' = None /\ results' = None /\ lastResult' = None
      /\ rules' = [of |-> None, ids |-> {}]
  BY DEF Deselect, serverVars, historyVars
<1>2. /\ Under' = Under /\ \A o : Request(o)' = Request(o)
      /\ \A o, request : Answered(o, request)' <=> Answered(o, request)
  BY <1>1 DEF Under, Answered, Request
<1>9. EditorIsSound' /\ fields' \in Editors
  BY <1>1, RenderedKeepsEditor DEF ViewInv, ViewTypes
<1>3. ViewTypes'
  <2>1. rules' \in [of : Sessions \cup {None}, ids : SUBSET Rules]
    BY <1>1
  <2> QED BY <1>1, <1>9, <2>1 DEF ViewInv, ViewTypes
<1>4. OperationsAreSound' /\ RepliesAreSound' /\ ChangesMeetTheirRule'
  BY <1>1, <1>2 DEF ViewInv, OperationsAreSound, RepliesAreSound, ChangesMeetTheirRule
<1>5. RulesHaveSessions'
  <2>1. rules'.ids = {}
    BY <1>1
  <2> QED BY <1>1, <1>2, <2>1 DEF ViewInv, RulesHaveSessions
<1>6. RulesArrive => RulesArrive'
  BY <1>1, <1>2 DEF RulesArrive
<1>7. /\ OneIsUnder => OneIsUnder'
      /\ UnderIsOfTheSession'
      /\ CreatedIsNew => CreatedIsNew'
  BY <1>1, <1>2 DEF OneIsUnder, UnderIsOfTheSession, CreatedIsNew
<1>8. Alone'
  BY <1>1, <1>6, <1>7 DEF ViewInv, Alone
<1> QED BY <1>3, <1>4, <1>5, <1>8, <1>9 DEF ViewInv

\* The editor is set on a rule that is shown, on a new one, or closed.
LEMMA EditKeepsView ==
  ASSUME ViewInv, AddOrCancel \/ \E rule \in Rules : Edit(rule)
  PROVE  ViewInv'
<1>1. /\ UNCHANGED <<created, active, rulesOf, added, op, chosen, overlapped, lost>>
      /\ UNCHANGED <<connecting, busy, sessions, current, rules, results, lastResult>> /\ Rendered
  BY DEF Edit, AddOrCancel, serverVars, historyVars
<1>2. /\ Under' = Under /\ \A o : (Stale(o)' <=> Stale(o)) /\ Request(o)' = Request(o)
      /\ \A o, request : Answered(o, request)' <=> Answered(o, request)
  BY <1>1 DEF Under, Stale, Answered, Request
<1>9. EditorIsSound' /\ fields' \in Editors /\ editing' \in Editors
  <2>1. ViewTypes /\ EditorIsSound /\ RulesHaveSessions
    BY DEF ViewInv
  <2>2. Closed \in Editors /\ NewRule \in Editors
    BY DEF Closed, NewRule, Editors
  <2>3. CASE AddOrCancel
    <3>1. editing' = Closed \/ (editing' = NewRule /\ ~editing.open)
      BY <2>3 DEF AddOrCancel
    <3> QED BY <1>1, <2>1, <2>2, <3>1, RenderedKeepsEditor
  <2>4. ASSUME NEW rule \in Rules, Edit(rule) PROVE EditorIsSound' /\ fields' \in Editors
                                                     /\ editing' \in Editors
    <3>1. editing' = [open |-> TRUE, rule |-> rule, of |-> rules.of] /\ rule \in rules.ids
      BY <2>4 DEF Edit
    <3>2. rules.of \in Sessions \cup {None} /\ rule # None
      <4>1. rule \in 1 .. MaxRules
        BY DEF Rules
      <4> QED BY <2>1, <4>1, InterfaceAssumption DEF ViewTypes, None
    <3>3. editing' \in Editors
      BY <3>1, <3>2 DEF Editors
    <3>4. IsOf(rule, rules.of, rulesOf, added, chosen)
      BY <2>1, <3>1 DEF RulesHaveSessions
    <3>5. editing'.open /\ editing'.rule = rule /\ editing'.of = rules.of
      BY <3>1
    <3> QED BY <1>1, <2>1, <3>2, <3>3, <3>4, <3>5, RenderedKeepsEditor
  <2> QED BY <2>3, <2>4
<1>3. ViewTypes'
  BY <1>1, <1>9 DEF ViewInv, ViewTypes
<1>4. OperationsAreSound' /\ RepliesAreSound' /\ ChangesMeetTheirRule'
  BY <1>1, <1>2 DEF ViewInv, OperationsAreSound, RepliesAreSound, ChangesMeetTheirRule
<1>5. RulesHaveSessions'
  BY <1>1, <1>2 DEF ViewInv, RulesHaveSessions
<1>6. RulesArrive => RulesArrive'
  BY <1>1, <1>2 DEF RulesArrive
<1>7. /\ OneIsUnder => OneIsUnder'
      /\ UnderIsOfTheSession => UnderIsOfTheSession'
      /\ CreatedIsNew => CreatedIsNew'
  BY <1>1, <1>2 DEF OneIsUnder, UnderIsOfTheSession, CreatedIsNew
<1>8. Alone'
  BY <1>1, <1>6, <1>7 DEF ViewInv, Alone
<1> QED BY <1>3, <1>4, <1>5, <1>8, <1>9 DEF ViewInv

\* The user starts an operation.
LEMMA StartKeepsView ==
  ASSUME ViewInv, NEW o \in Ops, NEW kind \in DOMAIN Program, NEW s \in Sessions \cup {None},
         NEW rule \in Rules \cup {None}, NEW of \in Sessions \cup {None},
         Start(o, kind, s, rule, of),
         kind \in OnSession => s \in Sessions /\ s = current',
         kind \in OnRules => IsOf(rule, of, rulesOf, added, chosen'),
         kind = "add" => rule \in chosen' \cup {None},
         kind \in {"update", "delete"} => of = rules.of /\ s = current /\ current # None,
         UNCHANGED <<sessions, editing>>, UNCHANGED <<fields, current>> \/ Rendered,
         connecting' \in BOOLEAN,
         lastResult' \in {lastResult, None},
         \/ UNCHANGED <<current, rules, results>>
         \/ kind = "select" /\ rules' = [of |-> s, ids |-> {}] /\ results' = s /\ current' = s
  PROVE  ViewInv'
<1> DEFINE new == [Unstarted EXCEPT !.kind = kind, !.session = s, !.rule = rule, !.of = of,
                                    !.at = "sent"]
<1>1. /\ UNCHANGED <<created, active, rulesOf, added, lost>> /\ op[o].at = "unused"
      /\ op' = [op EXCEPT ![o] = new]
      /\ overlapped' = (overlapped \/ Under # {})
      /\ busy' = (busy \/ kind \in Guarded)
      /\ chosen' = chosen \cup (IF of = None THEN {rule} \ {None} ELSE {})
  BY DEF Start, serverVars
<1>2. /\ ViewTypes /\ OperationsAreSound /\ RepliesAreSound /\ RulesHaveSessions
      /\ EditorIsSound /\ ChangesMeetTheirRule /\ Alone
  BY DEF ViewInv
<1>3. /\ new \in Operation /\ new.kind = kind /\ new.session = s /\ new.rule = rule /\ new.of = of
      /\ new.step = 1 /\ new.at = "sent" /\ new.ok = FALSE /\ new.data = {}
  BY DEF Unstarted, Operation
<1> HIDE DEF new
<1>4. op \in [Ops -> Operation] /\ o \notin Under
  BY <1>1, <1>2 DEF ViewTypes, Under
<1>5. /\ op' \in [Ops -> Operation] /\ op'[o] = new
      /\ \A p \in Ops : p # o => op'[p] = op[p]
  BY <1>1, <1>3, <1>4
<1>6. Under' = Under \cup {o}
  BY <1>3, <1>4, <1>5 DEF Under
<1>7. /\ \A p \in Ops : \A request : p # o => (Answered(p, request)' <=> Answered(p, request))
      /\ \A request : ~Answered(o, request)'
  BY <1>3, <1>5 DEF Answered, Request
<1>14. chosen \subseteq chosen' /\ chosen' \subseteq Rules
  BY <1>1, <1>2 DEF ViewTypes
<1>15. \A r, t : IsOf(r, t, rulesOf, added, chosen) => IsOf(r, t, rulesOf', added', chosen')
  BY <1>1, <1>14 DEF IsOf
<1>16. EditorIsSound' /\ fields' \in Editors
  <2>1. CASE UNCHANGED <<fields, current>>
    BY <1>2, <1>15, <2>1 DEF EditorIsSound, ViewTypes
  <2>2. CASE Rendered
    BY <1>1, <1>2, <1>14, <2>2, RenderedKeepsEditor DEF ViewTypes
  <2> QED BY <2>1, <2>2
<1>8. ViewTypes'
  <2>1. current' \in Sessions \cup {None} /\ results' \in Sessions \cup {None}
    BY <1>2 DEF ViewTypes
  <2>2. rules' \in [of : Sessions \cup {None}, ids : SUBSET Rules]
    BY <1>2 DEF ViewTypes
  <2>3. busy' \in BOOLEAN /\ overlapped' \in BOOLEAN /\ lastResult' \in Sessions \cup {None}
    BY <1>1, <1>2 DEF ViewTypes
  <2> QED BY <1>1, <1>2, <1>5, <1>14, <1>16, <2>1, <2>2, <2>3 DEF ViewTypes
<1>9. OperationsAreSound'
  <2>1. ASSUME NEW p \in Ops
        PROVE  /\ op'[p].at # "unused" => /\ op'[p].kind # "none"
                                          /\ op'[p].step \in 1 .. Len(Program[op'[p].kind])
               /\ p \in Under' /\ op'[p].kind \in OnSession => op'[p].session \in Sessions
    <3>1. CASE p = o
      <4>1. "none" \notin DOMAIN Program /\ Len(Program[kind]) \in {1, 2}
        BY ProgramFacts
      <4>2. 1 \in 1 .. Len(Program[kind])
        BY <4>1
      <4> QED BY <1>3, <1>5, <3>1, <4>1, <4>2
    <3>2. CASE p # o
      BY <1>2, <1>5, <1>6, <3>2 DEF OperationsAreSound
    <3> QED BY <3>1, <3>2
  <2> QED BY <2>1 DEF OperationsAreSound
<1>10. RepliesAreSound'
  <2>1. ASSUME NEW p \in Ops
        PROVE  /\ Answered(p, "LIST_SESSIONS")' => op'[p].data \subseteq 1 .. created'
               /\ Answered(p, "CREATE_SESSION")' => \E n \in 1 .. created' : op'[p].data = {n}
    BY <1>1, <1>2, <1>5, <1>7 DEF RepliesAreSound
  <2> QED BY <2>1 DEF RepliesAreSound
<1>11. RulesHaveSessions'
  <2>1. ASSUME NEW p \in Ops
        PROVE  /\ op'[p].kind \in OnRules /\ p \in Under' =>
                    IsOf(op'[p].rule, op'[p].of, rulesOf', added', chosen')
               /\ op'[p].kind = "add" /\ p \in Under' => op'[p].rule \in chosen' \cup {None}
               /\ Answered(p, "LIST_RULES")' =>
                    \A r \in op'[p].data : IsOf(r, op'[p].session, rulesOf', added', chosen')
    <3>1. CASE p = o
      BY <1>1, <1>3, <1>5, <1>7, <3>1
    <3>2. CASE p # o
      BY <1>2, <1>5, <1>6, <1>7, <1>14, <1>15, <3>2 DEF RulesHaveSessions
    <3> QED BY <3>1, <3>2
  <2>2. \A r \in rules'.ids : IsOf(r, rules'.of, rulesOf', added', chosen')
    BY <1>2, <1>15 DEF RulesHaveSessions
  <2>3. \A t \in Sessions : \A r \in rulesOf[t] : IsOf(r, t, rulesOf', added', chosen')
    BY <1>2, <1>15 DEF RulesHaveSessions
  <2> QED BY <1>1, <1>2, <2>1, <2>2, <2>3 DEF RulesHaveSessions
<1>12. ChangesMeetTheirRule'
  <2>1. ASSUME NEW p \in Ops, op'[p].kind \in OnRules, op'[p].step = 1,
               op'[p].session # op'[p].of
        PROVE  /\ op'[p].ok => op'[p].rule \in chosen'
               /\ overlapped' \/ op'[p].kind = "save"
    <3>1. CASE p # o
      BY <1>1, <1>2, <1>5, <1>14, <2>1, <3>1 DEF ChangesMeetTheirRule, OnRules
    <3>2. CASE p = o
      <4>1. kind \in OnRules /\ s # of /\ op'[o].ok = FALSE /\ op'[o].kind = kind
        BY <1>3, <1>5, <2>1, <3>2
      <4>2. kind # "save" => overlapped
        BY <1>2, <4>1 DEF Alone, OnRules
      <4> QED BY <1>1, <3>2, <4>1, <4>2
    <3> QED BY <3>1, <3>2
  <2> QED BY <2>1 DEF ChangesMeetTheirRule, OnRules
<1>13. Alone'
  <2> SUFFICES ASSUME ~overlapped, Under = {}
               PROVE  /\ OneIsUnder' /\ UnderIsOfTheSession'
                      /\ current' # None => rules'.of = current' /\ results' = current'
                      /\ CreatedIsNew' /\ IsInjective(sessions')
                      /\ lost = 0 => RulesArrive'
    BY <1>1 DEF Alone
  <2>1. /\ current # None => rules.of = current /\ results = current
        /\ CreatedIsNew /\ IsInjective(sessions)
        /\ lost = 0 => RulesArrive
    BY <1>2 DEF Alone
  <2>2. Under' = {o} /\ OneIsUnder'
    BY <1>6 DEF OneIsUnder
  <2>3. UnderIsOfTheSession'
    BY <1>3, <1>5, <2>2 DEF UnderIsOfTheSession
  <2>4. current' # None => rules'.of = current' /\ results' = current'
    BY <2>1
  <2>5. CreatedIsNew'
    <3>1. \A p \in Ops : ~Answered(p, "CREATE_SESSION")'
      <4>1. \A p \in Ops : Answered(p, "CREATE_SESSION") => p \in Under
        BY DEF Answered, Under
      <4> QED BY <1>7, <4>1
    <3> QED BY <3>1 DEF CreatedIsNew
  <2>6. ASSUME lost = 0 PROVE RulesArrive'
    <3>1. RulesArrive
      BY <2>1, <2>6
    <3>2. \A p \in Under' : op'[p].at # "replied"
      BY <1>3, <1>5, <2>2
    <3>3. ASSUME current' # None, \A p \in Under' : ~Stale(p)'
          PROVE  rules'.ids = rulesOf'[current']
      <4>1. ~Stale(o)'
        BY <2>2, <3>3
      <4>2. kind # "select"
        BY <1>3, <1>5, <4>1 DEF Stale
      <4>3. UNCHANGED <<current, rules>>
        BY <4>2
      <4> QED BY <1>1, <3>1, <3>3, <4>3 DEF RulesArrive
    <3> QED BY <3>2, <3>3 DEF RulesArrive
  <2> QED BY <2>1, <2>2, <2>3, <2>4, <2>5, <2>6
<1> QED BY <1>8, <1>9, <1>10, <1>11, <1>12, <1>13, <1>16 DEF ViewInv

\* The operation goes on or is over.
Continued(o) ==
  /\ op[o].ok /\ op[o].step = 1 /\ Len(Program[op[o].kind]) = 2
  /\ op'[o].step = 2 /\ op'[o].at = "sent"
  /\ op'[o].session = op[o].session /\ op'[o].rule = op[o].rule /\ op'[o].of = op[o].of

\* With its next request it is the same operation otherwise.
LEMMA ProceedFacts ==
  ASSUME ViewInv, NEW o \in Under, Proceed(o)
  PROVE  /\ op' \in [Ops -> Operation]
         /\ \A p \in Ops : p # o => op'[p] = op[p]
         /\ op'[o].kind = op[o].kind /\ op'[o].ok = FALSE
         /\ \/ Continued(o)
            \/ /\ op'[o].at = "over" /\ op'[o].step = 1 /\ op'[o].session = op'[o].of
               /\ op[o].ok => op[o].step = Len(Program[op[o].kind]) \/ op[o].kind = "mount"
         /\ busy' \in BOOLEAN /\ connecting' \in BOOLEAN
         /\ editing' \in {editing, Closed}
<1>1. /\ op \in [Ops -> Operation] /\ op[o] \in Operation /\ o \in Ops
      /\ op[o].kind \in DOMAIN Program /\ op[o].step \in 1 .. Len(Program[op[o].kind])
      /\ Len(Program[op[o].kind]) \in {1, 2} /\ busy \in BOOLEAN /\ connecting \in BOOLEAN
  BY ViewFacts, ProgramFacts DEF ViewInv, ViewTypes
<1> DEFINE goes == /\ op[o].ok /\ op[o].step < Len(Program[op[o].kind])
                   /\ op[o].kind = "mount" => op[o].data = Told(TRUE)
<1>2. CASE goes
  <2>1. PICK new : new = [op[o] EXCEPT !.step = op[o].step + 1, !.at = "sent", !.ok = FALSE,
                                       !.data = {}]
    OBVIOUS
  <2>2. op' = [op EXCEPT ![o] = new] /\ UNCHANGED <<busy, connecting, editing>>
    BY <1>1, <1>2, <2>1 DEF Proceed
  <2>3. op[o].step = 1 /\ Len(Program[op[o].kind]) = 2 /\ op[o].step + 1 = 2
    <3>1. PICK len \in {1, 2} : len = Len(Program[op[o].kind])
      BY <1>1
    <3>2. PICK i \in 1 .. len : i = op[o].step
      BY <1>1, <3>1
    <3>3. i < len
      BY <1>2, <3>1, <3>2
    <3>4. i = 1 /\ len = 2 /\ i + 1 = 2
      BY <3>3
    <3> QED BY <3>1, <3>2, <3>4
  <2>4. /\ new \in Operation /\ new.kind = op[o].kind /\ new.ok = FALSE /\ new.step = 2
        /\ new.at = "sent" /\ new.session = op[o].session /\ new.rule = op[o].rule
        /\ new.of = op[o].of
    BY <1>1, <2>1, <2>3 DEF Operation
  <2>5. /\ op' \in [Ops -> Operation] /\ op'[o] = new
        /\ \A p \in Ops : p # o => op'[p] = op[p]
    BY <1>1, <2>2, <2>4
  <2>6. Continued(o)
    BY <1>2, <2>3, <2>4, <2>5 DEF Continued
  <2> QED BY <1>1, <2>2, <2>4, <2>5, <2>6
<1>3. CASE ~goes
  <2>1. PICK new : new = [Unstarted EXCEPT !.kind = op[o].kind, !.at = "over"]
    OBVIOUS
  <2>2. op' = [op EXCEPT ![o] = new] /\ Ended(o)
    BY <1>3, <2>1 DEF Proceed
  <2>3. /\ new \in Operation /\ new.kind = op[o].kind /\ new.ok = FALSE /\ new.at = "over"
        /\ new.step = 1 /\ new.session = new.of
    BY <1>1, <2>1 DEF Operation, Unstarted
  <2>4. /\ op' \in [Ops -> Operation] /\ op'[o] = new
        /\ \A p \in Ops : p # o => op'[p] = op[p]
    BY <1>1, <2>2, <2>3
  <2>5. /\ busy' \in BOOLEAN /\ connecting' \in BOOLEAN
        /\ editing' \in {editing, Closed}
    BY <1>1, <2>2 DEF Ended
  <2>6. op[o].ok => op[o].step = Len(Program[op[o].kind]) \/ op[o].kind = "mount"
    <3>1. PICK len \in {1, 2} : len = Len(Program[op[o].kind])
      BY <1>1
    <3>2. PICK i \in 1 .. len : i = op[o].step
      BY <1>1, <3>1
    <3>3. op[o].ok /\ op[o].kind # "mount" => ~(i < len)
      BY <1>3, <3>1, <3>2
    <3>4. ~(i < len) => i = len
      OBVIOUS
    <3> QED BY <3>1, <3>2, <3>3, <3>4
  <2> QED BY <2>3, <2>4, <2>5, <2>6
<1> QED BY <1>2, <1>3

\* What a reply shows, by its request.
LEMMA ShowFacts ==
  ASSUME ViewInv, NEW o \in Under, Show(o)
  PROVE  /\ sessions' = IF Request(o) = "LIST_SESSIONS" THEN SetToSeq(op[o].data)
                        ELSE IF Request(o) = "CREATE_SESSION" THEN sessions \o SetToSeq(op[o].data)
                        ELSE IF Request(o) = "disconnect" THEN <<>> ELSE sessions
         /\ Request(o) = "CREATE_SESSION" => /\ current' = CHOOSE n \in op[o].data : TRUE
                                             /\ rules' = [of |-> current', ids |-> {}]
                                             /\ results' = current'
         /\ Request(o) = "disconnect" => /\ current' = None /\ results' = None
                                         /\ rules' = [of |-> None, ids |-> {}]
         /\ Request(o) \notin {"CREATE_SESSION", "disconnect"} =>
              /\ current' \in {current, None}
              /\ Request(o) # "LIST_SESSIONS" => current' = current
              /\ rules' = IF Request(o) = "LIST_RULES"
                            THEN [of |-> op[o].session, ids |-> op[o].data] ELSE rules
              /\ results' = IF Request(o) = "LIST_RESULTS" THEN op[o].session ELSE results
         /\ lastResult' \in {lastResult, op[o].session}
<1>1. CASE Request(o) = "LIST_SESSIONS"
  BY <1>1 DEF Show, Listed
<1>2. CASE Request(o) = "CREATE_SESSION"
  BY <1>2 DEF Show
<1>3. CASE Request(o) = "disconnect"
  BY <1>3 DEF Show
<1>4. CASE Request(o) = "LIST_RULES"
  BY <1>4 DEF Show, TakeRules
<1>5. CASE Request(o) = "LIST_RESULTS"
  BY <1>5 DEF Show
<1>6. CASE Request(o) \notin {"LIST_SESSIONS", "CREATE_SESSION", "disconnect", "LIST_RULES",
                              "LIST_RESULTS"}
  BY <1>6 DEF Show
<1> QED BY <1>1, <1>2, <1>3, <1>4, <1>5, <1>6

\* What a reply leaves alone.
LEMMA ResumeFacts ==
  ASSUME ViewInv, NEW o \in Ops, Resume(o)
  PROVE  /\ o \in Under /\ op[o].at = "replied"
         /\ UNCHANGED <<created, active, rulesOf, added, chosen, lost, overlapped>> /\ Rendered
         /\ op[o].ok => Show(o)
         /\ ~op[o].ok => UNCHANGED <<sessions, current, rules, results, lastResult>>
         /\ op' \in [Ops -> Operation]
         /\ \A p \in Ops : p # o => op'[p] = op[p]
         /\ op'[o].kind = op[o].kind /\ op'[o].ok = FALSE
         /\ ~Continued(o) => /\ op'[o].at = "over" /\ op'[o].step = 1
                             /\ op'[o].session = op'[o].of
                             /\ op[o].ok => \/ op[o].step = Len(Program[op[o].kind])
                                            \/ op[o].kind = "mount"
         /\ busy' \in BOOLEAN /\ connecting' \in BOOLEAN
         /\ editing' \in {editing, Closed}
         /\ Under' \subseteq Under /\ (o \in Under' <=> Continued(o))
         /\ \A p \in Ops : \A request : p # o => (Answered(p, request)' <=> Answered(p, request))
         /\ \A request : ~Answered(o, request)'
<1>1. /\ op[o].at = "replied" /\ Proceed(o) /\ UNCHANGED <<chosen, lost, overlapped>> /\ Rendered
      /\ UNCHANGED <<created, active, rulesOf, added>>
      /\ op[o].ok => Show(o)
      /\ ~op[o].ok => UNCHANGED <<sessions, current, rules, results, lastResult>>
  BY DEF Resume, serverVars
<1>2. o \in Under
  BY <1>1 DEF Under
<1>3. /\ op' \in [Ops -> Operation]
      /\ \A p \in Ops : p # o => op'[p] = op[p]
      /\ op'[o].kind = op[o].kind /\ op'[o].ok = FALSE
      /\ \/ Continued(o)
         \/ /\ op'[o].at = "over" /\ op'[o].step = 1 /\ op'[o].session = op'[o].of
            /\ op[o].ok => op[o].step = Len(Program[op[o].kind]) \/ op[o].kind = "mount"
      /\ busy' \in BOOLEAN /\ connecting' \in BOOLEAN
      /\ editing' \in {editing, Closed}
  BY <1>1, <1>2, ProceedFacts
<1>4. o \in Under' <=> Continued(o)
  BY <1>3 DEF Under, Continued
<1>5. Under' \subseteq Under
  BY <1>2, <1>3 DEF Under
<1>6. /\ \A p \in Ops : \A request : p # o => (Answered(p, request)' <=> Answered(p, request))
      /\ \A request : ~Answered(o, request)'
  BY <1>3 DEF Answered, Request
<1> QED BY <1>1, <1>2, <1>3, <1>4, <1>5, <1>6

\* A sequence whose elements are of T.
LEMMA ElementsOf ==
  ASSUME NEW S, NEW T, NEW s \in Seq(S), \A i \in 1 .. Len(s) : s[i] \in T
  PROVE  s \in Seq(T)
OBVIOUS

\* An element that was not there is appended once.
LEMMA AppendedOnce ==
  ASSUME NEW S, NEW n \in S, NEW s \in Seq(S), NEW t \in Seq({n}),
         IsInjective(s), IsInjective(t), \A i \in 1 .. Len(s) : s[i] # n
  PROVE  s \o t \in Seq(S) /\ IsInjective(s \o t)
<1>1. t \in Seq(S)
  <2>1. \A i \in 1 .. Len(t) : t[i] \in S
    BY ElementOfSeq
  <2> QED BY <2>1, ElementsOf
<1>2. /\ s \o t \in Seq(S) /\ Len(s) \in Nat /\ Len(t) \in Nat
      /\ DOMAIN (s \o t) = 1 .. Len(s) + Len(t)
  BY <1>1
<1>3. \A i \in 1 .. Len(s) + Len(t) : (s \o t)[i] = IF i <= Len(s) THEN s[i] ELSE t[i - Len(s)]
  BY <1>1
<1>4. ASSUME NEW i \in 1 .. Len(s) + Len(t), ~(i <= Len(s))
      PROVE  i - Len(s) \in 1 .. Len(t) /\ (s \o t)[i] = n
  <2>1. i - Len(s) \in 1 .. Len(t)
    BY <1>2, <1>4
  <2>2. t[i - Len(s)] = n
    BY <2>1, ElementOfSeq
  <2> QED BY <1>3, <1>4, <2>1, <2>2
<1>5. ASSUME NEW i \in 1 .. Len(s) + Len(t), i <= Len(s)
      PROVE  i \in DOMAIN s /\ (s \o t)[i] = s[i] /\ s[i] # n
  <2>1. i \in 1 .. Len(s)
    BY <1>2, <1>5
  <2> QED BY <1>3, <1>5, <2>1
<1>6. ASSUME NEW i \in 1 .. Len(s) + Len(t), NEW j \in 1 .. Len(s) + Len(t),
             (s \o t)[i] = (s \o t)[j]
      PROVE  i = j
  <2>1. CASE i <= Len(s) /\ j <= Len(s)
    BY <1>5, <1>6, <2>1 DEF IsInjective
  <2>2. CASE ~(i <= Len(s)) /\ ~(j <= Len(s))
    <3>1. /\ i - Len(s) \in 1 .. Len(t) /\ j - Len(s) \in 1 .. Len(t)
          /\ t[i - Len(s)] = (s \o t)[i] /\ t[j - Len(s)] = (s \o t)[j]
      BY <1>3, <1>4, <2>2
    <3>2. i - Len(s) = j - Len(s)
      BY <1>6, <3>1 DEF IsInjective
    <3> QED BY <1>2, <3>2
  <2>3. CASE (i <= Len(s)) # (j <= Len(s))
    BY <1>4, <1>5, <1>6, <2>3
  <2> QED BY <2>1, <2>2, <2>3
<1> QED BY <1>2, <1>6 DEF IsInjective

\* What a reply lists is of the sessions the server has.
LEMMA ResumeKeepsTypes ==
  ASSUME ViewInv, NEW o \in Ops, Resume(o)
  PROVE  /\ ViewTypes' /\ EditorIsSound'
         /\ op[o].ok /\ Request(o) = "CREATE_SESSION" => op[o].data = {current'}
         /\ ~overlapped => IsInjective(sessions')
<1>1. /\ o \in Under /\ op[o].at = "replied"
      /\ UNCHANGED <<created, active, rulesOf, added, chosen, lost, overlapped>> /\ Rendered
      /\ op[o].ok => Show(o)
      /\ ~op[o].ok => UNCHANGED <<sessions, current, rules, results, lastResult>>
      /\ op' \in [Ops -> Operation]
      /\ busy' \in BOOLEAN /\ connecting' \in BOOLEAN
      /\ editing' \in {editing, Closed}
  BY ResumeFacts
<1>2. /\ ViewTypes /\ RepliesAreSound /\ Alone
  BY DEF ViewInv
<1>3. /\ created \in Nat /\ 1 .. created \subseteq Sessions /\ \A s \in Sessions : s \in Nat
      /\ op[o].session \in Sessions \cup {None} /\ op[o].data \in SUBSET Nat
  BY ViewFacts
<1>4. op[o].ok => /\ Request(o) = "LIST_SESSIONS" => op[o].data \subseteq 1 .. created
                  /\ Request(o) = "CREATE_SESSION" => \E n \in 1 .. created : op[o].data = {n}
                  /\ Request(o) = "LIST_RULES" => /\ op[o].session \in Sessions
                                                  /\ op[o].data \subseteq Rules
  <2>1. op[o].ok /\ Request(o) = "LIST_RULES" => \A r \in op[o].data : r \in 1 .. added \cup chosen
    BY <1>1 DEF ViewInv, RulesHaveSessions, Answered, IsOf
  <2>2. Request(o) = "LIST_RULES" => op[o].session \in Sessions
    BY <1>1, RequestFacts
  <2>3. 1 .. added \cup chosen \subseteq Rules
    BY <1>2, ViewFacts DEF ViewTypes
  <2> QED BY <1>1, <1>2, <2>1, <2>2, <2>3 DEF RepliesAreSound, Answered
<1>5. sessions \in Seq(1 .. created)
  <2>1. sessions \in Seq(Sessions)
    BY <1>2 DEF ViewTypes
  <2>2. ASSUME NEW i \in 1 .. Len(sessions) PROVE sessions[i] \in 1 .. created
    <3>1. sessions[i] \in Sessions /\ sessions[i] <= created
      BY <1>2, <2>1, ElementOfSeq DEF ViewTypes
    <3>2. sessions[i] \in Nat /\ sessions[i] # 0
      BY <3>1, ViewFacts DEF None
    <3> QED BY <1>3, <3>1, <3>2
  <2> QED BY <2>1, <2>2, ElementsOf
<1>6. ASSUME op[o].ok, Request(o) = "LIST_SESSIONS"
      PROVE  sessions' \in Seq(1 .. created) /\ IsInjective(sessions')
  <2>1. IsFiniteSet(op[o].data) /\ op[o].data \subseteq 1 .. created
    <3>1. op[o].data \subseteq 1 .. created
      BY <1>4, <1>6
    <3>2. created \in Int /\ 1 \in Int
      BY <1>3
    <3>3. IsFiniteSet(1 .. created)
      BY <3>2, FS_Interval
    <3> QED BY <3>1, <3>3, FS_Subset
  <2>2. sessions' = SetToSeq(op[o].data)
    BY <1>1, <1>6, ShowFacts
  <2>3. sessions' \in Seq(op[o].data) /\ IsInjective(sessions')
    BY <2>1, <2>2, SetToSeqListsThem
  <2>4. \A i \in 1 .. Len(sessions') : sessions'[i] \in 1 .. created
    BY <2>1, <2>3, ElementOfSeq
  <2> QED BY <2>3, <2>4, ElementsOf
<1>7. ASSUME op[o].ok, Request(o) = "CREATE_SESSION"
      PROVE  /\ sessions' \in Seq(1 .. created) /\ op[o].data = {current'}
             /\ current' \in Sessions
             /\ ~overlapped => IsInjective(sessions')
  <2>1. PICK n \in 1 .. created : op[o].data = {n}
    BY <1>4, <1>7
  <2>2. current' = n
    BY <1>1, <1>7, <2>1, ShowFacts
  <2>3. PICK t : t = SetToSeq({n})
    OBVIOUS
  <2>4. t \in Seq({n}) /\ IsInjective(t)
    BY <2>3, SetToSeqListsThem, FS_Singleton
  <2>5. sessions' = sessions \o t
    BY <1>1, <1>7, <2>1, <2>3, ShowFacts
  <2>6. t \in Seq(1 .. created)
    <3>1. \A i \in 1 .. Len(t) : t[i] \in 1 .. created
      BY <2>4, ElementOfSeq
    <3> QED BY <2>4, <3>1, ElementsOf
  <2>7. ASSUME ~overlapped PROVE IsInjective(sessions')
    <3>1. IsInjective(sessions) /\ \A i \in 1 .. Len(sessions) : sessions[i] # n
      BY <1>1, <1>2, <1>7, <2>1, <2>7 DEF Alone, CreatedIsNew, Answered
    <3> QED BY <1>5, <2>4, <2>5, <3>1, AppendedOnce
  <2> QED BY <1>3, <1>5, <2>1, <2>2, <2>5, <2>6, <2>7
<1>8. ASSUME op[o].ok, Request(o) \notin {"LIST_SESSIONS", "CREATE_SESSION"}
      PROVE  sessions' \in Seq(1 .. created) /\ (~overlapped => IsInjective(sessions'))
  <2>1. CASE Request(o) = "disconnect"
    <3>1. sessions' = <<>>
      BY <1>1, <1>8, <2>1, ShowFacts
    <3>2. IsInjective(<<>>)
      BY DEF IsInjective
    <3> QED BY <3>1, <3>2
  <2>2. CASE Request(o) # "disconnect"
    <3>1. sessions' = sessions
      BY <1>1, <1>8, <2>2, ShowFacts
    <3> QED BY <1>2, <1>5, <3>1 DEF Alone
  <2> QED BY <2>1, <2>2
<1>9. sessions' \in Seq(1 .. created) /\ (~overlapped => IsInjective(sessions'))
  <2>1. CASE ~op[o].ok
    BY <1>1, <1>2, <1>5, <2>1 DEF Alone
  <2> QED BY <1>6, <1>7, <1>8, <2>1
<1>10. sessions' \in Seq(Sessions) /\ \A i \in 1 .. Len(sessions') : sessions'[i] <= created
  <2>1. \A i \in 1 .. Len(sessions') : sessions'[i] \in 1 .. created
    BY <1>9, ElementOfSeq
  <2>2. \A i \in 1 .. Len(sessions') : sessions'[i] \in Sessions
    BY <1>3, <2>1
  <2> QED BY <1>3, <1>9, <2>1, <2>2, ElementsOf
<1>11. /\ current' \in Sessions \cup {None} /\ results' \in Sessions \cup {None}
       /\ lastResult' \in Sessions \cup {None}
       /\ rules' \in [of : Sessions \cup {None}, ids : SUBSET Rules]
  <2>1. /\ current \in Sessions \cup {None} /\ results \in Sessions \cup {None}
        /\ lastResult \in Sessions \cup {None}
        /\ rules \in [of : Sessions \cup {None}, ids : SUBSET Rules]
    BY <1>2 DEF ViewTypes
  <2>2. CASE ~op[o].ok
    BY <1>1, <2>1, <2>2
  <2>3. CASE op[o].ok /\ Request(o) = "CREATE_SESSION"
    <3>1. /\ rules' = [of |-> current', ids |-> {}] /\ results' = current'
          /\ lastResult' \in {lastResult, op[o].session}
      BY <1>1, <2>3, ShowFacts
    <3> QED BY <1>3, <1>7, <2>1, <2>3, <3>1
  <2>4. CASE op[o].ok /\ Request(o) = "disconnect"
    <3>1. /\ rules' = [of |-> None, ids |-> {}] /\ results' = None /\ current' = None
          /\ lastResult' \in {lastResult, op[o].session}
      BY <1>1, <2>4, ShowFacts
    <3> QED BY <1>3, <2>1, <3>1
  <2>5. CASE op[o].ok /\ Request(o) \notin {"CREATE_SESSION", "disconnect"}
    <3>1. /\ current' \in {current, None} /\ lastResult' \in {lastResult, op[o].session}
          /\ results' \in {results, op[o].session}
      BY <1>1, <2>5, ShowFacts
    <3>2. rules' = IF Request(o) = "LIST_RULES" THEN [of |-> op[o].session, ids |-> op[o].data]
                   ELSE rules
      BY <1>1, <2>5, ShowFacts
    <3>3. rules' \in [of : Sessions \cup {None}, ids : SUBSET Rules]
      BY <1>4, <2>1, <2>5, <3>2
    <3> QED BY <1>3, <2>1, <3>1, <3>3
  <2> QED BY <2>2, <2>3, <2>4, <2>5
<1>12. editing' \in Editors /\ fields' \in Editors /\ EditorIsSound'
  <2>1. editing' \in Editors
    <3>1. Closed \in Editors
      BY DEF Closed, Editors
    <3>2. editing \in Editors
      BY <1>2 DEF ViewTypes
    <3> QED BY <1>1, <3>1, <3>2
  <2> QED BY <1>1, <1>2, <2>1, RenderedKeepsEditor DEF ViewInv
<1>13. ViewTypes'
  BY <1>1, <1>2, <1>10, <1>11, <1>12 DEF ViewTypes
<1> QED BY <1>7, <1>9, <1>12, <1>13

\* The tab resumes with a reply.
LEMMA ResumeKeepsView ==
  ASSUME ViewInv, NEW o \in Ops, Resume(o)
  PROVE  ViewInv'
<1>1. /\ o \in Under /\ op[o].at = "replied"
      /\ UNCHANGED <<created, active, rulesOf, added, chosen, lost, overlapped>>
      /\ op[o].ok => Show(o)
      /\ ~op[o].ok => UNCHANGED <<sessions, current, rules, results, lastResult>>
      /\ \A p \in Ops : p # o => op'[p] = op[p]
      /\ op'[o].kind = op[o].kind /\ op'[o].ok = FALSE
      /\ ~Continued(o) => /\ op'[o].at = "over" /\ op'[o].step = 1
                          /\ op'[o].session = op'[o].of
                          /\ op[o].ok => \/ op[o].step = Len(Program[op[o].kind])
                                         \/ op[o].kind = "mount"
      /\ editing' \in {editing, Closed}
      /\ Under' \subseteq Under /\ (o \in Under' <=> Continued(o))
      /\ \A p \in Ops : \A request : p # o => (Answered(p, request)' <=> Answered(p, request))
      /\ \A request : ~Answered(o, request)'
  BY ResumeFacts
<1>2. /\ OperationsAreSound /\ RepliesAreSound /\ RulesHaveSessions
      /\ EditorIsSound /\ ChangesMeetTheirRule /\ Alone
  BY DEF ViewInv
<1>3. /\ ViewTypes' /\ EditorIsSound'
      /\ op[o].ok /\ Request(o) = "CREATE_SESSION" => op[o].data = {current'}
      /\ ~overlapped => IsInjective(sessions')
  BY ResumeKeepsTypes
<1>4. /\ op[o].kind \in DOMAIN Program /\ op[o].kind # "none"
      /\ op[o].step \in 1 .. Len(Program[op[o].kind])
      /\ \A kind \in DOMAIN Program : Len(Program[kind]) \in {1, 2}
      /\ \A p \in Under : p \in Ops
  BY <1>1, ViewFacts, ProgramFacts
<1>5. OperationsAreSound'
  <2>1. ASSUME NEW p \in Ops
        PROVE  /\ op'[p].at # "unused" => /\ op'[p].kind # "none"
                                          /\ op'[p].step \in 1 .. Len(Program[op'[p].kind])
               /\ p \in Under' /\ op'[p].kind \in OnSession => op'[p].session \in Sessions
    <3>1. CASE p # o
      BY <1>1, <1>2, <3>1 DEF OperationsAreSound
    <3>2. CASE p = o /\ Continued(o)
      <4>1. op'[o].step = 2 /\ Len(Program[op[o].kind]) = 2 /\ op'[o].session = op[o].session
        BY <3>2 DEF Continued
      <4>2. op'[o].step \in 1 .. Len(Program[op'[o].kind])
        BY <1>1, <4>1
      <4> QED BY <1>1, <1>2, <1>4, <3>2, <4>1, <4>2 DEF OperationsAreSound
    <3>3. CASE p = o /\ ~Continued(o)
      <4>1. op'[o].step = 1 /\ op'[o].kind = op[o].kind
        BY <1>1, <3>3
      <4>2. 1 \in 1 .. Len(Program[op[o].kind])
        BY <1>4
      <4> QED BY <1>1, <1>4, <3>3, <4>1, <4>2
    <3> QED BY <3>1, <3>2, <3>3
  <2> QED BY <2>1 DEF OperationsAreSound
<1>6. RepliesAreSound'
  <2>1. ASSUME NEW p \in Ops
        PROVE  /\ Answered(p, "LIST_SESSIONS")' => op'[p].data \subseteq 1 .. created'
               /\ Answered(p, "CREATE_SESSION")' => \E n \in 1 .. created' : op'[p].data = {n}
    BY <1>1, <1>2 DEF RepliesAreSound
  <2> QED BY <2>1 DEF RepliesAreSound
<1>7. RulesHaveSessions'
  <2>1. ASSUME NEW p \in Ops
        PROVE  /\ op'[p].kind \in OnRules /\ p \in Under' =>
                    IsOf(op'[p].rule, op'[p].of, rulesOf', added', chosen')
               /\ op'[p].kind = "add" /\ p \in Under' => op'[p].rule \in chosen' \cup {None}
               /\ Answered(p, "LIST_RULES")' =>
                    \A r \in op'[p].data : IsOf(r, op'[p].session, rulesOf', added', chosen')
    <3>1. CASE p = o
      BY <1>1, <1>2, <3>1 DEF RulesHaveSessions, Continued
    <3>2. CASE p # o
      BY <1>1, <1>2, <3>2 DEF RulesHaveSessions
    <3> QED BY <3>1, <3>2
  <2>2. \A r \in rules'.ids : IsOf(r, rules'.of, rulesOf, added, chosen)
    <3>1. CASE ~op[o].ok
      BY <1>1, <1>2, <3>1 DEF RulesHaveSessions
    <3>2. CASE op[o].ok /\ Request(o) \in {"CREATE_SESSION", "disconnect"}
      <4>1. rules'.ids = {}
        BY <1>1, <3>2, ShowFacts
      <4> QED BY <4>1
    <3>3. CASE op[o].ok /\ Request(o) = "LIST_RULES"
      <4>1. rules' = [of |-> op[o].session, ids |-> op[o].data]
        BY <1>1, <3>3, ShowFacts
      <4>2. Answered(o, "LIST_RULES")
        BY <1>1, <3>3 DEF Answered
      <4> QED BY <1>2, <4>1, <4>2 DEF RulesHaveSessions
    <3>4. CASE op[o].ok /\ Request(o) \notin {"CREATE_SESSION", "disconnect", "LIST_RULES"}
      <4>1. rules' = rules
        BY <1>1, <3>4, ShowFacts
      <4> QED BY <1>2, <4>1 DEF RulesHaveSessions
    <3> QED BY <3>1, <3>2, <3>3, <3>4
  <2> QED BY <1>1, <1>2, <2>1, <2>2 DEF RulesHaveSessions
<1>8. ChangesMeetTheirRule'
  <2>1. ASSUME NEW p \in Ops, op'[p].kind \in OnRules, op'[p].step = 1,
               op'[p].session # op'[p].of
        PROVE  /\ op'[p].ok => op'[p].rule \in chosen'
               /\ overlapped' \/ op'[p].kind = "save"
    <3>1. CASE p # o
      BY <1>1, <1>2, <2>1, <3>1 DEF ChangesMeetTheirRule, OnRules
    <3>2. CASE p = o
      <4>1. ~Continued(o)
        BY <2>1, <3>2 DEF Continued
      <4>2. op'[o].session = op'[o].of
        BY <1>1, <4>1
      <4> QED BY <2>1, <3>2, <4>2
    <3> QED BY <3>1, <3>2
  <2> QED BY <2>1 DEF ChangesMeetTheirRule, OnRules
<1>9. Alone'
  <2> SUFFICES ASSUME ~overlapped
               PROVE  /\ OneIsUnder' /\ UnderIsOfTheSession'
                      /\ current' # None => rules'.of = current' /\ results' = current'
                      /\ CreatedIsNew'
                      /\ lost = 0 => RulesArrive'
    BY <1>1, <1>3 DEF Alone
  <2>1. /\ OneIsUnder /\ UnderIsOfTheSession
        /\ current # None => rules.of = current /\ results = current
        /\ CreatedIsNew
        /\ lost = 0 => RulesArrive
    BY <1>2 DEF Alone
  <2>2. OneIsUnder' /\ \A p \in Under : p = o
    BY <1>1, <2>1 DEF OneIsUnder
  <2>3. ASSUME Continued(o) PROVE current' = current
    <3>1. op[o].ok /\ op[o].step # Len(Program[op[o].kind])
      BY <2>3 DEF Continued
    <3>2. Request(o) \notin {"CREATE_SESSION", "disconnect", "LIST_SESSIONS"}
      BY <1>1, <3>1, RequestFacts
    <3> QED BY <1>1, <3>1, <3>2, ShowFacts
  <2>4. UnderIsOfTheSession'
    <3>1. ASSUME current' # None, NEW p \in Under', op'[p].kind \in OnSession
          PROVE  op'[p].session = current'
      <4>1. p = o /\ Continued(o)
        BY <1>1, <2>2, <3>1
      <4> QED BY <1>1, <2>1, <2>3, <3>1, <4>1 DEF Continued, UnderIsOfTheSession
    <3> QED BY <3>1 DEF UnderIsOfTheSession
  <2>5. ASSUME op[o].ok, Request(o) \notin {"CREATE_SESSION", "disconnect"}, current' # None
        PROVE  current' = current /\ (op[o].kind \in OnSession => op[o].session = current)
    <3>1. current' = current
      BY <1>1, <2>5, ShowFacts
    <3> QED BY <1>1, <2>1, <2>5, <3>1 DEF UnderIsOfTheSession
  <2>6. ASSUME current' # None PROVE rules'.of = current' /\ results' = current'
    <3>1. CASE ~op[o].ok
      BY <1>1, <2>1, <2>6, <3>1
    <3>2. CASE op[o].ok /\ Request(o) \in {"CREATE_SESSION", "disconnect"}
      <4>1. rules' = [of |-> current', ids |-> {}] /\ results' = current'
        BY <1>1, <2>6, <3>2, ShowFacts
      <4> QED BY <4>1
    <3>3. CASE op[o].ok /\ Request(o) \notin {"CREATE_SESSION", "disconnect"}
      <4>1. /\ rules' = IF Request(o) = "LIST_RULES"
                          THEN [of |-> op[o].session, ids |-> op[o].data] ELSE rules
            /\ results' = IF Request(o) = "LIST_RESULTS" THEN op[o].session ELSE results
        BY <1>1, <3>3, ShowFacts
      <4>2. Request(o) \in {"LIST_RULES", "LIST_RESULTS"} => op[o].session = current
        BY <1>1, <2>5, <2>6, <3>3, RequestFacts
      <4>3. current' = current /\ rules.of = current /\ results = current
        BY <2>1, <2>5, <2>6, <3>3
      <4> QED BY <4>1, <4>2, <4>3
    <3> QED BY <3>1, <3>2, <3>3
  <2>7. CreatedIsNew'
    <3>1. \A p \in Ops : ~Answered(p, "CREATE_SESSION")'
      <4>1. \A p \in Ops : Answered(p, "CREATE_SESSION") => p \in Under
        BY DEF Answered, Under
      <4> QED BY <1>1, <2>2, <4>1
    <3> QED BY <3>1 DEF CreatedIsNew
  <2>8. ASSUME lost = 0 PROVE RulesArrive'
    <3>1. /\ Request(o) = "LIST_RULES" => op[o].ok /\ op[o].data = rulesOf[op[o].session]
          /\ current # None /\ ~Stale(o) => rules.ids = rulesOf[current]
      BY <1>1, <2>1, <2>2, <2>8 DEF RulesArrive
    <3>2. \A p \in Under' : op'[p].at # "replied"
      BY <1>1, <2>2 DEF Continued
    <3>3. ASSUME current' # None, \A p \in Under' : ~Stale(p)'
          PROVE  rules'.ids = rulesOf[current']
      <4>1. CASE ~op[o].ok
        <5>1. Request(o) # "LIST_RULES"
          BY <3>1, <4>1
        <5>2. ~Stale(o)
          BY <1>1, <4>1, <5>1, RequestFacts DEF Stale
        <5> QED BY <1>1, <3>1, <3>3, <4>1, <5>2
      <4>2. CASE op[o].ok /\ Request(o) \in {"CREATE_SESSION", "disconnect"}
        <5>1. Request(o) # "disconnect"
          BY <1>1, <3>3, <4>2, ShowFacts
        <5>2. rulesOf[current'] = {}
          <6>1. Answered(o, "CREATE_SESSION") /\ current' \in op[o].data
            BY <1>1, <1>3, <4>2, <5>1 DEF Answered
          <6> QED BY <2>1, <6>1 DEF CreatedIsNew
        <5>3. rules'.ids = {}
          BY <1>1, <4>2, ShowFacts
        <5> QED BY <5>2, <5>3
      <4>3. CASE op[o].ok /\ Request(o) = "LIST_RULES"
        <5>1. rules' = [of |-> op[o].session, ids |-> op[o].data]
          BY <1>1, <4>3, ShowFacts
        <5>2. op[o].session = current'
          BY <1>1, <2>5, <3>3, <4>3, RequestFacts
        <5> QED BY <3>1, <4>3, <5>1, <5>2
      <4>4. CASE op[o].ok /\ Request(o) \notin {"CREATE_SESSION", "disconnect", "LIST_RULES"}
        <5>1. rules' = rules /\ current' = current
          BY <1>1, <2>5, <3>3, <4>4, ShowFacts
        <5>2. ~Stale(o)
          <6> SUFFICES ASSUME op[o].kind \in OnLists, op[o].step # 2
                       PROVE  FALSE
            BY <1>1, <4>4, RequestFacts DEF Stale
          <6>1. op[o].step # Len(Program[op[o].kind])
            BY <1>1, RequestFacts
          <6>2. Continued(o)
            BY <1>1, <4>4, <6>1 DEF OnLists, OnRules
          <6>3. Stale(o)'
            BY <1>1, <6>2 DEF Stale, Continued
          <6> QED BY <1>1, <3>3, <6>2, <6>3
        <5> QED BY <3>1, <3>3, <5>1, <5>2
      <4> QED BY <4>1, <4>2, <4>3, <4>4
    <3> QED BY <1>1, <3>2, <3>3 DEF RulesArrive
  <2> QED BY <2>2, <2>4, <2>6, <2>7, <2>8
<1> QED BY <1>3, <1>5, <1>6, <1>7, <1>8, <1>9 DEF ViewInv

\* A request is served.
LEMMA ServeKeepsView ==
  ASSUME ViewInv, NEW o \in Ops, Serve(o)
  PROVE  ViewInv'
<1>1. /\ op[o].at = "sent" /\ o \in Under /\ UNCHANGED <<viewVars, chosen, overlapped, lost>>
  BY DEF Serve, Under, historyVars
<1>2. /\ rulesOf \in [Sessions -> SUBSET Rules] /\ created \in Nat /\ added \in Nat
      /\ MaxSessions \in Nat
      /\ \A s \in Sessions : \A r \in rulesOf[s] : r \in Nat
  <2>1. rulesOf \in [Sessions -> SUBSET Rules]
    BY DEF ViewInv, RulesHaveSessions
  <2>2. \A r \in Rules : r \in Nat
    BY ViewFacts DEF Rules
  <2> QED BY <2>1, <2>2, ViewFacts
<1>3. Request(o) \in {"LIST_RULES", "ADD_RULE", "UPDATE_RULE", "DELETE_RULE"}
        => op[o].session \in Sessions
  BY <1>1, RequestFacts
<1>4. \E ok \in BOOLEAN, data \in SUBSET Nat : Effect(o, ok, data)
  <2>1. CASE Request(o) = "LIST_SESSIONS" /\ Reply(o, TRUE, 1 .. created) /\ UNCHANGED serverVars
    <3>1. 1 .. created \in SUBSET Nat
      BY <1>2
    <3>2. Effect(o, TRUE, 1 .. created)
      BY <2>1 DEF Effect, serverVars
    <3> QED BY <3>1, <3>2
  <2>2. CASE /\ Request(o) = "CREATE_SESSION" /\ created < MaxSessions
             /\ created' = created + 1 /\ active' = active \cup {created'}
             /\ Reply(o, TRUE, {created'}) /\ UNCHANGED <<up, rulesOf, added>>
    <3>1. {created'} \in SUBSET Nat
      BY <1>2, <2>2
    <3>2. Effect(o, TRUE, {created'})
      BY <2>2 DEF Effect, CreatesSession
    <3> QED BY <3>1, <3>2
  <2>3. CASE /\ Request(o) = "CLOSE_SESSION" /\ active' = active \ {op[o].session}
             /\ Reply(o, op[o].session \in active, {}) /\ UNCHANGED <<up, created, rulesOf, added>>
    <3>1. PICK ok \in BOOLEAN : ok <=> op[o].session \in active
      OBVIOUS
    <3>2. Reply(o, ok, {})
      BY <2>3, <3>1
    <3>3. Effect(o, ok, {})
      BY <2>3, <3>2 DEF Effect
    <3> QED BY <3>3
  <2>4. CASE /\ Request(o) = "LIST_RULES" /\ Reply(o, TRUE, rulesOf[op[o].session])
             /\ UNCHANGED serverVars
    <3>1. PICK data : data = rulesOf[op[o].session]
      OBVIOUS
    <3>2. data \in SUBSET Nat
      BY <1>2, <1>3, <2>4, <3>1
    <3>3. Effect(o, TRUE, data)
      BY <2>4, <3>1 DEF Effect, serverVars
    <3> QED BY <3>2, <3>3
  <2>5. CASE /\ Request(o) = "ADD_RULE" /\ op[o].session \in active
             /\ op[o].rule = None => added < MaxRules
             /\ added' = IF op[o].rule = None THEN added + 1 ELSE added
             /\ \E unlike \in BOOLEAN :
                  LET id == IF op[o].rule = None THEN added' ELSE op[o].rule
                  IN /\ Reply(o, unlike /\ id \notin rulesOf[op[o].session], {})
                     /\ rulesOf' = IF unlike THEN [rulesOf EXCEPT ![op[o].session] = @ \cup {id}]
                                    ELSE rulesOf
             /\ UNCHANGED <<up, active, created>>
    <3>1. PICK s \in Sessions : s = op[o].session
      BY <1>3, <2>5
    <3>2. PICK id : id = IF op[o].rule = None THEN added' ELSE op[o].rule
      OBVIOUS
    <3>3. PICK unlike \in BOOLEAN :
            /\ Reply(o, unlike /\ id \notin rulesOf[s], {})
            /\ rulesOf' = IF unlike THEN [rulesOf EXCEPT ![s] = @ \cup {id}] ELSE rulesOf
      BY <2>5, <3>1, <3>2
    <3>4. PICK ok \in BOOLEAN : ok = (unlike /\ id \notin rulesOf[s])
      OBVIOUS
    <3>5. Reply(o, ok, {})
      BY <3>3, <3>4
    <3>6. added' \in {added, added + 1} \cap 0 .. MaxRules
      <4>1. added \in 0 .. MaxRules
        BY DEF ViewInv, ViewTypes
      <4> QED BY <1>2, <2>5, <4>1, InterfaceAssumption
    <3>7. id \in chosen \/ (id = added + 1 /\ added' = id)
      <4>1. op[o].kind = "add"
        BY <1>1, <2>5, RequestFacts
      <4>2. op[o].rule \in chosen \cup {None}
        BY <1>1, <4>1 DEF ViewInv, RulesHaveSessions
      <4> QED BY <2>5, <3>2, <4>2
    <3>8. UNCHANGED rulesOf \/ (ok /\ AddsRule(s, id))
      <4>1. CASE ~unlike
        BY <3>3, <4>1
      <4>2. CASE unlike /\ id \in rulesOf[s]
        <5>1. rulesOf[s] \cup {id} = rulesOf[s]
          BY <4>2
        <5>2. rulesOf' = [rulesOf EXCEPT ![s] = rulesOf[s]]
          BY <1>2, <3>3, <4>2, <5>1
        <5> QED BY <1>2, <5>2
      <4>3. CASE unlike /\ id \notin rulesOf[s]
        <5>1. rulesOf' = [rulesOf EXCEPT ![s] = rulesOf[s] \cup {id}]
          BY <3>3, <4>3
        <5> QED BY <2>5, <3>1, <3>4, <3>7, <4>3, <5>1 DEF AddsRule
      <4> QED BY <4>1, <4>2, <4>3
    <3>9. Effect(o, ok, {})
      BY <2>5, <3>1, <3>5, <3>6, <3>8 DEF Effect
    <3> QED BY <3>9
  <2>6. CASE /\ Request(o) \in {"UPDATE_RULE", "DELETE_RULE"}
             /\ \E unlike \in IF Request(o) = "UPDATE_RULE" THEN BOOLEAN ELSE {TRUE} :
                  Reply(o, /\ unlike /\ op[o].session \in active
                           /\ HasRule(op[o].session, op[o].rule), {})
             /\ rulesOf' = IF Request(o) = "DELETE_RULE" /\ op[o].session \in active
                             THEN [rulesOf EXCEPT ![op[o].session] = @ \ {op[o].rule}] ELSE rulesOf
             /\ UNCHANGED <<up, active, created, added>>
    <3>5. PICK unlike \in BOOLEAN :
            /\ Request(o) = "DELETE_RULE" => unlike
            /\ Reply(o, /\ unlike /\ op[o].session \in active
                        /\ HasRule(op[o].session, op[o].rule), {})
      BY <2>6
    <3>1. PICK ok \in BOOLEAN :
            ok = (unlike /\ op[o].session \in active /\ op[o].rule \in rulesOf[op[o].session])
      OBVIOUS
    <3>2. Reply(o, ok, {})
      BY <3>1, <3>5 DEF HasRule
    <3>3. \/ UNCHANGED <<added, rulesOf>>
          \/ Request(o) = "DELETE_RULE" /\ ok /\ DeletesRule(op[o].session, op[o].rule)
      <4>1. PICK s \in Sessions : s = op[o].session
        BY <1>3, <2>6
      <4>2. rulesOf' # rulesOf =>
              Request(o) = "DELETE_RULE" /\ s \in active
              /\ rulesOf' = [rulesOf EXCEPT ![s] = rulesOf[s] \ {op[o].rule}]
        BY <1>2, <2>6, <4>1
      <4>3. op[o].rule \notin rulesOf[s]
              => [rulesOf EXCEPT ![s] = rulesOf[s] \ {op[o].rule}] = rulesOf
        BY <1>2
      <4> QED BY <2>6, <3>1, <3>5, <4>1, <4>2, <4>3 DEF DeletesRule
    <3>4. Effect(o, ok, {})
      BY <2>6, <3>1, <3>2, <3>3 DEF Effect
    <3> QED BY <3>4
  <2>7. CASE /\ Request(o) \in {"ADD_RULE", "RUN_TEST", "CREATE_SESSION"}
             /\ Reply(o, FALSE, {}) /\ UNCHANGED serverVars
    <3>1. Effect(o, FALSE, {})
      BY <2>7 DEF Effect, serverVars
    <3> QED BY <3>1
  <2>8. CASE /\ Request(o) \in {"RUN_TEST", "LIST_RESULTS", "GET_RESULT", "raw"}
             /\ Reply(o, TRUE, {}) /\ UNCHANGED serverVars
    <3>1. Effect(o, TRUE, {})
      BY <2>8 DEF Effect, serverVars
    <3> QED BY <3>1
  <2> QED BY <2>1, <2>2, <2>3, <2>4, <2>5, <2>6, <2>7, <2>8 DEF Serve
<1>5. PICK ok \in BOOLEAN, data \in SUBSET Nat : Effect(o, ok, data)
  BY <1>4
<1> QED BY <1>1, <1>5, AnswerKeepsView

\* The bridge answers, with or without a reply to the request.
LEMMA BridgeKeepsView ==
  ASSUME ViewInv, NEW o \in Ops,
         TellStatus(o) \/ BridgeConnects(o) \/ BridgeDisconnects(o) \/ Fails(o) \/ ReplyLost(o)
  PROVE  ViewInv'
<1>1. lost \in Nat
  BY DEF ViewInv, ViewTypes
<1>2. ASSUME op[o].at = "sent", Request(o) \in {"status", "connect", "disconnect"},
             NEW state \in BOOLEAN, Reply(o, TRUE, Told(state)),
             UNCHANGED <<created, active, rulesOf, added, viewVars, chosen, lost, overlapped>>
      PROVE  ViewInv'
  <2>1. PICK data : data = Told(state)
    OBVIOUS
  <2>2. data \in SUBSET Nat
    BY <2>1 DEF Told
  <2>3. Effect(o, TRUE, data)
    BY <1>2, <2>1 DEF Effect
  <2>4. o \in Under
    BY <1>2 DEF Under
  <2> QED BY <1>2, <2>2, <2>3, <2>4, AnswerKeepsView
<1>3. ASSUME op[o].at \in {"sent", "replied"}, Reply(o, FALSE, {}), lost' = lost + 1,
             UNCHANGED <<created, active, rulesOf, added, viewVars, chosen, overlapped>>
      PROVE  ViewInv'
  <2>1. lost' # 0
    BY <1>1, <1>3
  <2>2. Effect(o, FALSE, {})
    BY <1>3, <2>1 DEF Effect
  <2>3. o \in Under
    BY <1>3 DEF Under
  <2> QED BY <1>3, <2>1, <2>2, <2>3, AnswerKeepsView
<1>4. CASE TellStatus(o)
  <2>1. /\ op[o].at = "sent" /\ Request(o) = "status" /\ Reply(o, TRUE, Told(up))
        /\ UNCHANGED <<created, active, rulesOf, added, viewVars, chosen, lost, overlapped>>
    BY <1>4 DEF TellStatus, serverVars, historyVars
  <2>2. PICK state \in BOOLEAN : Told(up) = Told(state)
    BY DEF Told
  <2> QED BY <1>2, <2>1, <2>2
<1>5. CASE BridgeConnects(o)
  <2>1. /\ op[o].at = "sent"
        /\ UNCHANGED <<created, active, rulesOf, added, viewVars, chosen, lost, overlapped>>
        /\ \/ Request(o) = "connect" /\ Reply(o, TRUE, Told(TRUE))
           \/ UNCHANGED op
    BY <1>5 DEF BridgeConnects
  <2> QED BY <1>2, <2>1, SilenceKeepsView
<1>6. CASE BridgeDisconnects(o)
  <2>1. /\ op[o].at = "sent" /\ Request(o) = "disconnect" /\ Reply(o, TRUE, Told(FALSE))
        /\ UNCHANGED <<created, active, rulesOf, added, viewVars, chosen, lost, overlapped>>
    BY <1>6 DEF BridgeDisconnects
  <2> QED BY <1>2, <2>1
<1>7. CASE Fails(o)
  BY <1>3, <1>7 DEF Fails, serverVars
<1>8. CASE ReplyLost(o)
  BY <1>3, <1>8 DEF ReplyLost, serverVars
<1> QED BY <1>4, <1>5, <1>6, <1>7, <1>8

\* The user starts one of the operations.
UserStarts(o) ==
  \/ Mount(o) \/ Connect(o) \/ Disconnect(o) \/ Create(o) \/ Raw(o) \/ Load(o)
  \/ \E typed \in Rules \cup {None} : Submit(o, typed)
  \/ \E s \in Sessions : Select(o, s)
  \/ \E kind \in {"close", "run"} : OnCurrent(o, kind)
  \/ \E kind \in {"update", "delete"}, rule \in Rules : OnRule(o, kind, rule)

\* An operation of the user starts on what is selected and shown.
LEMMA UserKeepsView ==
  ASSUME ViewInv, NEW o \in Ops, UserStarts(o)
  PROVE  ViewInv'
<1>1. /\ connecting \in BOOLEAN /\ current \in Sessions \cup {None}
      /\ rules.of \in Sessions \cup {None} /\ None \in Sessions \cup {None}
      /\ None \in Rules \cup {None} /\ editing \in Editors /\ fields \in Editors
      /\ \A r \in rules.ids : IsOf(r, rules.of, rulesOf, added, chosen)
      /\ EditorIsSound
  BY DEF ViewInv, ViewTypes, RulesHaveSessions
<1>2. DOMAIN Program = {"mount", "connect", "disconnect", "select", "create", "close", "add",
                        "save", "update", "delete", "run", "load", "raw"}
  BY ProgramFacts
<1>3. ASSUME NEW kind \in {"mount", "connect", "disconnect", "create", "raw"},
             Start(o, kind, None, None, None), connecting' \in BOOLEAN,
             UNCHANGED <<sessions, current, rules, results, lastResult, editing, fields>>
      PROVE  ViewInv'
  <2>1. /\ kind \in DOMAIN Program /\ kind \notin OnSession /\ kind \notin OnRules
        /\ kind \notin {"add", "update", "delete"}
    BY <1>2 DEF OnSession, OnRules
  <2> QED BY <1>1, <1>3, <2>1, StartKeepsView
<1>4. ASSUME NEW kind \in {"close", "run", "load"}, current # None,
             Start(o, kind, current, None, None),
             UNCHANGED <<connecting, sessions, current, rules, results, lastResult>>,
             UNCHANGED <<editing, fields>>
      PROVE  ViewInv'
  <2>1. kind \in DOMAIN Program /\ kind \notin OnRules /\ kind \notin {"add", "update", "delete"}
    BY <1>2 DEF OnRules
  <2>2. current \in Sessions /\ current' = current /\ connecting' \in BOOLEAN
    BY <1>1, <1>4
  <2> QED BY <1>1, <1>4, <2>1, <2>2, StartKeepsView
<1>5. ASSUME NEW kind \in {"add", "save", "update", "delete"}, current # None,
             NEW rule \in Rules \cup {None}, NEW of \in Sessions \cup {None},
             kind \in OnRules => IsOf(rule, of, rulesOf, added, chosen'),
             kind = "add" => rule \in chosen' \cup {None},
             kind \in {"update", "delete"} => of = rules.of,
             Start(o, kind, current, rule, of),
             UNCHANGED <<connecting, sessions, current, rules, results, lastResult>>,
             UNCHANGED <<editing, fields>>
      PROVE  ViewInv'
  <2>1. kind \in DOMAIN Program
    BY <1>2
  <2>2. current \in Sessions /\ current' = current /\ connecting' \in BOOLEAN
    BY <1>1, <1>5
  <2> QED BY <1>1, <1>5, <2>1, <2>2, StartKeepsView
<1>6. ASSUME NEW s \in Sessions, Select(o, s) PROVE ViewInv'
  <2>1. /\ Start(o, "select", s, None, None) /\ current' = s
        /\ rules' = [of |-> s, ids |-> {}] /\ results' = s /\ lastResult' = None
        /\ UNCHANGED <<connecting, sessions, editing>> /\ Rendered
    BY <1>6 DEF Select
  <2>2. "select" \in DOMAIN Program /\ "select" \notin OnRules
    BY <1>2 DEF OnRules
  <2> QED BY <1>1, <2>1, <2>2, StartKeepsView
<1>7. ASSUME Mount(o) \/ Connect(o) \/ Disconnect(o) \/ Create(o) \/ Raw(o) PROVE ViewInv'
  <2>1. CASE Mount(o)
    BY <1>1, <1>3, <2>1 DEF Mount, editorVars
  <2>2. CASE Connect(o)
    BY <1>3, <2>2 DEF Connect, editorVars
  <2>3. CASE Disconnect(o)
    BY <1>1, <1>3, <2>3 DEF Disconnect, editorVars
  <2>4. CASE Create(o)
    BY <1>1, <1>3, <2>4 DEF Create, editorVars
  <2>5. CASE Raw(o)
    BY <1>1, <1>3, <2>5 DEF Raw, editorVars
  <2> QED BY <1>7, <2>1, <2>2, <2>3, <2>4, <2>5
<1>8. ASSUME NEW typed \in Rules \cup {None}, Submit(o, typed) PROVE ViewInv'
  <2> DEFINE sent == IF fields.rule # None THEN fields
                     ELSE IF typed # None THEN [NewRule EXCEPT !.rule = typed] ELSE editing
             kind == IF editing.rule = None THEN "add" ELSE "save"
  <2>1. sent = IF fields.rule # None THEN fields
               ELSE IF typed # None THEN [NewRule EXCEPT !.rule = typed] ELSE editing
    OBVIOUS
  <2>2. kind = IF editing.rule = None THEN "add" ELSE "save"
    OBVIOUS
  <2>3. /\ fields.open /\ Start(o, kind, current, sent.rule, sent.of)
        /\ UNCHANGED <<connecting, sessions, current, rules, results, lastResult, editing, fields>>
    <3>1. fields.open /\ Start(o, kind, current, sent.rule, sent.of)
      BY <1>8, Zenon DEF Submit
    <3>2. UNCHANGED <<connecting, sessions, current, rules, results, lastResult, editing, fields>>
      BY <1>8 DEF Submit, editorVars
    <3> QED BY <3>1, <3>2
  <2> HIDE DEF sent, kind
  <2>4. current # None
    BY <1>1, <2>3 DEF EditorIsSound
  <2>5. chosen' = chosen \cup (IF sent.of = None THEN {sent.rule} \ {None} ELSE {})
    BY <2>3 DEF Start
  <2>6. CASE fields.rule # None
    <3>1. sent = fields /\ editing.rule # None /\ sent.rule \in Rules \cup {None}
          /\ sent.of \in Sessions \cup {None}
      BY <1>1, <2>1, <2>6 DEF EditorIsSound, Editors
    <3>2. IsOf(sent.rule, sent.of, rulesOf, added, chosen')
      BY <1>1, <2>5, <2>6, <3>1 DEF EditorIsSound, IsOf
    <3> QED BY <1>5, <2>2, <2>3, <2>4, <3>1, <3>2
  <2>7. CASE fields.rule = None /\ typed # None
    <3>1. sent.rule = typed /\ sent.of = None
      BY <2>1, <2>7 DEF NewRule
    <3>2. typed \in chosen'
      BY <2>5, <2>7, <3>1
    <3>3. IsOf(typed, None, rulesOf, added, chosen')
      BY <3>2 DEF IsOf
    <3> QED BY <1>1, <1>5, <2>2, <2>3, <2>4, <3>1, <3>2, <3>3
  <2>8. CASE fields.rule = None /\ typed = None
    <3>1. sent = editing /\ sent.rule \in Rules \cup {None} /\ sent.of \in Sessions \cup {None}
      BY <1>1, <2>1, <2>8 DEF Editors
    <3>2. editing.rule # None => IsOf(sent.rule, sent.of, rulesOf, added, chosen')
      BY <1>1, <2>5, <3>1 DEF EditorIsSound, IsOf
    <3> QED BY <1>5, <2>2, <2>3, <2>4, <3>1, <3>2 DEF OnRules
  <2> QED BY <2>6, <2>7, <2>8
<1>9. ASSUME Load(o) PROVE ViewInv'
  BY <1>4, <1>9 DEF Load, editorVars
<1>10. ASSUME NEW kind \in {"close", "run"}, OnCurrent(o, kind) PROVE ViewInv'
  BY <1>4, <1>10 DEF OnCurrent, editorVars
<1>11. ASSUME NEW kind \in {"update", "delete"}, NEW rule \in Rules, OnRule(o, kind, rule)
       PROVE  ViewInv'
  <2>1. /\ rule \in rules.ids /\ current # None /\ Start(o, kind, current, rule, rules.of)
        /\ UNCHANGED <<connecting, sessions, current, rules, results, lastResult, editing, fields>>
    BY <1>11 DEF OnRule, editorVars
  <2>2. chosen \subseteq chosen'
    BY <2>1 DEF Start
  <2>3. IsOf(rule, rules.of, rulesOf, added, chosen')
    BY <1>1, <2>1, <2>2 DEF IsOf
  <2> QED BY <1>1, <1>5, <2>1, <2>3
<1> QED BY <1>6, <1>7, <1>8, <1>9, <1>10, <1>11 DEF UserStarts

\* Of a fresh tab and of a settled one.
LEMMA ViewInitially == InterfaceInit => ViewInv
<1> SUFFICES ASSUME InterfaceInit PROVE ViewInv
  OBVIOUS
<1>1. /\ op = [o \in Ops |-> Unstarted] /\ connecting = FALSE /\ busy = FALSE /\ current = None
      /\ rules = [of |-> None, ids |-> {}] /\ results = None /\ lastResult = None
      /\ editing = Closed /\ fields = Closed /\ lost = 0 /\ overlapped = FALSE
  BY DEF InterfaceInit
<1>2. MaxSessions \in Nat /\ MaxRules \in Nat /\ 1 <= MaxRules
  BY InterfaceAssumption
<1>3. /\ Unstarted \in Operation /\ Unstarted.at = "unused" /\ Unstarted.ok = FALSE
      /\ Unstarted.session = Unstarted.of
  BY DEF Unstarted, Operation
<1>4. /\ op \in [Ops -> Operation] /\ Under = {}
      /\ \A o \in Ops : op[o].at = "unused" /\ op[o].ok = FALSE /\ op[o].session = op[o].of
      /\ \A o \in Ops : \A request : ~Answered(o, request)
  BY <1>1, <1>3 DEF Under, Answered
<1>5. /\ created \in 0 .. MaxSessions /\ added \in 0 .. MaxRules
      /\ active \subseteq 1 .. created
      /\ sessions \in Seq(Sessions) /\ \A i \in 1 .. Len(sessions) : sessions[i] <= created
      /\ IsInjective(sessions)
      /\ rulesOf \in [Sessions -> SUBSET Rules]
      /\ \A s \in Sessions : \A r \in rulesOf[s] : IsOf(r, s, rulesOf, added, chosen)
      /\ \A s \in Sessions : s > created => rulesOf[s] = {}
      /\ chosen \subseteq Rules
  <2>1. CASE FreshTab
    <3>1. /\ active = {} /\ created = 0 /\ rulesOf = [s \in Sessions |-> {}] /\ added = 0
          /\ chosen = {} /\ sessions = <<>>
      BY <2>1 DEF FreshTab
    <3>2. IsInjective(<<>>)
      BY DEF IsInjective
    <3>3. Len(sessions) = 0 /\ 1 .. Len(sessions) = {}
      BY <3>1
    <3> QED BY <1>2, <3>1, <3>2, <3>3
  <2>2. CASE SettledTab
    <3>8. PICK shared \in BOOLEAN :
            /\ rulesOf = [s \in Sessions |-> IF s = 1 \/ shared THEN {1} ELSE {}]
            /\ chosen = IF shared THEN {1} ELSE {}
      BY <2>2 DEF SettledTab
    <3>1. /\ active = 1 .. created /\ created = MaxSessions /\ added = 1
          /\ sessions = SetToSeq(Sessions)
      BY <2>2 DEF SettledTab, Sessions
    <3>9. 1 \in Rules
      BY <1>2 DEF Rules
    <3>2. sessions \in Seq(Sessions) /\ IsInjective(sessions)
      <4>1. MaxSessions \in Int /\ 1 \in Int
        BY <1>2
      <4>2. IsFiniteSet(Sessions)
        BY <4>1, FS_Interval DEF Sessions
      <4> QED BY <3>1, <4>2, SetToSeqListsThem
    <3>3. \A i \in 1 .. Len(sessions) : sessions[i] <= created
      <4>1. \A s \in Sessions : s <= created
        BY <1>2, <3>1 DEF Sessions
      <4> QED BY <3>2, <4>1, ElementOfSeq
    <3>4. rulesOf \in [Sessions -> SUBSET Rules]
      BY <3>8, <3>9
    <3>5. \A s \in Sessions : \A r \in rulesOf[s] : r = 1 /\ (s = 1 \/ 1 \in chosen)
      BY <3>8
    <3>6. \A s \in Sessions : \A r \in rulesOf[s] : IsOf(r, s, rulesOf, added, chosen)
      BY <3>1, <3>5 DEF IsOf
    <3>7. \A s \in Sessions : ~(s > created)
      BY <1>2, <3>1 DEF Sessions
    <3> QED BY <1>2, <3>1, <3>2, <3>3, <3>4, <3>6, <3>7, <3>8, <3>9
  <2> QED BY <2>1, <2>2 DEF InterfaceInit
<1>6. ViewTypes
  <2>1. /\ rules \in [of : Sessions \cup {None}, ids : SUBSET Rules]
        /\ editing \in Editors /\ fields \in Editors
    BY <1>1 DEF Closed, Editors
  <2>2. /\ connecting \in BOOLEAN /\ busy \in BOOLEAN /\ overlapped \in BOOLEAN /\ lost \in Nat
        /\ current \in Sessions \cup {None} /\ results \in Sessions \cup {None}
        /\ lastResult \in Sessions \cup {None}
    BY <1>1
  <2>3. op \in [Ops -> Operation] /\ chosen \subseteq Rules
    BY <1>4, <1>5
  <2> QED BY <1>5, <2>1, <2>2, <2>3 DEF ViewTypes
<1>7. OperationsAreSound /\ RepliesAreSound /\ ChangesMeetTheirRule
  BY <1>4 DEF OperationsAreSound, RepliesAreSound, ChangesMeetTheirRule
<1>8. RulesHaveSessions /\ EditorIsSound
  BY <1>1, <1>4, <1>5 DEF RulesHaveSessions, EditorIsSound, Closed
<1>9. Alone
  BY <1>1, <1>4, <1>5
     DEF Alone, OneIsUnder, UnderIsOfTheSession, CreatedIsNew, RulesArrive
<1> QED BY <1>6, <1>7, <1>8, <1>9 DEF ViewInv

\* All steps together.
LEMMA NextKeepsView == ViewInv /\ [Next]_vars => ViewInv'
<1> SUFFICES ASSUME ViewInv, [Next]_vars PROVE ViewInv'
  OBVIOUS
<1>1. lost \in Nat
  BY DEF ViewInv, ViewTypes
<1>2. ASSUME NEW o \in Ops, UserStarts(o) PROVE ViewInv'
  BY <1>2, UserKeepsView
<1>3. ASSUME NEW o \in Ops, Serve(o) PROVE ViewInv'
  BY <1>3, ServeKeepsView
<1>4. ASSUME NEW o \in Ops,
             TellStatus(o) \/ BridgeConnects(o) \/ BridgeDisconnects(o) \/ Fails(o) \/ ReplyLost(o)
      PROVE  ViewInv'
  BY <1>4, BridgeKeepsView
<1>5. ASSUME NEW o \in Ops, Resume(o) PROVE ViewInv'
  BY <1>5, ResumeKeepsView
<1>6. CASE Deselect
  BY <1>6, DeselectKeepsView
<1>7. CASE LinkLost
  BY <1>1, <1>7, SilenceKeepsView DEF LinkLost
<1>8. CASE AddOrCancel \/ \E rule \in Rules : Edit(rule)
  BY <1>8, EditKeepsView
<1>9. CASE UNCHANGED <<serverVars, op, viewVars, historyVars>>
  BY <1>1, <1>9, SilenceKeepsView DEF serverVars, historyVars
<1>10. CASE UNCHANGED vars
  BY <1>1, <1>10, SilenceKeepsView DEF vars, serverVars, historyVars
<1> QED BY <1>2, <1>3, <1>4, <1>5, <1>6, <1>7, <1>8, <1>9, <1>10 DEF Next, UserStarts

\* The invariant of the view holds throughout.
LEMMA ViewIsKept == Spec => []ViewInv
<1>1. ViewInv /\ [Next]_vars => ViewInv'
  BY NextKeepsView
<1> QED BY ViewInitially, <1>1, PTL DEF Spec

\* Every variable has its type: TypeOK.
LEMMA TypesAreRight ==
  ASSUME StreamInv, ViewInv
  PROVE  TypeOK
<1>1. StreamTypes /\ ViewTypes /\ OperationsAreSound /\ RulesHaveSessions
  BY DEF StreamInv, ViewInv
<1>2. ASSUME NEW kind \in DOMAIN Program PROVE DOMAIN Program[kind] = 1 .. Len(Program[kind])
  <2>1. \E a, b : Program[kind] = <<a>> \/ Program[kind] = <<a, b>>
    BY DEF Program
  <2>2. \A a, b : DOMAIN <<a>> = 1 .. Len(<<a>>) /\ DOMAIN <<a, b>> = 1 .. Len(<<a, b>>)
    OBVIOUS
  <2> QED BY <2>1, <2>2
<1>3. ASSUME NEW o \in Ops
      PROVE  /\ op[o].kind \in DOMAIN Program \cup {"none"}
             /\ op[o].at \in {"unused", "sent", "replied", "over"}
             /\ op[o].at # "unused" => op[o].step \in DOMAIN Program[op[o].kind]
  <2>1. op[o].kind \in DOMAIN Program \cup {"none"}
        /\ op[o].at \in {"unused", "sent", "replied", "over"}
    BY ViewFacts
  <2> QED BY <1>1, <1>2, <2>1 DEF OperationsAreSound
<1>4. /\ active \subseteq Sessions /\ created \in 0 .. MaxSessions /\ added \in 0 .. MaxRules
      /\ rulesOf \in [Sessions -> SUBSET Rules]
  <2>1. active \subseteq 1 .. created /\ 1 .. created \subseteq Sessions
    BY <1>1, ViewFacts DEF ViewTypes
  <2> QED BY <1>1, <2>1 DEF ViewTypes, RulesHaveSessions
<1>5. ToSet(sessions) \subseteq Sessions
  <2>1. sessions \in Seq(Sessions)
    BY <1>1 DEF ViewTypes
  <2>2. /\ DOMAIN sessions = 1 .. Len(sessions)
        /\ \A i \in 1 .. Len(sessions) : sessions[i] \in Sessions
    BY <2>1, ElementOfSeq
  <2> QED BY <2>2 DEF ToSet
<1>6. /\ {current, results, lastResult, rules.of, editing.of, fields.of}
            \subseteq Sessions \cup {None}
      /\ {editing.rule, fields.rule} \subseteq Rules \cup {None}
      /\ {editing.open, fields.open} \subseteq BOOLEAN
      /\ rules.ids \subseteq Rules /\ chosen \subseteq Rules
  BY <1>1 DEF ViewTypes, Editors
<1>7. {hubOpen, keepAlive, source, status, cleared, up, connecting, busy, overlapped,
       uninformed} \subseteq BOOLEAN
  BY <1>1 DEF ViewTypes, StreamTypes
<1>8. /\ recent \in Seq(1 .. MaxEvents) /\ timeline \in Seq(1 .. MaxEvents)
      /\ Len(recent) <= ReplayLimit /\ Len(timeline) <= TimelineLimit
      /\ subscribers \subseteq Streams
      /\ stream \in [Streams -> {"unused", "live", "ended", "broken", "over", "refused"}]
  BY <1>1 DEF StreamTypes, Places
<1> QED BY <1>3, <1>4, <1>5, <1>6, <1>7, <1>8 DEF TypeOK

\* "Replay is what makes a page reload harmless" (events.ts:69): what a tab
\* shows once it has read its stream contains every recent event, in order and
\* once for each stream, and the keep-alive runs while there is a stream.
THEOREM StreamStaysSound == Spec => []StreamIsSound
<1>1. ASSUME StreamInv PROVE RecentIsShown
  <2> SUFFICES ASSUME ~cleared, TimelineLimit >= ReplayLimit, NEW k \in At("live"),
                      channel[k] = <<>>
               PROVE  ToSet(recent) \subseteq ToSet(timeline)
    BY DEF RecentIsShown
  <2>1. RecentArrives /\ StreamTypes
    BY <1>1 DEF StreamInv
  <2>2. PICK h \in 0 .. count : ReadUpTo(k, h) /\ ShownUpTo(h)
    BY <2>1 DEF RecentArrives
  <2>3. count \in Nat /\ Len(recent) \in Nat /\ Len(timeline) \in Nat
    BY <2>1, StreamFacts
  <2>4. h = count
    <3>1. On(k) = {}
      BY DEF On
    <3>2. \A n \in h + 1 .. count : FALSE
      BY <2>2, <3>1 DEF ReadUpTo
    <3>3. h < count => h + 1 \in h + 1 .. count
      BY <2>3
    <3> QED BY <2>3, <3>2, <3>3
  <2>5. ASSUME NEW i \in 1 .. Len(recent)
        PROVE  \E j \in 1 .. Len(timeline) : timeline[j] = recent[i]
    <3>1. recent[i] = count - Len(recent) + i
      BY <2>1 DEF RecentArrives
    <3>2. PICK n \in Int : n = count - Len(recent) + i
      BY <2>3
    <3>3. n \in count - Len(recent) + 1 .. count /\ count - n \in Nat
      BY <2>3, <3>2
    <3>4. Len(timeline) > count - n /\ timeline[Len(timeline) - (count - n)] = n
      BY <2>2, <2>4, <3>3 DEF ShownUpTo
    <3>5. Len(timeline) - (count - n) \in 1 .. Len(timeline)
      BY <2>3, <3>3, <3>4
    <3> QED BY <3>1, <3>2, <3>4, <3>5
  <2>6. /\ ToSet(recent) = {recent[i] : i \in 1 .. Len(recent)}
        /\ ToSet(timeline) = {timeline[i] : i \in 1 .. Len(timeline)}
    <3>1. DOMAIN recent = 1 .. Len(recent) /\ DOMAIN timeline = 1 .. Len(timeline)
      BY <2>1, LenProperties DEF StreamTypes
    <3> QED BY <3>1 DEF ToSet
  <2> QED BY <2>5, <2>6
<1>2. ASSUME StreamInv PROVE ShownInOrder
  <2>1. StartsOver(timeline) = {i \in 1 .. Len(timeline) - 1 : timeline[i] >= timeline[i + 1]}
    BY DEF StartsOver
  <2> QED BY <1>2, <2>1 DEF StreamInv, OrderArrives, ShownInOrder
<1>3. ASSUME StreamInv PROVE KeepAliveWhileWatched
  BY <1>3 DEF StreamInv, StreamsAreSound, KeepAliveWhileWatched
<1>4. StreamInv /\ ViewInv => StreamIsSound
  BY <1>1, <1>2, <1>3, TypesAreRight DEF StreamIsSound
<1> QED BY <1>4, StreamIsKept, ViewIsKept, PTL

\* What is shown of the selected session is of that session and is what it has,
\* no session is shown twice, and a change sent from what was left of another
\* session meets no rule whose identifier the server made up: as ViewIsTrue says.
THEOREM ViewStaysTrue == Spec => []ViewIsTrue
<1>1. ViewInv => ViewIsTrue
  <2> SUFFICES ASSUME ViewInv PROVE ViewIsTrue
    OBVIOUS
  <2>1. Alone /\ ChangesMeetTheirRule
    BY DEF ViewInv
  <2>2. ShownIsOfTheSession /\ NoSessionTwice
    BY <2>1 DEF Alone, ShownIsOfTheSession, NoSessionTwice
  <2>3. IdleShowsTheRules
    BY <2>1 DEF Alone, RulesArrive, IdleShowsTheRules
  <2> QED BY <2>1, <2>2, <2>3 DEF ViewIsTrue
<1> QED BY ViewIsKept, <1>1, PTL
=============================================================================
