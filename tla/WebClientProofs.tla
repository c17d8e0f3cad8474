-------------------------- MODULE WebClientProofs ---------------------------
(***************************************************************************)
(* The page and the messages on their way to it, for every set of stations,*)
(* ASDUs and commands, every limit and every bound.                        *)
(*                                                                         *)
(* PageInv gives the types and what messages and points stand for; Order,  *)
(* that reports of an address travel in the order of their ASDUs; LatestInv,*)
(* where the last report of each address is.                               *)
(***************************************************************************)
EXTENDS WebClientLemmas

(* Minutes of the hour that are less than half an hour apart tell how many *)
(* minutes apart the events are.                                           *)
LEMMA MinutesApart ==
    ASSUME NEW a \in Nat, NEW b \in Nat, a <= b, b - a <= 29
    PROVE  Wraparound((a % 60) - (b % 60)) = a - b
<1> DEFINE d == (a % 60) - (b % 60)
<1>1. d = a - b \/ d = a - b + 60
  OBVIOUS
<1>2. d \in Int /\ a - b \in -29..0
  OBVIOUS
<1>3. CASE d = a - b
  BY <1>2, <1>3 DEF Wraparound
<1>4. CASE d = a - b + 60
  BY <1>2, <1>4 DEF Wraparound
<1> QED BY <1>1, <1>3, <1>4

(* Dividing by a minute, and the milliseconds of a second.                 *)
LEMMA MinuteDivides ==
    ASSUME NEW n \in Nat
    PROVE  /\ n \div 60000 \in Nat
           /\ (n \div 60000) * 60000 <= n
           /\ n < (n \div 60000) * 60000 + 60000
<1>1. n \div 60000 \in Nat
  OBVIOUS
<1>2. (n \div 60000) * 60000 <= n
  OBVIOUS
<1>3. n = 60000 * (n \div 60000) + (n % 60000)
  OBVIOUS
<1>4. n % 60000 < 60000 /\ n % 60000 \in Nat
  OBVIOUS
<1>5. n < (n \div 60000) * 60000 + 60000
  BY <1>1, <1>3, <1>4
<1> QED BY <1>1, <1>2, <1>5

(* The milliseconds are at most what is past the minute.                   *)
LEMMA SecondDivides ==
    ASSUME NEW n \in Nat
    PROVE  /\ n % 1000 \in Nat /\ n % 1000 < 1000
           /\ n % 1000 <= n - (n \div 60000) * 60000
<1>1. n = 1000 * (n \div 1000) + (n % 1000) /\ n % 1000 \in 0..999 /\ n \div 1000 \in Nat
  OBVIOUS
<1> DEFINE a == n \div 60000
           q == n \div 1000
           ms == n % 1000
<1>2. a \in Nat /\ a * 60000 <= n
  BY MinuteDivides
<1> HIDE DEF a, q, ms
<1>3. n = 1000 * q + ms /\ ms \in 0..999 /\ q \in Nat
  BY <1>1 DEF q, ms
<1>4. a * 60 <= q
  BY <1>2, <1>3
<1>5. ms <= n - a * 60000
  BY <1>2, <1>3, <1>4
<1> QED BY <1>3, <1>5 DEF a, ms

(* The time computed from a tag is less than a minute off.                 *)
LEMMA TagTime ==
    ASSUME NEW event \in Nat, NEW now \in Nat, event <= now,
           now - event <= 29 * Minute
    PROVE  LET off == CP24Time(MinuteOf(event), event % 1000, now) - event IN
           -Minute < off /\ off < Minute
<1> DEFINE a == event \div 60000
           b == now \div 60000
           ms == event % 1000
           off == CP24Time(MinuteOf(event), ms, now) - event
<1>1. /\ a \in Nat /\ a * 60000 <= event /\ event < a * 60000 + 60000
      /\ b \in Nat /\ b * 60000 <= now /\ now < b * 60000 + 60000
  BY MinuteDivides
<1>2. ms \in Nat /\ ms <= event - a * 60000
  BY SecondDivides
<1>3. Minute = 60000 /\ MinuteOf(event) = a % 60 /\ MinuteOf(now) = b % 60
  BY DEF MinuteOf, Minute
<1> HIDE DEF a, b, ms
<1>4. a <= b /\ b - a <= 29
  BY <1>1, <1>3
<1>5. Wraparound(MinuteOf(event) - MinuteOf(now)) = a - b
  <2>1. Wraparound((a % 60) - (b % 60)) = a - b
    BY <1>1, <1>4, MinutesApart
  <2> QED BY <1>3, <2>1
<1>6. CP24Time(MinuteOf(event), ms, now) = now + ((a - b) * 60000) + ms
  BY <1>3, <1>5 DEF CP24Time
<1>7. -60000 < off /\ off < 60000
  <2> DEFINE t == CP24Time(MinuteOf(event), ms, now)
  <2> HIDE DEF t
  <2>1. t = now + ((a - b) * 60000) + ms
    BY <1>6 DEF t
  <2>2. -60000 < t - event /\ t - event < 60000
    BY <1>1, <1>2, <1>4, <2>1
  <2> QED BY <2>2 DEF t
<1> HIDE DEF off
<1> QED BY <1>3, <1>7 DEF off, ms
-----------------------------------------------------------------------------
(* What inHand holds: an ASDU parsed at a time not before its events, and  *)
(* for each point of a type with a CP24 tag the time computed from that    *)
(* tag of the object of the same number.                                   *)
Tagged(h) ==
    /\ h.now \in Nat
    /\ \A k \in DOMAIN h.points : h.asdu.type \in WithCP24 =>
          LET event == h.asdu.objects[k].event IN
          /\ event \in Nat /\ event <= h.now
          /\ h.points[k].timestamp = CP24Time(MinuteOf(event), event % 1000, h.now)
InHandInv ==
    /\ owed \in [Stations -> Seq(Answers)]
    /\ inHand = [s \in Stations |-> inHand[s]]
    /\ \A s \in Stations : inHand[s] # NoAsdu => Tagged(inHand[s])

(* The families with a CP24 tag give one point per object, in order.       *)
LEMMA DecodeTags ==
    ASSUME NEW a, NEW now, a.type \in WithCP24, NEW k \in DOMAIN Decode(a, now)
    PROVE  /\ k \in DOMAIN a.objects
           /\ Decode(a, now)[k].timestamp
                = CP24Time(MinuteOf(a.objects[k].event), a.objects[k].event % 1000, now)
<1> DEFINE time == CP24Time(MinuteOf(a.objects[k].event), a.objects[k].event % 1000, now)
<1>1. ASSUME NEW kind, NEW value, NEW quality, NEW j
      PROVE  Point(a, k, kind, value, quality, now).timestamp = time
  BY DEF Point, TimeOf
<1>2. \E kind : \/ Decode(a, now) = WithQuality(a, kind, now)
                \/ Decode(a, now) = QualityGood(a, kind, now)
  BY DEF Decode, WithCP24, SinglePoint, DoublePoint, StepPosition, Bitstring,
         Normalized, NoQuality, Scaled, ShortFloat, Counter, SingleEvent,
         PackedEvents, PackedPoints, DecodeSinglePoint, DecodeDoublePoint,
         DecodeStepPosition, DecodeBitstring, DecodeNormalized, DecodeScaled,
         DecodeShortFloat, DecodeCounter
<1> QED BY <1>1, <1>2 DEF WithQuality, QualityGood

(* Parsing an ASDU keeps the invariant.                                    *)
LEMMA ParseTags ==
    ASSUME NEW s \in Stations, NEW a, NEW now \in Nat, InHandInv, Parse(s, a, now),
           owed' \in [Stations -> Seq(Answers)],
           IsControlResponse(a) \/ \A k \in DOMAIN a.objects :
                a.objects[k].event \in Nat /\ a.objects[k].event <= now
    PROVE  InHandInv'
<1> DEFINE points == IF IsControlResponse(a) THEN <<>> ELSE Decode(a, now)
           h == [asdu |-> a, now |-> now, points |-> points]
<1>1. inHand' = [inHand EXCEPT ![s] = h]
  BY DEF Parse
<1>2. Tagged(h)
  <2>1. CASE IsControlResponse(a)
    BY <2>1 DEF Tagged
  <2>2. CASE ~IsControlResponse(a)
    BY <2>2, DecodeTags DEF Tagged
  <2> QED BY <2>1, <2>2
<1> HIDE DEF h
<1> QED BY <1>1, <1>2 DEF InHandInv

(* So does every step.                                                     *)
LEMMA NextTags == ASSUME PipelineAssumption, InHandInv, [Next]_vars PROVE InHandInv'
<1>1. ASSUME NEW s \in Stations, NEW now \in Times, NEW a \in Asdus, Receive(s, a, now)
      PROVE  InHandInv'
  <2>1. owed' \in [Stations -> Seq(Answers)]
    BY <1>1 DEF Receive, InHandInv
  <2> QED BY <1>1, <2>1, ParseTags DEF Receive, PipelineAssumption
<1>2. ASSUME NEW s \in Stations, NEW now \in Times, ReceiveAnswer(s, now)
      PROVE  InHandInv'
  <2> DEFINE a == Head(owed[s])
  <2>1. Parse(s, a, now) /\ owed[s] # <<>> /\ owed' = [owed EXCEPT ![s] = Tail(@)]
    BY <1>2 DEF ReceiveAnswer
  <2>2. owed[s] \in Seq(Answers)
    BY DEF InHandInv
  <2>3. a \in Answers /\ Tail(owed[s]) \in Seq(Answers)
    BY <2>1, <2>2
  <2>4. owed' \in [Stations -> Seq(Answers)]
    BY <2>1, <2>3 DEF InHandInv
  <2>5. \A k \in DOMAIN a.objects : a.objects[k].event = 0
    BY <2>3 DEF Answers, Answer
  <2> HIDE DEF a
  <2> QED BY <2>1, <2>4, <2>5, ParseTags DEF PipelineAssumption
<1>3. ASSUME NEW s \in Stations, NEW c \in Commands, Command(s, c) PROVE InHandInv'
  <2> DEFINE yes == Answer(c, "con", FALSE)
             done == Answer(c, "term", FALSE)
             no == Answer(c, "con", TRUE)
  <2>1. \A cot \in {"con", "term"}, negative \in BOOLEAN : Answer(c, cot, negative) \in Answers
    BY DEF Answers
  <2>2. yes \in Answers /\ done \in Answers /\ no \in Answers
    BY <2>1
  <2>3. \/ owed' = [owed EXCEPT ![s] = @ \o <<yes, done>>]
        \/ owed' = [owed EXCEPT ![s] = Append(@, no)]
    BY <1>3 DEF Command
  <2> HIDE DEF yes, done, no
  <2>4. owed[s] \o <<yes, done>> \in Seq(Answers) /\ Append(owed[s], no) \in Seq(Answers)
    BY <2>2 DEF InHandInv
  <2>5. owed' \in [Stations -> Seq(Answers)]
    BY <2>3, <2>4 DEF InHandInv
  <2> QED BY <1>3, <2>5 DEF Command, InHandInv
<1>4. ASSUME UNCHANGED <<inHand, owed>> PROVE InHandInv'
  BY <1>4 DEF InHandInv, Tagged
<1> QED BY <1>1, <1>2, <1>3, <1>4 DEF Next, vars, StationSends, BroadcastNext, Broadcast,
      SendCommand, OnMessage, AnimationFrame, Drop, Reconnect, pipeVars

(* The wrap-around of extractCP24Timestamp picks the right hour for every  *)
(* event not older than 29 minutes.                                        *)
THEOREM TagsAreRight == Spec => []TagTimeClose
<1>1. Init => InHandInv
  BY DEF Init, PipeInit, InHandInv
<1>2. InHandInv /\ [Next]_vars => InHandInv'
  BY NextTags, PipelineAssumption
<1>3. InHandInv => TagTimeClose
  BY TagTime DEF InHandInv, Tagged, TagTimeClose
<1> QED BY <1>1, <1>2, <1>3, PTL DEF Spec
-----------------------------------------------------------------------------
(* Elements and keys of what the queues become.                            *)
LEMMA RangeOfTail ==
  ASSUME NEW q, IsSeq(q), q # <<>>
  PROVE  Range(q) = {Head(q)} \cup Range(Tail(q))
<1>1. /\ IsSeq(Tail(q)) /\ Len(Tail(q)) = Len(q) - 1 /\ Len(q) \in Nat /\ Len(q) > 0
      /\ Head(q) = q[1]
      /\ \A k \in 1..(Len(q) - 1) : Tail(q)[k] = q[k + 1]
  BY TailParts
<1> DEFINE n == Len(q)
           t == Tail(q)
<1>2. DOMAIN q = 1..n /\ DOMAIN t = 1..(n - 1)
  BY <1>1, SeqParts
<1> HIDE DEF n, t
<1>3. /\ n \in Nat /\ n > 0 /\ Head(q) = q[1] /\ \A k \in 1..(n - 1) : t[k] = q[k + 1]
  BY <1>1 DEF n, t
<1>4. ASSUME NEW k \in 1..n PROVE q[k] \in {Head(q)} \cup Range(t)
  <2>1. CASE k = 1
    BY <1>3, <2>1
  <2>2. CASE k # 1
    <3>1. k - 1 \in 1..(n - 1) /\ (k - 1) + 1 = k
      BY <1>3, <2>2
    <3>2. t[k - 1] = q[k]
      BY <1>3, <3>1
    <3> QED BY <1>2, <3>1, <3>2 DEF Range
  <2> QED BY <2>1, <2>2
<1>5. ASSUME NEW k \in 1..(n - 1) PROVE t[k] \in Range(q)
  <2>1. k + 1 \in 1..n
    BY <1>3
  <2> QED BY <1>2, <1>3, <2>1 DEF Range
<1>6. Head(q) \in Range(q)
  BY <1>2, <1>3 DEF Range
<1> QED BY <1>2, <1>4, <1>5, <1>6 DEF t, Range

(* One more element.                                                       *)
LEMMA RangeOfAppend ==
  ASSUME NEW q, IsSeq(q), NEW m
  PROVE  Range(Append(q, m)) = Range(q) \cup {m}
<1> DEFINE n == Len(q)
           t == Append(q, m)
<1>1. /\ IsSeq(t) /\ Len(t) = n + 1 /\ n \in Nat /\ t[n + 1] = m
      /\ \A k \in 1..n : t[k] = q[k]
  BY AppendParts
<1> HIDE DEF t
<1>2. DOMAIN q = 1..n /\ DOMAIN t = 1..(n + 1)
  BY <1>1, SeqParts
<1> HIDE DEF n
<1>3. \A k \in 1..(n + 1) : k \in 1..n \/ k = n + 1
  BY <1>1
<1>4. \A k \in 1..n : k \in 1..(n + 1)
  BY <1>1
<1>5. n + 1 \in 1..(n + 1)
  BY <1>1
<1> QED BY <1>1, <1>2, <1>3, <1>4, <1>5 DEF t, Range

(* The keys of a sequence by its elements.                                 *)
LEMMA KeysOfRange ==
  ASSUME NEW q, NEW key
  PROVE  key \in Keys(q) <=> \E m \in Range(q) : Concerns(m, key)
  BY KeysIn DEF Range

(* The empty sequence.                                                     *)
LEMMA Nothing == IsSeq(<<>>) /\ Range(<<>>) = {} /\ Keys(<<>>) = {} /\ Len(<<>>) = 0
<1>1. IsSeq(<<>>) /\ DOMAIN <<>> = {} /\ Range(<<>>) = {}
  BY DEF IsSeq, Range
<1> QED BY <1>1, KeysOfRange, SeqParts
-----------------------------------------------------------------------------
(* What travels: messages of the stations about addresses they reported,   *)
(* each with the number of an ASDU that was received.                      *)
Sent(m) ==
    /\ m.station \in Stations
    /\ \/ m.type = "packet"
       \/ m.type = "control_result" /\ ResultOf(m) \in answers
       \/ /\ Wellformed(m) /\ Key(m) \in DOMAIN truth
          /\ m.asdu \in Nat /\ m.asdu <= received[m.station]
Wires ==
    /\ todo = [s \in Stations |-> todo[s]] /\ received \in [Stations -> Nat]
    /\ DOMAIN truth \subseteq Stations \X Addresses
    /\ \A s \in Stations :
          IsSeq(todo[s]) /\ \A m \in Range(todo[s]) : Sent(m) /\ m.station = s
    /\ IsSeq(transit) /\ \A m \in Range(transit) : Sent(m)
    /\ IsSeq(pendingUpdates)
    /\ \A m \in Range(pendingUpdates) : Sent(m) /\ IsPointUpdate(m)

(* What the page holds.                                                    *)
Stored(p) ==
    /\ p.key \in DOMAIN truth /\ p.second \in Nat
    /\ p.asdu \in Nat /\ p.asdu <= received[p.key[1]]
Points ==
    /\ IsSeq(pointsMap) /\ Distinct(pointsMap)
    /\ Len(pointsMap) <= POINTS_CLEANUP_THRESHOLD
    /\ \A p \in Range(pointsMap) : Stored(p)
Rest ==
    /\ online \in BOOLEAN /\ updateScheduled \in BOOLEAN /\ updateRafId \in BOOLEAN
    /\ IsSeq(commPackets) /\ Len(commPackets) <= MaxPackets
    /\ clock \in 0..MaxSeconds /\ drops \in 0..MaxDrops
    /\ notices \subseteq answers
    /\ missed \cup evicted \subseteq DOMAIN truth
PageInv == InHandInv /\ Wires /\ Points /\ Rest

(* Nothing is taken back.                                                  *)
Grows ==
    /\ DOMAIN truth \subseteq DOMAIN truth' /\ answers \subseteq answers'
    /\ received \in [Stations -> Nat] /\ received' \in [Stations -> Nat]
    /\ DOMAIN truth \subseteq Stations \X Addresses
    /\ \A s \in Stations : received[s] <= received'[s]

(* What was sent stays true of a message,                                  *)
LEMMA SentStays == ASSUME NEW m, Sent(m), Grows PROVE Sent(m)'
<1>1. received[m.station] \in Nat /\ received'[m.station] \in Nat
      /\ received[m.station] <= received'[m.station]
  BY DEF Grows, Sent
<1> QED BY <1>1 DEF Grows, Sent

(* and of a point,                                                         *)
LEMMA StoredStays == ASSUME NEW p, Stored(p), Grows PROVE Stored(p)'
<1>1. p.key[1] \in Stations
  BY DEF Grows, Stored
<1>2. received[p.key[1]] \in Nat /\ received'[p.key[1]] \in Nat
      /\ received[p.key[1]] <= received'[p.key[1]]
  BY <1>1 DEF Grows
<1> QED BY <1>2 DEF Grows, Stored

(* if no report is taken back; none is if none is made.                    *)
LEMMA Unheard ==
  ASSUME Wires, UNCHANGED <<received, truth, answers>> PROVE Grows
  BY DEF Wires, Grows

(* An ASDU is parsed.                                                      *)
LEMMA ParsePage ==
  ASSUME PageInv, NEW s \in Stations, NEW a, Source(a), NEW now, Parse(s, a, now),
         UNCHANGED clientVars
  PROVE  Grows /\ Wires' /\ Points' /\ Rest'
<1>1. PICK q, n :
         /\ n = received[s] + 1 /\ received' = [received EXCEPT ![s] = n]
         /\ todo[s] = <<>> /\ todo' = [todo EXCEPT ![s] = q] /\ IsSeq(q)
         /\ answers \subseteq answers' /\ DOMAIN truth \subseteq DOMAIN truth'
         /\ DOMAIN truth' \subseteq DOMAIN truth \cup ({s} \X Addresses)
         /\ \A m \in Range(q) :
              /\ m.station = s
              /\ \/ m.type = "packet"
                 \/ m.type = "control_result" /\ ResultOf(m) \in answers'
                 \/ Wellformed(m) /\ Key(m) \in DOMAIN truth' /\ m.asdu = n
  BY ParseParts DEF PageInv, Wires
<1>2. received[s] \in Nat /\ n \in Nat
  BY <1>1 DEF PageInv, Wires
<1>3. Grows
  BY <1>1, <1>2 DEF Grows, PageInv, Wires
<1>4. received'[s] = n /\ received' \in [Stations -> Nat]
  BY <1>1, <1>2 DEF PageInv, Wires
<1>5. \A m \in Range(q) : Sent(m)' /\ m.station = s
  BY <1>1, <1>2, <1>4 DEF Sent
<1>6. Wires'
  <2>1. todo' = [r \in Stations |-> todo'[r]]
    BY <1>1 DEF PageInv, Wires
  <2>2. DOMAIN truth' \subseteq Stations \X Addresses
    BY <1>1 DEF PageInv, Wires
  <2>3. ASSUME NEW r \in Stations
        PROVE  IsSeq(todo'[r]) /\ \A m \in Range(todo'[r]) : Sent(m)' /\ m.station = r
    <3>1. CASE r = s
      <4>1. todo'[r] = q
        BY <1>1, <3>1 DEF PageInv, Wires
      <4> QED BY <1>1, <1>5, <3>1, <4>1
    <3>2. CASE r # s
      <4>1. todo'[r] = todo[r]
        BY <1>1, <3>2 DEF PageInv, Wires
      <4>2. IsSeq(todo[r]) /\ \A m \in Range(todo[r]) : Sent(m) /\ m.station = r
        BY DEF PageInv, Wires
      <4> QED BY <1>3, <4>1, <4>2, SentStays
    <3> QED BY <3>1, <3>2
  <2>4. transit' = transit /\ pendingUpdates' = pendingUpdates
    BY DEF clientVars
  <2>5. IsSeq(transit) /\ \A m \in Range(transit) : Sent(m)'
    BY <1>3, SentStays DEF PageInv, Wires
  <2>6. IsSeq(pendingUpdates) /\ \A m \in Range(pendingUpdates) : Sent(m)' /\ IsPointUpdate(m)
    BY <1>3, SentStays DEF PageInv, Wires
  <2> QED BY <1>4, <2>1, <2>2, <2>3, <2>4, <2>5, <2>6 DEF Wires
<1>7. Points'
  <2>1. pointsMap' = pointsMap
    BY DEF clientVars
  <2>2. \A p \in Range(pointsMap) : Stored(p)'
    BY <1>3, StoredStays DEF PageInv, Points
  <2> QED BY <2>1, <2>2 DEF PageInv, Points
<1>8. Rest'
  BY <1>1 DEF PageInv, Rest, clientVars
<1> QED BY <1>3, <1>6, <1>7, <1>8
-----------------------------------------------------------------------------
(* The other steps.                                                        *)
LEMMA SendPage ==
  ASSUME PageInv, UNCHANGED <<received, truth, answers, pendingUpdates>>,
         NEW m, Sent(m), Send(m)
  PROVE  /\ IsSeq(transit') /\ \A x \in Range(transit') : Sent(x)
         /\ missed' \subseteq DOMAIN truth
<1>1. IsSeq(transit) /\ \A x \in Range(transit) : Sent(x)
  BY DEF PageInv, Wires
<1>2. missed \subseteq DOMAIN truth
  BY DEF PageInv, Rest
<1>3. IsSeq(Append(transit, m)) /\ Range(Append(transit, m)) = Range(transit) \cup {m}
  BY <1>1, AppendParts, RangeOfAppend
<1>4. Keys(<<m>>) \subseteq DOMAIN truth
  <2>1. ASSUME NEW key \in Keys(<<m>>) PROVE key \in DOMAIN truth
    <3>1. Concerns(m, key)
      <4>1. Range(<<m>>) = {m}
        BY SingleMessage DEF Range
      <4> QED BY <2>1, <4>1, KeysOfRange
    <3> QED BY <3>1 DEF Concerns, Tells, Sent
  <2> QED BY <2>1
<1> QED BY <1>1, <1>2, <1>3, <1>4 DEF Send

(* The thread of a station makes its next broadcast.                       *)
LEMMA BroadcastPage ==
  ASSUME PageInv, NEW s \in Stations, BroadcastNext(s)
  PROVE  Grows /\ Wires' /\ Points' /\ Rest'
<1>1. /\ todo[s] # <<>> /\ todo' = [todo EXCEPT ![s] = Tail(@)] /\ Send(Head(todo[s]))
      /\ UNCHANGED <<received, truth, answers, online, pendingUpdates, updateScheduled,
                     updateRafId, pointsMap, commPackets, notices, clock, drops, evicted>>
  BY DEF BroadcastNext, Broadcast
<1>2. Grows
  BY <1>1, Unheard DEF PageInv
<1>3. IsSeq(todo[s]) /\ \A m \in Range(todo[s]) : Sent(m) /\ m.station = s
  BY DEF PageInv, Wires
<1>4. /\ IsSeq(Tail(todo[s]))
      /\ Range(todo[s]) = {Head(todo[s])} \cup Range(Tail(todo[s]))
  BY <1>1, <1>3, TailParts, RangeOfTail
<1>5. /\ IsSeq(transit') /\ \A x \in Range(transit') : Sent(x)
      /\ missed' \subseteq DOMAIN truth
  BY <1>1, <1>3, <1>4, SendPage
<1>6. Wires'
  <2>1. todo' = [r \in Stations |-> IF r = s THEN Tail(todo[s]) ELSE todo[r]]
    BY <1>1 DEF PageInv, Wires
  <2>2. \A m : Sent(m) => Sent(m)'
    BY <1>2, SentStays
  <2>3. \A r \in Stations : IsSeq(todo'[r]) /\ \A m \in Range(todo'[r]) : Sent(m) /\ m.station = r
    BY <1>3, <1>4, <2>1 DEF PageInv, Wires
  <2>4. todo' = [r \in Stations |-> todo'[r]]
    BY <2>1
  <2> QED BY <1>1, <1>5, <2>2, <2>3, <2>4 DEF PageInv, Wires
<1>7. Points'
  BY <1>1, <1>2, StoredStays DEF PageInv, Points
<1>8. Rest'
  BY <1>1, <1>5 DEF PageInv, Rest
<1> QED BY <1>2, <1>6, <1>7, <1>8

(* A command is sent.                                                      *)
LEMMA CommandPage ==
  ASSUME PageInv, NEW s \in Stations, NEW c, SendCommand(s, c)
  PROVE  Grows /\ Wires' /\ Points' /\ Rest'
<1> DEFINE m == PacketCallback(s, TRUE)[1]
<1>1. /\ Send(m)
      /\ UNCHANGED <<todo, received, truth, answers, online, pendingUpdates, updateScheduled,
                     updateRafId, pointsMap, commPackets, notices, clock, drops, evicted>>
  BY DEF SendCommand, Command
<1>2. Sent(m)
  BY DEF PacketCallback, Sent
<1>3. Grows
  BY <1>1, Unheard DEF PageInv
<1> HIDE DEF m
<1>4. /\ IsSeq(transit') /\ \A x \in Range(transit') : Sent(x)
      /\ missed' \subseteq DOMAIN truth
  BY <1>1, <1>2, SendPage
<1>5. \A x : Sent(x) => Sent(x)'
  BY <1>3, SentStays
<1>6. Wires'
  BY <1>1, <1>4, <1>5 DEF PageInv, Wires
<1>7. Points'
  BY <1>1, <1>3, StoredStays DEF PageInv, Points
<1>8. Rest'
  BY <1>1, <1>4 DEF PageInv, Rest
<1> QED BY <1>3, <1>6, <1>7, <1>8

(* Messages are about addresses that were reported.                        *)
LEMMA KeysKnown ==
  ASSUME NEW q, \A m \in Range(q) : Sent(m) PROVE Keys(q) \subseteq DOMAIN truth
<1> SUFFICES ASSUME NEW key \in Keys(q) PROVE key \in DOMAIN truth
  OBVIOUS
<1>1. PICK m \in Range(q) : Concerns(m, key)
  BY KeysOfRange
<1> QED BY <1>1 DEF Concerns, Tells, Sent

(* The connection is lost or made again.                                   *)
LEMMA DropPage ==
  ASSUME PageInv, Drop \/ Reconnect
  PROVE  Grows /\ Wires' /\ Points' /\ Rest'
<1>1. /\ UNCHANGED <<todo, received, truth, answers, pendingUpdates, updateScheduled,
                     updateRafId, pointsMap, commPackets, notices, clock, evicted>>
      /\ transit' \in {transit, <<>>} /\ online' \in BOOLEAN
      /\ missed' \subseteq missed \cup Keys(transit)
      /\ drops' = drops \/ (drops < MaxDrops /\ drops' = drops + 1)
  BY DEF Drop, Reconnect, pipeVars
<1>2. Grows
  BY <1>1, Unheard DEF PageInv
<1>3. \A x : Sent(x) => Sent(x)'
  BY <1>2, SentStays
<1>4. IsSeq(transit') /\ \A x \in Range(transit') : Sent(x)
  BY <1>1, Nothing DEF PageInv, Wires
<1>5. Wires'
  BY <1>1, <1>3, <1>4 DEF PageInv, Wires
<1>6. Points'
  BY <1>1, <1>2, StoredStays DEF PageInv, Points
<1>7. Keys(transit) \subseteq DOMAIN truth
  BY KeysKnown DEF PageInv, Wires
<1>8. drops' \in 0..MaxDrops
  BY <1>1, ClientAssumption DEF PageInv, Rest
<1>9. Rest'
  BY <1>1, <1>7, <1>8 DEF PageInv, Rest
<1> QED BY <1>2, <1>5, <1>6, <1>9

(* The page handles a message.                                             *)
LEMMA MessagePage ==
  ASSUME PageInv, OnMessage
  PROVE  Grows /\ Wires' /\ Points' /\ Rest'
<1> DEFINE m == Head(transit)
<1>1. /\ UNCHANGED <<todo, received, truth, answers, online, pointsMap, clock, drops, evicted>>
      /\ transit # <<>> /\ transit' = Tail(transit)
      /\ missed' = missed \ Keys(<<m>>)
      /\ \/ HandlePoint(m) \/ HandlePacket(m) \/ HandleControlResult(m) \/ HandleMalformed(m)
  BY DEF OnMessage, pipeVars
<1>2. Grows
  BY <1>1, Unheard DEF PageInv
<1>3. IsSeq(transit) /\ \A x \in Range(transit) : Sent(x)
  BY DEF PageInv, Wires
<1>4. IsSeq(Tail(transit)) /\ Range(transit) = {m} \cup Range(Tail(transit))
  BY <1>1, <1>3, TailParts, RangeOfTail
<1> HIDE DEF m
<1>5. Sent(m)
  BY <1>3, <1>4
<1>6. IsSeq(pendingUpdates) /\ \A x \in Range(pendingUpdates) : Sent(x) /\ IsPointUpdate(x)
  BY DEF PageInv, Wires
<1>7. /\ IsSeq(pendingUpdates')
      /\ \A x \in Range(pendingUpdates') : Sent(x) /\ IsPointUpdate(x)
  <2>1. CASE HandlePoint(m)
    <3>1. pendingUpdates' = Append(pendingUpdates, m) /\ IsPointUpdate(m)
      BY <2>1 DEF HandlePoint
    <3>2. /\ IsSeq(Append(pendingUpdates, m))
          /\ Range(Append(pendingUpdates, m)) = Range(pendingUpdates) \cup {m}
      BY <1>6, AppendParts, RangeOfAppend
    <3> QED BY <1>5, <1>6, <3>1, <3>2
  <2>2. CASE ~HandlePoint(m)
    <3>1. pendingUpdates' = pendingUpdates
      BY <1>1, <2>2 DEF HandlePacket, HandleControlResult, HandleMalformed
    <3> QED BY <1>6, <3>1
  <2> QED BY <2>1, <2>2
<1>8. \A x : Sent(x) => Sent(x)'
  BY <1>2, SentStays
<1>9. Wires'
  BY <1>1, <1>3, <1>4, <1>7, <1>8 DEF PageInv, Wires
<1>10. Points'
  BY <1>1, <1>2, StoredStays DEF PageInv, Points
<1>11. IsSeq(commPackets') /\ Len(commPackets') <= MaxPackets
  <2>1. IsSeq(commPackets) /\ Len(commPackets) <= MaxPackets /\ MaxPackets \in Nat
    BY ClientAssumption DEF PageInv, Rest
  <2>2. CASE HandlePacket(m)
    <3> DEFINE packets == Append(commPackets, m)
    <3>1. IsSeq(packets) /\ Len(packets) = Len(commPackets) + 1 /\ Len(commPackets) \in Nat
      BY <2>1, AppendParts
    <3>2. commPackets' = Monitor(packets)
      BY <2>2 DEF HandlePacket
    <3> HIDE DEF packets
    <3>3. packets # <<>>
      BY <3>1, SeqParts
    <3>4. IsSeq(Tail(packets)) /\ Len(Tail(packets)) = Len(packets) - 1
      BY <3>1, <3>3, TailParts
    <3> QED BY <2>1, <3>1, <3>2, <3>4 DEF Monitor
  <2>3. CASE ~HandlePacket(m)
    <3>1. commPackets' = commPackets
      BY <1>1, <2>3 DEF HandlePoint, HandleControlResult, HandleMalformed
    <3> QED BY <2>1, <3>1
  <2> QED BY <2>2, <2>3
<1>12. notices' \subseteq answers
  <2>1. notices \subseteq answers
    BY DEF PageInv, Rest
  <2>2. CASE HandleControlResult(m)
    <3>1. m.type = "control_result" /\ notices' = notices \cup {ResultOf(m)}
      BY <2>2 DEF HandleControlResult, ResultOf
    <3>2. ResultOf(m) \in answers
      BY <1>5, <3>1 DEF Sent, Wellformed, MessageTypes
    <3> QED BY <2>1, <3>1, <3>2
  <2>3. CASE ~HandleControlResult(m)
    <3>1. notices' = notices
      BY <1>1, <2>3 DEF HandlePoint, HandlePacket, HandleMalformed
    <3> QED BY <2>1, <3>1
  <2> QED BY <2>2, <2>3
<1>13. updateScheduled' \in BOOLEAN /\ updateRafId' \in BOOLEAN
  <2>1. updateScheduled \in BOOLEAN /\ updateRafId \in BOOLEAN
    BY DEF PageInv, Rest
  <2>2. CASE HandlePoint(m)
    BY <2>1, <2>2 DEF HandlePoint, scheduleUpdate
  <2>3. CASE ~HandlePoint(m)
    BY <1>1, <2>1, <2>3 DEF HandlePacket, HandleControlResult, HandleMalformed
  <2> QED BY <2>2, <2>3
<1>14. Rest'
  BY <1>1, <1>11, <1>12, <1>13 DEF PageInv, Rest
<1> QED BY <1>2, <1>9, <1>10, <1>14
-----------------------------------------------------------------------------
(* An animation frame.                                                     *)
Updates(second) == ApplyBatch(pointsMap, pendingUpdates, second)

(* AnimationFrame by what it leaves on the page.                           *)
LEMMA FrameParts ==
  ASSUME PageInv, AnimationFrame
  PROVE  \E second, updated :
         /\ second \in Nat /\ second = clock' /\ clock <= second /\ second <= MaxSeconds
         /\ updated = Updates(second)
         /\ Applied(updated, pointsMap, pendingUpdates, Len(pendingUpdates), second)
         /\ \A p \in Range(updated) : Stored(p)
         /\ IsSeq(pointsMap') /\ Distinct(pointsMap')
         /\ Range(pointsMap') \subseteq Range(updated)
         /\ Len(pointsMap') <= POINTS_CLEANUP_THRESHOLD
         /\ Range(updated) \ Range(pointsMap') # {} =>
              /\ Len(pointsMap') = MAX_POINTS
              /\ \A p \in Range(updated) \ Range(pointsMap'), q \in Range(pointsMap') :
                    p.second <= q.second
         /\ evicted' = (evicted \cup KeysOf(updated)) \ KeysOf(pointsMap')
         /\ KeysOf(updated) \subseteq DOMAIN truth
<1>1. /\ clock \in 0..MaxSeconds /\ MaxSeconds \in Nat
      /\ POINTS_CLEANUP_THRESHOLD \in Nat
  BY ClientAssumption DEF PageInv, Rest
<1>2. PICK second \in Nat : second = clock' /\ clock <= second /\ second <= MaxSeconds
  BY <1>1 DEF AnimationFrame
<1>3. PICK updated : updated = Updates(second)
  OBVIOUS
<1>4. /\ pointsMap' = IF Len(updated) > Len(pointsMap) THEN Cleanup(updated) ELSE updated
      /\ evicted' = (evicted \cup KeysOf(updated)) \ KeysOf(pointsMap')
  BY <1>2, <1>3 DEF AnimationFrame, Updates
<1>5. IsSeq(pointsMap) /\ Distinct(pointsMap) /\ IsSeq(pendingUpdates)
      /\ Len(pointsMap) <= POINTS_CLEANUP_THRESHOLD
  BY DEF PageInv, Wires, Points
<1>6. Applied(updated, pointsMap, pendingUpdates, Len(pendingUpdates), second)
  BY <1>3, <1>5, BatchApplied DEF Updates
<1>7. IsSeq(updated) /\ Distinct(updated) /\ Len(updated) >= Len(pointsMap)
  BY <1>6 DEF Applied
<1>8. ASSUME NEW p \in Range(updated) PROVE Stored(p)
  <2>1. Updated(p, pointsMap, pendingUpdates, Len(pendingUpdates), second)
    BY <1>6 DEF Applied
  <2>2. CASE p \in Range(pointsMap)
    BY <2>2 DEF PageInv, Points
  <2>3. ASSUME NEW j \in 1..Len(pendingUpdates), p = Entry(pendingUpdates[j], second)
        PROVE  Stored(p)
    <3> DEFINE m == pendingUpdates[j]
    <3>1. j \in DOMAIN pendingUpdates
      BY <1>5, SeqParts
    <3>2. Sent(m) /\ IsPointUpdate(m)
      BY <3>1 DEF PageInv, Wires, Range
    <3> HIDE DEF m
    <3>3. Key(m) \in DOMAIN truth /\ m.asdu \in Nat /\ m.asdu <= received[m.station]
      BY <3>2 DEF Sent, IsPointUpdate
    <3>4. p.key = Key(m) /\ p.second = second /\ p.asdu = m.asdu /\ p.key[1] = m.station
      BY <2>3 DEF Entry, Key, m
    <3> QED BY <3>3, <3>4 DEF Stored
  <2> QED BY <2>1, <2>2, <2>3 DEF Updated
<1>9. Dated(updated)
  BY <1>8 DEF Dated, Stored, Range
<1>10. /\ IsSeq(pointsMap') /\ Distinct(pointsMap')
       /\ Range(pointsMap') \subseteq Range(updated)
       /\ Len(pointsMap') <= POINTS_CLEANUP_THRESHOLD
       /\ Range(updated) \ Range(pointsMap') # {} =>
            /\ Len(pointsMap') = MAX_POINTS
            /\ \A p \in Range(updated) \ Range(pointsMap'), q \in Range(pointsMap') :
                  p.second <= q.second
  <2>1. CASE Len(updated) > Len(pointsMap)
    <3>1. pointsMap' = Cleanup(updated)
      BY <1>4, <2>1
    <3> QED BY <1>7, <1>9, <3>1, CleanupApplied
  <2>2. CASE ~(Len(updated) > Len(pointsMap))
    <3>1. pointsMap' = updated
      BY <1>4, <2>2
    <3>2. Len(updated) \in Nat /\ Len(pointsMap) \in Nat
      BY <1>5, <1>7, SeqParts
    <3>3. Len(updated) <= POINTS_CLEANUP_THRESHOLD
      BY <1>1, <1>5, <2>2, <3>2
    <3> QED BY <1>7, <3>1, <3>3
  <2> QED BY <2>1, <2>2
<1>11. KeysOf(updated) \subseteq DOMAIN truth
  BY <1>8 DEF KeysOf, Stored, Range
<1> QED BY <1>2, <1>3, <1>4, <1>6, <1>8, <1>10, <1>11

(* A frame keeps the invariant.                                            *)
LEMMA FramePage ==
  ASSUME PageInv, AnimationFrame
  PROVE  Grows /\ Wires' /\ Points' /\ Rest'
<1>1. /\ UNCHANGED <<todo, received, truth, answers, online, transit, commPackets, notices,
                     drops, missed>>
      /\ updateRafId' = FALSE /\ updateScheduled' = ScheduledAfterFrame
      /\ pendingUpdates' = <<>>
  BY DEF AnimationFrame, pipeVars
<1>2. Grows
  BY <1>1, Unheard DEF PageInv
<1>3. PICK second, updated :
         /\ second \in Nat /\ second = clock' /\ clock <= second /\ second <= MaxSeconds
         /\ \A p \in Range(updated) : Stored(p)
         /\ IsSeq(pointsMap') /\ Distinct(pointsMap')
         /\ Range(pointsMap') \subseteq Range(updated)
         /\ Len(pointsMap') <= POINTS_CLEANUP_THRESHOLD
         /\ evicted' = (evicted \cup KeysOf(updated)) \ KeysOf(pointsMap')
         /\ KeysOf(updated) \subseteq DOMAIN truth
  BY FrameParts
<1>4. \A x : Sent(x) => Sent(x)'
  BY <1>2, SentStays
<1>5. Wires'
  BY <1>1, <1>4, Nothing DEF PageInv, Wires
<1>6. Points'
  BY <1>2, <1>3, StoredStays DEF Points
<1>7. clock' \in 0..MaxSeconds
  BY <1>3, ClientAssumption
<1>8. updateScheduled' \in BOOLEAN
  BY <1>1 DEF ScheduledAfterFrame
<1>9. Rest'
  BY <1>1, <1>3, <1>7, <1>8 DEF PageInv, Rest
<1> QED BY <1>2, <1>5, <1>6, <1>9

(* A station that sends has an ASDU parsed.                                *)
LEMMA SourceOf ==
  ASSUME PageInv, NEW s \in Stations, StationSends(s)
  PROVE  /\ UNCHANGED clientVars
         /\ \E now \in Times : \E a : Source(a) /\ Parse(s, a, now)
<1>1. ASSUME NEW now \in Times, ReceiveAnswer(s, now)
      PROVE  \E a : Source(a) /\ Parse(s, a, now)
  <2>1. owed[s] \in Seq(Answers) /\ owed[s] # <<>>
    BY <1>1 DEF PageInv, InHandInv, ReceiveAnswer
  <2>2. Head(owed[s]) \in Answers
    BY <2>1
  <2> QED BY <1>1, <2>2 DEF ReceiveAnswer, Source
<1>2. ASSUME NEW now \in Times, NEW a \in Asdus, Receive(s, a, now)
      PROVE  Source(a) /\ Parse(s, a, now)
  BY <1>2 DEF Receive, Source
<1>3. PICK now \in Times : ReceiveAnswer(s, now) \/ \E a \in Asdus : Receive(s, a, now)
  BY DEF StationSends
<1>4. \E a : Source(a) /\ Parse(s, a, now)
  BY <1>1, <1>2, <1>3
<1>5. UNCHANGED clientVars
  BY DEF StationSends
<1> QED BY <1>4, <1>5

(* Every step keeps the invariant,                                         *)
LEMMA NextPage == ASSUME PageInv, [Next]_vars PROVE PageInv'
<1>1. InHandInv'
  BY NextTags, PipelineAssumption DEF PageInv
<1>2. ASSUME NEW s \in Stations, StationSends(s) PROVE Wires' /\ Points' /\ Rest'
  BY <1>2, SourceOf, ParsePage
<1>3. CASE UNCHANGED vars
  <2>1. /\ UNCHANGED <<todo, received, truth, answers, transit, pendingUpdates, pointsMap>>
        /\ UNCHANGED <<online, updateScheduled, updateRafId, commPackets, notices, clock,
                       drops, missed, evicted>>
    BY <1>3 DEF vars, pipeVars, clientVars
  <2>2. Wires'
    BY <2>1 DEF PageInv, Wires, Sent
  <2>3. Points'
    BY <2>1 DEF PageInv, Points, Stored
  <2>4. Rest'
    BY <2>1 DEF PageInv, Rest
  <2> QED BY <1>1, <2>2, <2>3, <2>4 DEF PageInv
<1>4. ASSUME NEW s \in Stations, BroadcastNext(s) PROVE Wires' /\ Points' /\ Rest'
  BY <1>4, BroadcastPage
<1>5. ASSUME NEW s \in Stations, NEW c \in Commands, SendCommand(s, c)
      PROVE  Wires' /\ Points' /\ Rest'
  BY <1>5, CommandPage
<1>6. CASE OnMessage
  BY <1>1, <1>6, MessagePage DEF PageInv
<1>7. CASE AnimationFrame
  BY <1>1, <1>7, FramePage DEF PageInv
<1>8. CASE Drop \/ Reconnect
  BY <1>1, <1>8, DropPage DEF PageInv
<1> QED BY <1>1, <1>2, <1>3, <1>4, <1>5, <1>6, <1>7, <1>8 DEF PageInv, Next

(* the initial states have it,                                             *)
LEMMA InitPage == Init => PageInv
<1> SUFFICES ASSUME Init PROVE PageInv
  OBVIOUS
<1>1. /\ todo = [s \in Stations |-> <<>>] /\ received = [s \in Stations |-> 0]
      /\ inHand = [s \in Stations |-> NoAsdu] /\ owed = [s \in Stations |-> <<>>]
      /\ truth = <<>> /\ answers = {}
      /\ online = TRUE /\ transit = <<>> /\ pendingUpdates = <<>> /\ updateScheduled = FALSE
      /\ updateRafId = FALSE /\ pointsMap = <<>> /\ commPackets = <<>> /\ notices = {}
      /\ clock = 0 /\ drops = 0 /\ missed = {} /\ evicted = {}
  BY DEF Init, PipeInit
<1>2. InHandInv
  BY <1>1 DEF InHandInv
<1>3. Wires
  BY <1>1, Nothing DEF Wires
<1>4. Points
  BY <1>1, Nothing, ClientAssumption DEF Points, Distinct
<1>5. Rest
  <2>1. 0 \in 0..MaxSeconds /\ 0 \in 0..MaxDrops /\ 0 <= MaxPackets
    BY ClientAssumption
  <2> QED BY <1>1, <2>1, Nothing DEF Rest
<1> QED BY <1>2, <1>3, <1>4, <1>5 DEF PageInv

(* so it always holds.                                                     *)
LEMMA PageHolds == Spec => []PageInv
<1>1. Init => PageInv
  BY InitPage
<1>2. PageInv /\ [Next]_vars => PageInv'
  BY NextPage
<1> QED BY <1>1, <1>2, PTL DEF Spec
-----------------------------------------------------------------------------
(* The types of the page's state; handleMessage lets commPackets, the      *)
(* packet monitor, never grow past its limit.                              *)
THEOREM PageTypes == Spec => []TypeOK
<1>1. ASSUME PageInv PROVE TypeOK
  <2>1. Keys(transit) \subseteq Stations \X Addresses
    BY <1>1, KeysKnown DEF PageInv, Wires
  <2>2. Keys(pendingUpdates) \subseteq Stations \X Addresses
    BY <1>1, KeysKnown DEF PageInv, Wires
  <2>3. \A k \in DOMAIN pendingUpdates : IsPointUpdate(pendingUpdates[k])
    BY <1>1 DEF PageInv, Wires, Range
  <2>4. KeysOf(pointsMap) \subseteq DOMAIN truth
    BY <1>1 DEF PageInv, Points, Stored, KeysOf, Range
  <2> QED BY <1>1, <2>1, <2>2, <2>3, <2>4 DEF PageInv, Rest, TypeOK
<1> QED BY <1>1, PageHolds, PTL

(* A notice that handleMessage shows for a control_result is the answer of *)
(* the station to that command, positive or negative, whatever was lost or *)
(* overtaken on the way.                                                   *)
THEOREM NoticesTrue == Spec => []NoticesAreAnswers
<1>1. PageInv => NoticesAreAnswers
  BY DEF PageInv, Rest, NoticesAreAnswers
<1> QED BY <1>1, PageHolds, PTL

(* After each frame the points are within the threshold and have one key   *)
(* each: cleanupOldPoints, called only when a batch brought a point, is    *)
(* called often enough.                                                    *)
THEOREM PointsAreBounded == Spec => []PointsBounded
<1>1. ASSUME PageInv PROVE PointsBounded
  <2> DEFINE n == Len(pointsMap)
             f == [k \in 1..n |-> pointsMap[k].key]
  <2>1. /\ IsSeq(pointsMap) /\ Distinct(pointsMap) /\ n <= POINTS_CLEANUP_THRESHOLD
    BY <1>1 DEF PageInv, Points
  <2>2. n \in Nat /\ DOMAIN pointsMap = 1..n
    BY <2>1, SeqParts
  <2> HIDE DEF n
  <2>3. KeysOf(pointsMap) = {pointsMap[k].key : k \in 1..n}
    BY <2>2 DEF KeysOf
  <2>4. f \in Bijection(1..n, KeysOf(pointsMap))
    BY <2>1, <2>2, <2>3 DEF Bijection, Injection, Surjection, IsInjective, Distinct
  <2>5. Cardinality(KeysOf(pointsMap)) = n
    BY <2>2, <2>4, FS_CountingElements DEF ExistsBijection
  <2> QED BY <2>1, <2>5 DEF PointsBounded, n
<1> QED BY <1>1, PageHolds, PTL

(* cleanupOldPoints removes no point updated in a later second than one it *)
(* keeps, and keeps MAX_POINTS of them.                                    *)
THEOREM OldestDropped == Spec => CleanupDropsOldest
<1>1. ASSUME PageInv, AnimationFrame
      PROVE  LET updated == ApplyBatch(pointsMap, pendingUpdates, clock')
                 dropped == Range(updated) \ Range(pointsMap') IN
             dropped # {} =>
                 /\ \A p \in dropped, q \in Range(pointsMap') : p.second <= q.second
                 /\ Len(pointsMap') = MAX_POINTS
  <2>1. PICK second, updated :
         /\ second = clock' /\ updated = Updates(second)
         /\ Range(updated) \ Range(pointsMap') # {} =>
              /\ Len(pointsMap') = MAX_POINTS
              /\ \A p \in Range(updated) \ Range(pointsMap'), q \in Range(pointsMap') :
                    p.second <= q.second
    BY <1>1, FrameParts
  <2>2. updated = ApplyBatch(pointsMap, pendingUpdates, clock')
    BY <2>1 DEF Updates
  <2> QED BY <2>1, <2>2
<1> QED BY <1>1, PageHolds, PTL DEF CleanupDropsOldest
-----------------------------------------------------------------------------
(* The reports of an address travel in the order in which they were made.  *)
Alike(m, x) == Tells(m) /\ Tells(x) /\ Key(m) = Key(x)
InOrder(q) ==
    \A i, j \in DOMAIN q : i <= j /\ Alike(q[i], q[j]) => q[i].asdu <= q[j].asdu
Precede(q, r) ==
    \A m \in Range(q), x \in Range(r) : Alike(m, x) => m.asdu <= x.asdu
Trails(points, r) ==
    \A p \in Range(points), x \in Range(r) :
        Tells(x) /\ Key(x) = p.key => p.asdu <= x.asdu
Order ==
    /\ InOrder(pendingUpdates) /\ InOrder(transit) /\ \A s \in Stations : InOrder(todo[s])
    /\ Precede(pendingUpdates, transit)
    /\ \A s \in Stations : Precede(pendingUpdates, todo[s]) /\ Precede(transit, todo[s])
    /\ Trails(pointsMap, pendingUpdates) /\ Trails(pointsMap, transit)
    /\ \A s \in Stations : Trails(pointsMap, todo[s])

(* The order of what the queues become.                                    *)
LEMMA InOrderTail ==
  ASSUME NEW q, IsSeq(q), q # <<>>, InOrder(q)
  PROVE  /\ InOrder(Tail(q))
         /\ \A x \in Range(Tail(q)) : Alike(Head(q), x) => Head(q).asdu <= x.asdu
<1> DEFINE n == Len(q)
           t == Tail(q)
<1>1. /\ IsSeq(t) /\ Len(t) = n - 1 /\ n \in Nat /\ n > 0 /\ Head(q) = q[1]
      /\ \A k \in 1..(n - 1) : t[k] = q[k + 1]
  BY TailParts
<1>2. DOMAIN q = 1..n /\ DOMAIN t = 1..(n - 1)
  BY <1>1, SeqParts
<1> HIDE DEF n, t
<1>3. \A k \in 1..(n - 1) : k + 1 \in 1..n /\ 1 <= k + 1
  BY <1>1
<1>4. 1 \in 1..n
  BY <1>1
<1>5. InOrder(t)
  <2> SUFFICES ASSUME NEW i \in 1..(n - 1), NEW j \in 1..(n - 1), i <= j, Alike(t[i], t[j])
               PROVE  t[i].asdu <= t[j].asdu
    BY <1>2 DEF InOrder
  <2>1. i + 1 <= j + 1 /\ t[i] = q[i + 1] /\ t[j] = q[j + 1]
    BY <1>1
  <2> QED BY <1>2, <1>3, <2>1 DEF InOrder
<1>6. ASSUME NEW x \in Range(t), Alike(Head(q), x) PROVE Head(q).asdu <= x.asdu
  <2>1. PICK k \in 1..(n - 1) : x = t[k]
    BY <1>2 DEF Range
  <2> QED BY <1>1, <1>2, <1>3, <1>4, <1>6, <2>1 DEF InOrder
<1> QED BY <1>5, <1>6 DEF t

(* A later report at the end.                                              *)
LEMMA InOrderAppend ==
  ASSUME NEW q, IsSeq(q), InOrder(q), NEW m, m.asdu \in Nat \/ ~Tells(m),
         \A x \in Range(q) : Alike(x, m) => x.asdu <= m.asdu
  PROVE  InOrder(Append(q, m))
<1> DEFINE n == Len(q)
           t == Append(q, m)
<1>1. /\ IsSeq(t) /\ Len(t) = n + 1 /\ n \in Nat /\ t[n + 1] = m
      /\ \A k \in 1..n : t[k] = q[k]
  BY AppendParts
<1>2. DOMAIN q = 1..n /\ DOMAIN t = 1..(n + 1)
  BY <1>1, SeqParts
<1> HIDE DEF n, t
<1>3. SUFFICES ASSUME NEW i \in 1..(n + 1), NEW j \in 1..(n + 1), i <= j, Alike(t[i], t[j])
               PROVE  t[i].asdu <= t[j].asdu
  BY <1>2 DEF InOrder, t
<1>4. CASE j \in 1..n
  <2>1. i \in 1..n
    BY <1>1, <1>3, <1>4
  <2> QED BY <1>1, <1>2, <1>3, <1>4, <2>1 DEF InOrder
<1>5. CASE j = n + 1 /\ i \in 1..n
  <2>1. t[j] = m /\ t[i] = q[i] /\ q[i] \in Range(q)
    BY <1>1, <1>2, <1>5 DEF Range
  <2> QED BY <1>3, <2>1
<1>6. CASE j = n + 1 /\ i = n + 1
  <2>1. t[j] = m /\ t[i] = m /\ m.asdu \in Nat
    BY <1>1, <1>3, <1>6 DEF Alike
  <2> QED BY <2>1
<1> QED BY <1>1, <1>4, <1>5, <1>6

(* Nothing is in order.                                                    *)
LEMMA EmptyOrder ==
  ASSUME NEW q
  PROVE  /\ InOrder(<<>>) /\ Precede(<<>>, q) /\ Precede(q, <<>>)
         /\ Trails(<<>>, q) /\ Trails(q, <<>>)
<1>1. Range(<<>>) = {} /\ DOMAIN <<>> = {}
  BY Nothing DEF Range
<1> QED BY <1>1 DEF InOrder, Precede, Trails

(* An ASDU is parsed.                                                      *)
LEMMA ParseOrder ==
  ASSUME PageInv, Order, NEW s \in Stations, NEW a, Source(a), NEW now, Parse(s, a, now),
         UNCHANGED clientVars
  PROVE  Order'
<1>1. PICK q, n :
         /\ n = received[s] + 1
         /\ todo' = [todo EXCEPT ![s] = q] /\ IsSeq(q)
         /\ \A m \in Range(q) :
              /\ m.station = s
              /\ \/ m.type = "packet"
                 \/ m.type = "control_result" /\ ResultOf(m) \in answers'
                 \/ Wellformed(m) /\ Key(m) \in DOMAIN truth' /\ m.asdu = n
  BY ParseParts DEF PageInv, Wires
<1>2. received[s] \in Nat /\ n \in Nat
  BY <1>1 DEF PageInv, Wires
<1>3. \A m \in Range(q) : m.station = s /\ (Tells(m) => m.asdu = n)
  BY <1>1 DEF Tells
<1>4. todo' = [r \in Stations |-> IF r = s THEN q ELSE todo[r]]
  BY <1>1 DEF PageInv, Wires
<1>5. /\ transit' = transit /\ pendingUpdates' = pendingUpdates /\ pointsMap' = pointsMap
  BY DEF clientVars
<1>6. ASSUME NEW m, Sent(m), Tells(m), m.station = s PROVE m.asdu <= n
  BY <1>1, <1>2, <1>6 DEF Sent, Tells
<1>7. ASSUME NEW r, \A m \in Range(r) : Sent(m) PROVE Precede(r, q)
  BY <1>2, <1>3, <1>6, <1>7 DEF Precede, Alike, Key
<1>8. Precede(pendingUpdates, q) /\ Precede(transit, q)
  BY <1>7 DEF PageInv, Wires
<1>9. Trails(pointsMap, q)
  <2> SUFFICES ASSUME NEW p \in Range(pointsMap), NEW x \in Range(q), Tells(x), Key(x) = p.key
               PROVE  p.asdu <= x.asdu
    BY DEF Trails
  <2>1. Stored(p)
    BY DEF PageInv, Points
  <2>2. p.key[1] = s
    BY <1>3 DEF Key
  <2> QED BY <1>1, <1>2, <1>3, <2>1, <2>2 DEF Stored
<1>10. InOrder(q)
  <2> SUFFICES ASSUME NEW i \in DOMAIN q, NEW j \in DOMAIN q, Alike(q[i], q[j])
               PROVE  q[i].asdu <= q[j].asdu
    BY DEF InOrder
  <2>1. q[i].asdu = n /\ q[j].asdu = n
    BY <1>3 DEF Alike, Range
  <2> QED BY <1>2, <2>1
<1> QED BY <1>4, <1>5, <1>8, <1>9, <1>10 DEF Order

(* A message goes onto the wire.                                           *)
LEMMA SendOrder ==
  ASSUME PageInv, Order, NEW m, Sent(m), Send(m), UNCHANGED <<pendingUpdates, pointsMap>>,
         \A x \in Range(transit) : Alike(x, m) => x.asdu <= m.asdu,
         \A x \in Range(pendingUpdates) : Alike(x, m) => x.asdu <= m.asdu,
         \A p \in Range(pointsMap) : Tells(m) /\ Key(m) = p.key => p.asdu <= m.asdu
  PROVE  /\ InOrder(transit') /\ Precede(pendingUpdates, transit')
         /\ Trails(pointsMap, transit')
         /\ Range(transit') \subseteq Range(transit) \cup {m}
<1>1. IsSeq(transit)
  BY DEF PageInv, Wires
<1>2. Range(Append(transit, m)) = Range(transit) \cup {m}
  BY <1>1, RangeOfAppend
<1>3. m.asdu \in Nat \/ ~Tells(m)
  BY DEF Sent, Tells
<1>4. InOrder(Append(transit, m))
  BY <1>1, <1>3, InOrderAppend DEF Order
<1>5. transit' = transit \/ transit' = Append(transit, m)
  BY DEF Send
<1>6. CASE transit' = transit
  BY <1>6 DEF Order
<1>7. CASE transit' = Append(transit, m)
  BY <1>2, <1>4, <1>7 DEF Order, Precede, Trails
<1> QED BY <1>5, <1>6, <1>7

(* The thread of a station makes its next broadcast.                       *)
LEMMA BroadcastOrder ==
  ASSUME PageInv, Order, NEW s \in Stations, BroadcastNext(s) PROVE Order'
<1> DEFINE q == todo[s]
           m == Head(q)
<1>1. /\ q # <<>> /\ todo' = [todo EXCEPT ![s] = Tail(@)] /\ Send(m)
      /\ UNCHANGED <<pendingUpdates, pointsMap>>
  BY DEF BroadcastNext, Broadcast
<1>2. IsSeq(q) /\ \A x \in Range(q) : Sent(x) /\ x.station = s
  BY DEF PageInv, Wires
<1>3. Range(q) = {m} \cup Range(Tail(q))
  BY <1>1, <1>2, RangeOfTail
<1>4. /\ InOrder(Tail(q))
      /\ \A x \in Range(Tail(q)) : Alike(m, x) => m.asdu <= x.asdu
  BY <1>1, <1>2, InOrderTail DEF Order
<1>5. todo' = [r \in Stations |-> IF r = s THEN Tail(q) ELSE todo[r]]
  BY <1>1 DEF PageInv, Wires
<1>6. /\ Precede(pendingUpdates, q) /\ Precede(transit, q) /\ Trails(pointsMap, q)
  BY DEF Order
<1> HIDE DEF q, m
<1>7. /\ InOrder(transit') /\ Precede(pendingUpdates, transit')
      /\ Trails(pointsMap, transit')
      /\ Range(transit') \subseteq Range(transit) \cup {m}
  <2>1. Sent(m)
    BY <1>2, <1>3
  <2>2. /\ \A x \in Range(transit) : Alike(x, m) => x.asdu <= m.asdu
        /\ \A x \in Range(pendingUpdates) : Alike(x, m) => x.asdu <= m.asdu
        /\ \A p \in Range(pointsMap) : Tells(m) /\ Key(m) = p.key => p.asdu <= m.asdu
    BY <1>3, <1>6 DEF Precede, Trails
  <2> QED BY <1>1, <2>1, <2>2, SendOrder
<1>8. ASSUME NEW r \in Stations
      PROVE  /\ InOrder(todo'[r]) /\ Precede(pendingUpdates, todo'[r])
             /\ Precede(transit', todo'[r]) /\ Trails(pointsMap, todo'[r])
  <2>1. CASE r = s
    <3>1. todo'[r] = Tail(q)
      BY <1>5, <2>1
    <3>2. Precede(transit', Tail(q))
      BY <1>3, <1>4, <1>6, <1>7 DEF Precede
    <3>3. Precede(pendingUpdates, Tail(q)) /\ Trails(pointsMap, Tail(q))
      BY <1>3, <1>6 DEF Precede, Trails
    <3> QED BY <1>4, <3>1, <3>2, <3>3
  <2>2. CASE r # s
    <3>1. todo'[r] = todo[r]
      BY <1>5, <2>2
    <3>2. \A x \in Range(todo[r]) : x.station = r
      BY DEF PageInv, Wires
    <3>3. \A x \in Range(todo[r]) : ~Alike(m, x)
      <4>1. m.station = s
        BY <1>2, <1>3
      <4> QED BY <2>2, <3>2, <4>1 DEF Alike, Key
    <3>4. Precede(transit, todo[r])
      BY DEF Order
    <3>5. Precede(transit', todo[r])
      BY <1>7, <3>3, <3>4 DEF Precede
    <3> QED BY <3>1, <3>5 DEF Order
  <2> QED BY <2>1, <2>2
<1> QED BY <1>1, <1>7, <1>8 DEF Order

(* A command is sent.                                                      *)
LEMMA CommandOrder ==
  ASSUME PageInv, Order, NEW s \in Stations, NEW c, SendCommand(s, c) PROVE Order'
<1> DEFINE m == PacketCallback(s, TRUE)[1]
<1>1. Send(m) /\ UNCHANGED <<todo, pendingUpdates, pointsMap>>
  BY DEF SendCommand, Command
<1>2. Sent(m) /\ ~Tells(m)
  BY DEF PacketCallback, Sent, Tells
<1> HIDE DEF m
<1>3. \A x : ~Alike(x, m) /\ ~Alike(m, x)
  BY <1>2 DEF Alike
<1>4. /\ InOrder(transit') /\ Precede(pendingUpdates, transit')
      /\ Trails(pointsMap, transit')
      /\ Range(transit') \subseteq Range(transit) \cup {m}
  BY <1>1, <1>2, <1>3, SendOrder
<1>5. \A r \in Stations : Precede(transit', todo[r])
  BY <1>3, <1>4 DEF Order, Precede
<1> QED BY <1>1, <1>4, <1>5 DEF Order

(* The page handles a message.                                             *)
LEMMA MessageOrder ==
  ASSUME PageInv, Order, OnMessage PROVE Order'
<1> DEFINE m == Head(transit)
<1>1. /\ transit # <<>> /\ transit' = Tail(transit) /\ UNCHANGED <<todo, pointsMap>>
      /\ \/ HandlePoint(m) \/ HandlePacket(m) \/ HandleControlResult(m) \/ HandleMalformed(m)
  BY DEF OnMessage, pipeVars
<1>2. IsSeq(transit) /\ IsSeq(pendingUpdates) /\ \A x \in Range(transit) : Sent(x)
  BY DEF PageInv, Wires
<1>3. Range(transit) = {m} \cup Range(Tail(transit))
  BY <1>1, <1>2, RangeOfTail
<1>4. /\ InOrder(Tail(transit))
      /\ \A x \in Range(Tail(transit)) : Alike(m, x) => m.asdu <= x.asdu
  BY <1>1, <1>2, InOrderTail DEF Order
<1> HIDE DEF m
<1>5. /\ \A s \in Stations : InOrder(todo[s]) /\ Precede(transit', todo[s])
      /\ \A s \in Stations : Trails(pointsMap, todo[s])
      /\ Trails(pointsMap, transit') /\ InOrder(transit')
  BY <1>1, <1>3, <1>4 DEF Order, Precede, Trails
<1>6. CASE HandlePoint(m)
  <2>1. pendingUpdates' = Append(pendingUpdates, m) /\ IsPointUpdate(m)
    BY <1>6 DEF HandlePoint
  <2>2. Range(pendingUpdates') = Range(pendingUpdates) \cup {m}
    BY <1>2, <2>1, RangeOfAppend
  <2>3. InOrder(pendingUpdates')
    <3>1. m.asdu \in Nat
      BY <1>2, <1>3, <2>1 DEF Sent, IsPointUpdate
    <3>2. \A x \in Range(pendingUpdates) : Alike(x, m) => x.asdu <= m.asdu
      BY <1>3 DEF Order, Precede
    <3> QED BY <1>2, <2>1, <3>1, <3>2, InOrderAppend DEF Order
  <2>4. Precede(pendingUpdates', transit')
    BY <1>1, <1>3, <1>4, <2>2 DEF Order, Precede
  <2>5. \A s \in Stations : Precede(pendingUpdates', todo[s])
    BY <1>3, <2>2 DEF Order, Precede
  <2>6. Trails(pointsMap, pendingUpdates')
    BY <1>3, <2>2 DEF Order, Trails
  <2> QED BY <1>1, <1>5, <2>3, <2>4, <2>5, <2>6 DEF Order
<1>7. CASE ~HandlePoint(m)
  <2>1. pendingUpdates' = pendingUpdates
    BY <1>1, <1>7 DEF HandlePacket, HandleControlResult, HandleMalformed
  <2>2. Precede(pendingUpdates, transit')
    BY <1>1, <1>3 DEF Order, Precede
  <2> QED BY <1>1, <1>5, <2>1, <2>2 DEF Order
<1> QED BY <1>6, <1>7

(* The connection is lost or made again.                                   *)
LEMMA DropOrder ==
  ASSUME PageInv, Order, Drop \/ Reconnect PROVE Order'
<1>1. /\ UNCHANGED <<todo, pendingUpdates, pointsMap>> /\ transit' \in {transit, <<>>}
  BY DEF Drop, Reconnect, pipeVars
<1> QED BY <1>1, EmptyOrder DEF Order

(* What a frame shows of a key is the last update of it, if there is one.  *)
LEMMA FrameShows ==
  ASSUME PageInv, Order, NEW second, NEW p,
         Updated(p, pointsMap, pendingUpdates, Len(pendingUpdates), second)
  PROVE  /\ \A x \in Range(pointsMap) : x.key = p.key => x.asdu <= p.asdu
         /\ \A m \in Range(pendingUpdates) : Key(m) = p.key => m.asdu <= p.asdu
         /\ \A q : Trails(pointsMap, q) /\ Precede(pendingUpdates, q) =>
               \A x \in Range(q) : Tells(x) /\ Key(x) = p.key => p.asdu <= x.asdu
<1> DEFINE n == Len(pendingUpdates)
<1>1. IsSeq(pendingUpdates) /\ DOMAIN pendingUpdates = 1..n
  BY SeqParts DEF PageInv, Wires
<1>2. \A m \in Range(pendingUpdates) : Tells(m)
  BY DEF PageInv, Wires, IsPointUpdate, Tells
<1>3. CASE p \in Range(pointsMap) /\ \A i \in 1..n : Key(pendingUpdates[i]) # p.key
  <2>1. \A x \in Range(pointsMap) : x.key = p.key => x = p
    BY <1>3 DEF PageInv, Points, Distinct, Range
  <2>2. p.asdu \in Nat
    BY <1>3 DEF PageInv, Points, Stored
  <2>3. \A m \in Range(pendingUpdates) : Key(m) # p.key
    BY <1>1, <1>3 DEF Range
  <2> QED BY <1>3, <2>1, <2>2, <2>3 DEF Trails
<1>4. ASSUME NEW j \in 1..n, p = Entry(pendingUpdates[j], second),
             \A i \in 1..n : Key(pendingUpdates[i]) = p.key => i <= j
      PROVE  /\ \A x \in Range(pointsMap) : x.key = p.key => x.asdu <= p.asdu
             /\ \A m \in Range(pendingUpdates) : Key(m) = p.key => m.asdu <= p.asdu
             /\ \A q : Trails(pointsMap, q) /\ Precede(pendingUpdates, q) =>
                   \A x \in Range(q) : Tells(x) /\ Key(x) = p.key => p.asdu <= x.asdu
  <2> DEFINE u == pendingUpdates[j]
  <2>1. p.key = Key(u) /\ p.asdu = u.asdu
    BY <1>4 DEF Entry
  <2>2. u \in Range(pendingUpdates) /\ Tells(u)
    BY <1>1, <1>2 DEF Range
  <2>3. ASSUME NEW m \in Range(pendingUpdates), Key(m) = p.key PROVE m.asdu <= p.asdu
    <3>1. PICK i \in 1..n : m = pendingUpdates[i]
      BY <1>1 DEF Range
    <3>2. i <= j /\ Alike(pendingUpdates[i], u)
      BY <1>2, <1>4, <2>1, <2>2, <2>3, <3>1 DEF Alike
    <3> QED BY <1>1, <2>1, <3>1, <3>2 DEF Order, InOrder
  <2> HIDE DEF u
  <2>4. \A x \in Range(pointsMap) : x.key = p.key => x.asdu <= p.asdu
    BY <2>1, <2>2 DEF Order, Trails
  <2>5. \A q : Precede(pendingUpdates, q) =>
           \A x \in Range(q) : Tells(x) /\ Key(x) = p.key => p.asdu <= x.asdu
    BY <2>1, <2>2 DEF Precede, Alike
  <2> QED BY <2>3, <2>4, <2>5
<1> QED BY <1>3, <1>4 DEF Updated

(* A frame: the points get the order of the updates.                       *)
LEMMA FrameOrder ==
  ASSUME PageInv, Order, AnimationFrame PROVE Order'
<1>1. /\ UNCHANGED <<todo, transit>> /\ pendingUpdates' = <<>>
  BY DEF AnimationFrame, pipeVars
<1>2. PICK second, updated :
         /\ Applied(updated, pointsMap, pendingUpdates, Len(pendingUpdates), second)
         /\ Range(pointsMap') \subseteq Range(updated)
  BY FrameParts
<1>3. ASSUME NEW q, Trails(pointsMap, q), Precede(pendingUpdates, q)
      PROVE  Trails(pointsMap', q)
  <2> SUFFICES ASSUME NEW p \in Range(pointsMap'), NEW x \in Range(q), Tells(x),
                      Key(x) = p.key
               PROVE  p.asdu <= x.asdu
    BY DEF Trails
  <2>1. Updated(p, pointsMap, pendingUpdates, Len(pendingUpdates), second)
    BY <1>2 DEF Applied
  <2> QED BY <1>3, <2>1, FrameShows
<1>4. Trails(pointsMap', transit) /\ \A s \in Stations : Trails(pointsMap', todo[s])
  BY <1>3 DEF Order
<1> QED BY <1>1, <1>4, EmptyOrder DEF Order

(* Every step keeps the order.                                             *)
LEMMA NextOrder == ASSUME PageInv, Order, [Next]_vars PROVE Order'
<1>1. ASSUME NEW s \in Stations, StationSends(s) PROVE Order'
  BY <1>1, SourceOf, ParseOrder
<1>2. ASSUME NEW s \in Stations, BroadcastNext(s) PROVE Order'
  BY <1>2, BroadcastOrder
<1>3. ASSUME NEW s \in Stations, NEW c \in Commands, SendCommand(s, c) PROVE Order'
  BY <1>3, CommandOrder
<1>4. CASE OnMessage
  BY <1>4, MessageOrder
<1>5. CASE AnimationFrame
  BY <1>5, FrameOrder
<1>6. CASE Drop \/ Reconnect
  BY <1>6, DropOrder
<1>7. CASE UNCHANGED vars
  BY <1>7 DEF Order, vars, pipeVars, clientVars
<1> QED BY <1>1, <1>2, <1>3, <1>4, <1>5, <1>6, <1>7 DEF Next

(* processBatchUpdates leaves no point at an earlier report than it showed *)
(* before, nor than any that waited in the batch, although each point is   *)
(* broadcast twice and several ASDUs may share a frame.                    *)
THEOREM PointsNeverOlder == Spec => NeverOlder
<1>1. Init => Order
  <2> SUFFICES ASSUME Init PROVE Order
    OBVIOUS
  <2>1. /\ todo = [s \in Stations |-> <<>>] /\ transit = <<>> /\ pendingUpdates = <<>>
        /\ pointsMap = <<>>
    BY DEF Init, PipeInit
  <2> QED BY <2>1, EmptyOrder DEF Order
<1>2. PageInv /\ Order /\ [Next]_vars => Order'
  BY NextOrder
<1>3. ASSUME PageInv, Order, [Next]_vars, NEW j \in DOMAIN pointsMap'
      PROVE  LET p == pointsMap'[j] IN
             /\ \A q \in Range(pointsMap) : q.key = p.key => q.asdu <= p.asdu
             /\ AnimationFrame => \A m \in Range(pendingUpdates) :
                                     Key(m) = p.key => m.asdu <= p.asdu
  <2> DEFINE p == pointsMap'[j]
  <2>1. CASE AnimationFrame
    <3>1. PICK second, updated :
            /\ Applied(updated, pointsMap, pendingUpdates, Len(pendingUpdates), second)
            /\ Range(pointsMap') \subseteq Range(updated)
      BY <1>3, <2>1, FrameParts
    <3>2. p \in Range(pointsMap')
      BY DEF Range
    <3>3. Updated(p, pointsMap, pendingUpdates, Len(pendingUpdates), second)
      BY <3>1, <3>2 DEF Applied
    <3> HIDE DEF p
    <3> QED BY <1>3, <3>3, FrameShows DEF p
  <2>2. CASE ~AnimationFrame
    <3>1. pointsMap' = pointsMap
      BY <1>3, <2>2 DEF Next, vars, clientVars, StationSends, BroadcastNext, SendCommand,
           OnMessage, Drop, Reconnect
    <3>2. \A q \in Range(pointsMap) : q.key = p.key => q = p
      BY <1>3, <3>1 DEF PageInv, Points, Distinct, Range
    <3>3. p.asdu \in Nat
      BY <1>3, <3>1 DEF PageInv, Points, Stored, Range
    <3> QED BY <2>2, <3>2, <3>3
  <2> QED BY <2>1, <2>2
<1>4. PageInv /\ Order /\ [Next]_vars =>
        \A j \in DOMAIN pointsMap' :
          LET p == pointsMap'[j] IN
          /\ \A q \in Range(pointsMap) : q.key = p.key => q.asdu <= p.asdu
          /\ AnimationFrame => \A m \in Range(pendingUpdates) :
                                  Key(m) = p.key => m.asdu <= p.asdu
  BY <1>3
<1> QED BY <1>1, <1>2, <1>4, PageHolds, PTL DEF Spec, NeverOlder
-----------------------------------------------------------------------------
(* Where the last report of an address is: with the thread of its station, *)
(* else on the wire, else in the batch, else on the page, unless it was    *)
(* lost or cleaned up on its way.                                          *)
Settled(key) ==
    LET t == todo[key[1]]
        r == truth[key]
        passed == key \notin Keys(t) \cup Keys(transit) IN
    /\ key \in Keys(t) => Latest(t, key, r)
    /\ key \notin Keys(t) /\ key \in Keys(transit) => Latest(transit, key, r)
    /\ passed /\ key \in Keys(pendingUpdates) =>
          Latest(pendingUpdates, key, r) \/ key \in missed
    /\ passed /\ key \notin Keys(pendingUpdates) => Shows(key) \/ key \in missed \cup evicted
LatestInv ==
    /\ \A key \in DOMAIN truth : Printable(key) => Settled(key)
    /\ evicted \cap KeysOf(pointsMap) = {}
    /\ ~online => transit = <<>>

(* The last report without the first message: still there, or it was that. *)
LEMMA LatestTail ==
  ASSUME NEW q, IsSeq(q), q # <<>>, NEW key, NEW r, Latest(q, key, r)
  PROVE  \/ key \in Keys(Tail(q)) /\ Latest(Tail(q), key, r)
         \/ key \notin Keys(Tail(q)) /\ Concerns(Head(q), key) /\ Repeats(Head(q), r)
<1> DEFINE n == Len(q)
           t == Tail(q)
<1>1. /\ IsSeq(t) /\ Len(t) = n - 1 /\ n \in Nat /\ n > 0 /\ Head(q) = q[1]
      /\ \A k \in 1..(n - 1) : t[k] = q[k + 1]
  BY TailParts
<1>2. DOMAIN q = 1..n /\ DOMAIN t = 1..(n - 1)
  BY <1>1, SeqParts
<1> HIDE DEF n, t
<1>3. PICK k \in 1..n : /\ Concerns(q[k], key) /\ Repeats(q[k], r)
                        /\ \A j \in 1..n : Concerns(q[j], key) => j <= k
  BY <1>2 DEF Latest
<1>4. CASE k = 1
  <2>1. \A j \in 1..(n - 1) : ~Concerns(t[j], key)
    <3> SUFFICES ASSUME NEW j \in 1..(n - 1), Concerns(q[j + 1], key) PROVE FALSE
      BY <1>1
    <3>1. j + 1 \in 1..n /\ ~(j + 1 <= 1)
      BY <1>1
    <3> QED BY <1>3, <1>4, <3>1
  <2>2. key \notin Keys(t)
    BY <1>2, <2>1, KeysIn
  <2> QED BY <1>1, <1>3, <1>4, <2>2 DEF t
<1>5. CASE k # 1
  <2> DEFINE i == k - 1
  <2>1. i \in 1..(n - 1) /\ i + 1 = k
    BY <1>1, <1>5
  <2> HIDE DEF i
  <2>2. t[i] = q[k]
    BY <1>1, <2>1
  <2>3. ASSUME NEW j \in 1..(n - 1), Concerns(t[j], key) PROVE j <= i
    <3>1. j + 1 \in 1..n /\ t[j] = q[j + 1]
      BY <1>1
    <3>2. j + 1 <= k
      BY <1>3, <2>3, <3>1
    <3> QED BY <2>1, <3>2
  <2>4. Latest(t, key, r)
    BY <1>2, <1>3, <2>1, <2>2, <2>3 DEF Latest
  <2>5. key \in Keys(t)
    BY <1>2, <1>3, <2>1, <2>2, KeysIn
  <2> QED BY <2>4, <2>5 DEF t
<1> QED BY <1>4, <1>5

(* The last report with one more message.                                  *)
LEMMA LatestAppend ==
  ASSUME NEW q, IsSeq(q), NEW m, NEW key, NEW r
  PROVE  /\ Concerns(m, key) /\ Repeats(m, r) => Latest(Append(q, m), key, r)
         /\ ~Concerns(m, key) /\ Latest(q, key, r) => Latest(Append(q, m), key, r)
<1> DEFINE n == Len(q)
           t == Append(q, m)
<1>1. /\ IsSeq(t) /\ Len(t) = n + 1 /\ n \in Nat /\ t[n + 1] = m
      /\ \A k \in 1..n : t[k] = q[k]
  BY AppendParts
<1>2. DOMAIN q = 1..n /\ DOMAIN t = 1..(n + 1)
  BY <1>1, SeqParts
<1> HIDE DEF n, t
<1>3. ASSUME Concerns(m, key), Repeats(m, r) PROVE Latest(t, key, r)
  <2>1. n + 1 \in 1..(n + 1) /\ \A j \in 1..(n + 1) : j <= n + 1
    BY <1>1
  <2> QED BY <1>1, <1>2, <1>3, <2>1 DEF Latest
<1>4. ASSUME ~Concerns(m, key), Latest(q, key, r) PROVE Latest(t, key, r)
  <2>1. PICK k \in 1..n : /\ Concerns(q[k], key) /\ Repeats(q[k], r)
                          /\ \A j \in 1..n : Concerns(q[j], key) => j <= k
    BY <1>2, <1>4 DEF Latest
  <2>2. k \in 1..(n + 1) /\ t[k] = q[k]
    BY <1>1
  <2>3. \A j \in 1..(n + 1) : j = n + 1 \/ j \in 1..n
    BY <1>1
  <2>4. \A j \in 1..(n + 1) : Concerns(t[j], key) => j <= k
    BY <1>1, <1>4, <2>1, <2>3
  <2> QED BY <1>2, <2>1, <2>2, <2>4 DEF Latest
<1> QED BY <1>3, <1>4 DEF t

(* The keys of what the queues become.                                     *)
LEMMA KeysOfTail ==
  ASSUME NEW q, IsSeq(q), q # <<>>, NEW key
  PROVE  key \in Keys(q) <=> key \in Keys(Tail(q)) \/ Concerns(Head(q), key)
  BY RangeOfTail, KeysOfRange

(* The keys with one more message.                                         *)
LEMMA KeysOfAppend ==
  ASSUME NEW q, IsSeq(q), NEW m, NEW key
  PROVE  key \in Keys(Append(q, m)) <=> key \in Keys(q) \/ Concerns(m, key)
  BY RangeOfAppend, KeysOfRange

(* The keys of one message.                                                *)
LEMMA KeysOfOne ==
  ASSUME NEW m, NEW key PROVE key \in Keys(<<m>>) <=> Concerns(m, key)
<1>1. Range(<<m>>) = {m}
  BY SingleMessage DEF Range
<1> QED BY <1>1, KeysOfRange

(* A key with a last report is among the keys.                             *)
LEMMA LatestKey == ASSUME NEW q, NEW key, NEW r, Latest(q, key, r) PROVE key \in Keys(q)
  BY KeysIn DEF Latest

(* A step that leaves what is known of an address where it is.             *)
LEMMA SettledStays ==
  ASSUME NEW key, Settled(key),
         key \in Keys(todo'[key[1]]) => Latest(todo'[key[1]], key, truth[key]),
         key \in Keys(todo[key[1]]) => key \in Keys(todo'[key[1]]),
         truth'[key] = truth[key],
         UNCHANGED <<pendingUpdates, pointsMap, evicted>>,
         IsSeq(transit),
         transit' = transit \/ \E m : ~Concerns(m, key) /\ transit' = Append(transit, m),
         missed \subseteq missed'
  PROVE  Settled(key)'
<1>1. key \in Keys(transit') <=> key \in Keys(transit)
  BY KeysOfAppend
<1>2. Latest(transit, key, truth[key]) => Latest(transit', key, truth[key])
  BY LatestAppend
<1>3. Shows(key) => Shows(key)'
  BY DEF Shows
<1> QED BY <1>1, <1>2, <1>3 DEF Settled

(* An ASDU is parsed.                                                      *)
LEMMA ParseLatest ==
  ASSUME PageInv, LatestInv, NEW s \in Stations, NEW a, Source(a), NEW now,
         Parse(s, a, now), UNCHANGED clientVars
  PROVE  LatestInv'
<1>1. PICK q, n :
         /\ todo[s] = <<>> /\ todo' = [todo EXCEPT ![s] = q]
         /\ \A key \in DOMAIN truth' :
              \/ /\ key[1] = s
                 /\ truth'[key].type \in Protection \/ Latest(q, key, truth'[key])
              \/ /\ key \in DOMAIN truth /\ truth'[key] = truth[key]
                 /\ key \notin Keys(q)
  BY ParseParts DEF PageInv, Wires
<1>2. todo' = [r \in Stations |-> IF r = s THEN q ELSE todo[r]]
  BY <1>1 DEF PageInv, Wires
<1>3. UNCHANGED <<online, transit, pendingUpdates, pointsMap, missed, evicted>>
  BY DEF clientVars
<1>4. ASSUME NEW key \in DOMAIN truth', Printable(key)' PROVE Settled(key)'
  <2>1. truth'[key].type \notin Protection
    BY <1>4 DEF Printable
  <2>2. CASE key[1] = s /\ Latest(q, key, truth'[key])
    <3>1. todo'[key[1]] = q
      BY <1>2, <2>2
    <3>2. key \in Keys(q)
      BY <2>2, LatestKey
    <3> QED BY <2>2, <3>1, <3>2 DEF Settled
  <2>3. CASE key \in DOMAIN truth /\ truth'[key] = truth[key] /\ key \notin Keys(q)
    <3>1. Settled(key)
      BY <1>4, <2>3 DEF LatestInv, Printable
    <3>2. key[1] \in Stations
      BY <2>3 DEF PageInv, Wires
    <3>3. IsSeq(transit)
      BY DEF PageInv, Wires
    <3>4. CASE key[1] = s
      <4>1. todo'[key[1]] = q /\ key \notin Keys(todo[key[1]])
        BY <1>1, <1>2, <3>4, Nothing
      <4> QED BY <1>3, <2>3, <3>1, <3>3, <4>1, SettledStays
    <3>5. CASE key[1] # s
      <4>1. todo'[key[1]] = todo[key[1]]
        BY <1>2, <3>2, <3>5
      <4>2. key \in Keys(todo[key[1]]) => Latest(todo[key[1]], key, truth[key])
        BY <3>1 DEF Settled
      <4> QED BY <1>3, <2>3, <3>1, <3>3, <4>1, <4>2, SettledStays
    <3> QED BY <3>4, <3>5
  <2> QED BY <1>1, <2>1, <2>2, <2>3
<1> QED BY <1>3, <1>4 DEF LatestInv

(* The next broadcast moves the last report to the wire or loses it.       *)
LEMMA BroadcastLatest ==
  ASSUME PageInv, LatestInv, NEW s \in Stations, BroadcastNext(s) PROVE LatestInv'
<1> DEFINE q == todo[s]
           m == Head(q)
<1>1. /\ q # <<>> /\ todo' = [todo EXCEPT ![s] = Tail(@)] /\ Send(m)
      /\ UNCHANGED <<truth, online, pendingUpdates, pointsMap, evicted>>
  BY DEF BroadcastNext, Broadcast
<1>2. /\ IsSeq(q) /\ \A x \in Range(q) : x.station = s
      /\ IsSeq(transit) /\ DOMAIN truth \subseteq Stations \X Addresses
  BY DEF PageInv, Wires
<1>3. todo' = [r \in Stations |-> IF r = s THEN Tail(q) ELSE todo[r]]
  BY <1>1 DEF PageInv, Wires
<1>4. m.station = s
  BY <1>1, <1>2, RangeOfTail
<1>5. \A key : key \in Keys(q) <=> key \in Keys(Tail(q)) \/ Concerns(m, key)
  BY <1>1, <1>2, KeysOfTail
<1>6. \A key, r : Latest(q, key, r) =>
         \/ key \in Keys(Tail(q)) /\ Latest(Tail(q), key, r)
         \/ key \notin Keys(Tail(q)) /\ Concerns(m, key) /\ Repeats(m, r)
  BY <1>1, <1>2, LatestTail
<1> HIDE DEF q, m
<1>7. missed \subseteq missed' /\ (~online => transit' = transit)
  BY <1>1 DEF Send
<1>8. ASSUME NEW key \in DOMAIN truth, Printable(key) PROVE Settled(key)'
  <2>1. Settled(key)
    BY <1>8 DEF LatestInv
  <2>2. key[1] \in Stations
    BY <1>2
  <2>3. CASE ~Concerns(m, key)
    <3>1. transit' = transit \/ \E x : ~Concerns(x, key) /\ transit' = Append(transit, x)
      BY <1>1, <2>3 DEF Send
    <3>2. /\ key \in Keys(todo'[key[1]]) => Latest(todo'[key[1]], key, truth[key])
          /\ key \in Keys(todo[key[1]]) => key \in Keys(todo'[key[1]])
      <4>1. CASE key[1] = s
        <5>1. todo'[key[1]] = Tail(q) /\ todo[key[1]] = q
          BY <1>3, <4>1 DEF q
        <5> QED BY <1>5, <1>6, <2>1, <2>3, <5>1 DEF Settled
      <4>2. CASE key[1] # s
        <5>1. todo'[key[1]] = todo[key[1]]
          BY <1>3, <2>2, <4>2
        <5> QED BY <2>1, <5>1 DEF Settled
      <4> QED BY <4>1, <4>2
    <3> QED BY <1>1, <1>2, <1>7, <2>1, <3>1, <3>2, SettledStays
  <2>4. CASE Concerns(m, key)
    <3>1. key[1] = s
      BY <1>4, <2>4 DEF Concerns, Key
    <3>2. todo'[key[1]] = Tail(q) /\ todo[key[1]] = q
      BY <1>3, <3>1 DEF q
    <3>3. Latest(q, key, truth[key])
      BY <1>5, <2>1, <2>4, <3>2 DEF Settled
    <3>4. CASE key \in Keys(Tail(q))
      BY <1>1, <1>6, <3>2, <3>3, <3>4 DEF Settled
    <3>5. CASE key \notin Keys(Tail(q)) /\ online
      <4>1. Repeats(m, truth[key])
        BY <1>6, <3>3, <3>5
      <4>2. transit' = Append(transit, m)
        BY <1>1, <3>5 DEF Send
      <4>3. key \in Keys(transit') /\ Latest(transit', key, truth[key])
        BY <1>2, <2>4, <4>1, <4>2, KeysOfAppend, LatestAppend
      <4> QED BY <1>1, <3>2, <3>5, <4>3 DEF Settled
    <3>6. CASE key \notin Keys(Tail(q)) /\ ~online
      <4>1. key \in missed'
        BY <1>1, <2>4, <3>6, KeysOfOne DEF Send
      <4>2. key \notin Keys(transit')
        BY <1>7, <3>6, Nothing DEF LatestInv
      <4> QED BY <3>2, <3>6, <4>1, <4>2 DEF Settled
    <3> QED BY <3>4, <3>5, <3>6
  <2> QED BY <2>3, <2>4
<1>9. \A key : Printable(key)' <=> Printable(key)
  BY <1>1 DEF Printable
<1> QED BY <1>1, <1>7, <1>8, <1>9 DEF LatestInv

(* A command is sent.                                                      *)
LEMMA CommandLatest ==
  ASSUME PageInv, LatestInv, NEW s \in Stations, NEW c, SendCommand(s, c) PROVE LatestInv'
<1> DEFINE m == PacketCallback(s, TRUE)[1]
<1>1. /\ Send(m) /\ UNCHANGED <<todo, truth, online, pendingUpdates, pointsMap, evicted>>
  BY DEF SendCommand, Command
<1>2. \A key : ~Concerns(m, key)
  BY DEF PacketCallback, Concerns, Tells
<1> HIDE DEF m
<1>3. /\ missed \subseteq missed' /\ (~online => transit' = transit)
      /\ \A key : transit' = transit \/ \E x : ~Concerns(x, key) /\ transit' = Append(transit, x)
  BY <1>1, <1>2 DEF Send
<1>4. IsSeq(transit)
  BY DEF PageInv, Wires
<1>5. ASSUME NEW key \in DOMAIN truth, Printable(key) PROVE Settled(key)'
  <2>1. Settled(key)
    BY <1>5 DEF LatestInv
  <2>2. key \in Keys(todo[key[1]]) => Latest(todo[key[1]], key, truth[key])
    BY <2>1 DEF Settled
  <2> QED BY <1>1, <1>3, <1>4, <2>1, <2>2, SettledStays
<1>6. \A key : Printable(key)' <=> Printable(key)
  BY <1>1 DEF Printable
<1> QED BY <1>1, <1>3, <1>5, <1>6 DEF LatestInv

(* The connection is lost or made again.                                   *)
LEMMA DropLatest ==
  ASSUME PageInv, LatestInv, Drop \/ Reconnect PROVE LatestInv'
<1>1. /\ UNCHANGED <<todo, truth, pendingUpdates, pointsMap, evicted>>
      /\ transit' = <<>>
      /\ missed' = missed \cup Keys(transit)
  BY Nothing DEF Drop, Reconnect, pipeVars, LatestInv
<1>2. ASSUME NEW key \in DOMAIN truth, Printable(key) PROVE Settled(key)'
  <2>1. Settled(key)
    BY <1>2 DEF LatestInv
  <2>2. key \notin Keys(transit')
    BY <1>1, Nothing
  <2>3. Shows(key) => Shows(key)'
    BY <1>1 DEF Shows
  <2> QED BY <1>1, <2>1, <2>2, <2>3 DEF Settled
<1>3. \A key : Printable(key)' <=> Printable(key)
  BY <1>1 DEF Printable
<1> QED BY <1>1, <1>2, <1>3 DEF LatestInv

(* The page handles a message: the last report moves to the batch.         *)
LEMMA MessageLatest == ASSUME PageInv, LatestInv, OnMessage PROVE LatestInv'
<1> DEFINE m == Head(transit)
<1>1. /\ UNCHANGED <<todo, truth, online, pointsMap, evicted>>
      /\ transit # <<>> /\ transit' = Tail(transit)
      /\ missed' = missed \ Keys(<<m>>)
      /\ \/ HandlePoint(m) \/ HandlePacket(m) \/ HandleControlResult(m) \/ HandleMalformed(m)
  BY DEF OnMessage, pipeVars
<1>2. IsSeq(transit) /\ IsSeq(pendingUpdates) /\ \A x \in Range(transit) : Sent(x)
  BY DEF PageInv, Wires
<1>3. Sent(m)
  BY <1>1, <1>2, RangeOfTail
<1>4. \A key : key \in Keys(transit) <=> key \in Keys(Tail(transit)) \/ Concerns(m, key)
  BY <1>1, <1>2, KeysOfTail
<1>5. \A key, r : Latest(transit, key, r) =>
         \/ key \in Keys(Tail(transit)) /\ Latest(Tail(transit), key, r)
         \/ key \notin Keys(Tail(transit)) /\ Concerns(m, key) /\ Repeats(m, r)
  BY <1>1, <1>2, LatestTail
<1> HIDE DEF m
<1>6. pendingUpdates' = pendingUpdates \/ pendingUpdates' = Append(pendingUpdates, m)
  BY <1>1 DEF HandlePoint, HandlePacket, HandleControlResult, HandleMalformed
<1>7. /\ online
      /\ \A key : key \in missed' <=> key \in missed /\ ~Concerns(m, key)
  BY <1>1, KeysOfOne DEF LatestInv
<1>8. ASSUME NEW key \in DOMAIN truth, Printable(key) PROVE Settled(key)'
  <2> DEFINE t == todo[key[1]]
             r == truth[key]
  <2>1. Settled(key)
    BY <1>8 DEF LatestInv
  <2>2. key \in Keys(t) => Latest(t, key, r)
    BY <2>1 DEF Settled
  <2>3. CASE key \in Keys(t)
    BY <1>1, <2>2, <2>3 DEF Settled
  <2>4. CASE key \notin Keys(t) /\ key \in Keys(Tail(transit))
    <3>1. key \in Keys(transit) /\ Latest(transit, key, r)
      BY <1>4, <2>1, <2>4 DEF Settled
    <3>2. Latest(Tail(transit), key, r)
      BY <1>5, <2>4, <3>1
    <3> QED BY <1>1, <2>4, <3>2 DEF Settled
  <2>5. CASE key \notin Keys(t) /\ key \notin Keys(Tail(transit)) /\ Concerns(m, key)
    <3>1. Latest(transit, key, r)
      BY <1>4, <2>1, <2>5 DEF Settled
    <3>2. Repeats(m, r)
      BY <1>5, <2>5, <3>1
    <3>3. m.type \in {"telemetry", "digital", "counter"}
      <4>1. Wellformed(m)
        BY <1>3, <2>5 DEF Sent, Concerns, Tells
      <4>2. m.type # "malformed"
        BY <1>8, <3>2 DEF Repeats, Printable
      <4> QED BY <4>1, <4>2 DEF Wellformed, MessageTypes
    <3>4. pendingUpdates' = Append(pendingUpdates, m)
      BY <1>1, <3>3 DEF HandlePoint, HandlePacket, HandleControlResult, HandleMalformed
    <3>5. key \in Keys(pendingUpdates') /\ Latest(pendingUpdates', key, r)
      BY <1>2, <2>5, <3>2, <3>4, KeysOfAppend, LatestAppend
    <3> QED BY <1>1, <2>5, <3>5 DEF Settled
  <2>6. CASE key \notin Keys(t) /\ key \notin Keys(Tail(transit)) /\ ~Concerns(m, key)
    <3>1. key \notin Keys(transit)
      BY <1>4, <2>6
    <3>2. key \in Keys(pendingUpdates') <=> key \in Keys(pendingUpdates)
      BY <1>2, <1>6, <2>6, KeysOfAppend
    <3>3. Latest(pendingUpdates, key, r) => Latest(pendingUpdates', key, r)
      BY <1>2, <1>6, <2>6, LatestAppend
    <3>4. key \in missed' <=> key \in missed
      BY <1>7, <2>6
    <3>5. Shows(key) => Shows(key)'
      BY <1>1 DEF Shows
    <3> QED BY <1>1, <2>1, <2>6, <3>1, <3>2, <3>3, <3>4, <3>5 DEF Settled
  <2> QED BY <2>3, <2>4, <2>5, <2>6
<1>9. \A key : Printable(key)' <=> Printable(key)
  BY <1>1 DEF Printable
<1> QED BY <1>1, <1>7, <1>8, <1>9 DEF LatestInv

(* A frame shows the last update of an address, unless it removes the      *)
(* point.                                                                  *)
LEMMA FrameLatest == ASSUME PageInv, LatestInv, AnimationFrame PROVE LatestInv'
<1> DEFINE n == Len(pendingUpdates)
<1>1. /\ UNCHANGED <<todo, truth, online, transit, missed>> /\ pendingUpdates' = <<>>
  BY DEF AnimationFrame, pipeVars
<1>2. PICK second, updated :
         /\ Applied(updated, pointsMap, pendingUpdates, n, second)
         /\ Range(pointsMap') \subseteq Range(updated)
         /\ evicted' = (evicted \cup KeysOf(updated)) \ KeysOf(pointsMap')
  BY FrameParts
<1>3. DOMAIN pendingUpdates = 1..n
  BY SeqParts DEF PageInv, Wires
<1>4. \A i \in 1..n : Tells(pendingUpdates[i])
  BY <1>3 DEF PageInv, Wires, IsPointUpdate, Tells, Range
<1> HIDE DEF n
<1>5. \A key : key \in Keys(pendingUpdates) <=> \E i \in 1..n : Key(pendingUpdates[i]) = key
  BY <1>3, <1>4, KeysIn DEF Concerns
<1>6. \A key : key \in KeysOf(updated)
                 <=> key \in KeysOf(pointsMap) \/ key \in Keys(pendingUpdates)
  BY <1>2, <1>5 DEF Applied
<1>7. ASSUME NEW key \in KeysOf(pointsMap')
      PROVE  \E j \in DOMAIN pointsMap' :
                /\ pointsMap'[j].key = key
                /\ Updated(pointsMap'[j], pointsMap, pendingUpdates, n, second)
  <2>1. PICK j \in DOMAIN pointsMap' : pointsMap'[j].key = key
    BY DEF KeysOf
  <2>2. pointsMap'[j] \in Range(updated)
    BY <1>2 DEF Range
  <2> QED BY <1>2, <2>1, <2>2 DEF Applied
<1>8. ASSUME NEW key \in DOMAIN truth, Printable(key) PROVE Settled(key)'
  <2>1. Settled(key)
    BY <1>8 DEF LatestInv
  <2>2. key \notin Keys(pendingUpdates')
    BY <1>1, Nothing
  <2>3. CASE key \in Keys(todo[key[1]]) \cup Keys(transit)
    BY <1>1, <2>1, <2>2, <2>3 DEF Settled
  <2>4. CASE key \in missed
    BY <1>1, <2>1, <2>2, <2>4 DEF Settled
  <2>5. ASSUME key \in Keys(pendingUpdates), Latest(pendingUpdates, key, truth[key])
        PROVE  Shows(key)' \/ key \in evicted'
    <3>1. CASE key \notin KeysOf(pointsMap')
      BY <1>2, <1>6, <2>5, <3>1
    <3>2. CASE key \in KeysOf(pointsMap')
      <4>1. PICK j \in DOMAIN pointsMap' :
               /\ pointsMap'[j].key = key
               /\ Updated(pointsMap'[j], pointsMap, pendingUpdates, n, second)
        BY <1>7, <3>2
      <4>2. PICK k \in 1..n :
               /\ Key(pendingUpdates[k]) = key /\ Repeats(pendingUpdates[k], truth[key])
               /\ \A i \in 1..n : Key(pendingUpdates[i]) = key => i <= k
        BY <1>3, <1>4, <2>5 DEF Latest, Concerns
      <4>3. PICK i \in 1..n :
               /\ pointsMap'[j] = Entry(pendingUpdates[i], second)
               /\ \A h \in 1..n : Key(pendingUpdates[h]) = key => h <= i
        BY <4>1, <4>2 DEF Updated
      <4>4. Key(pendingUpdates[i]) = key
        BY <4>1, <4>3 DEF Entry
      <4>5. i = k
        <5>1. n \in Nat
          BY SeqParts DEF PageInv, Wires, n
        <5>2. i <= k /\ k <= i
          BY <4>2, <4>3, <4>4
        <5> QED BY <5>1, <5>2
      <4>6. /\ pointsMap'[j].type = truth[key].type
            /\ Agrees(pointsMap'[j].value, truth[key])
            /\ pointsMap'[j].quality = truth[key].quality
        BY <1>8, <4>2, <4>3, <4>5 DEF Entry, Repeats, Printable
      <4> QED BY <1>1, <4>1, <4>6 DEF Shows
    <3> QED BY <3>1, <3>2
  <2>6. ASSUME key \notin Keys(pendingUpdates), Shows(key)
        PROVE  Shows(key)' \/ key \in evicted'
    <3>1. PICK i \in DOMAIN pointsMap :
             /\ pointsMap[i].key = key
             /\ pointsMap[i].type = truth[key].type
             /\ Agrees(pointsMap[i].value, truth[key])
             /\ pointsMap[i].quality = truth[key].quality
      BY <2>6 DEF Shows
    <3>2. key \in KeysOf(updated)
      BY <1>6, <3>1 DEF KeysOf
    <3>3. CASE key \notin KeysOf(pointsMap')
      BY <1>2, <3>2, <3>3
    <3>4. CASE key \in KeysOf(pointsMap')
      <4>1. PICK j \in DOMAIN pointsMap' :
               /\ pointsMap'[j].key = key
               /\ Updated(pointsMap'[j], pointsMap, pendingUpdates, n, second)
        BY <1>7, <3>4
      <4>2. pointsMap'[j] \in Range(pointsMap)
        BY <1>5, <2>6, <4>1 DEF Updated, Entry
      <4>3. pointsMap'[j] = pointsMap[i]
        BY <3>1, <4>1, <4>2 DEF PageInv, Points, Distinct, Range
      <4> QED BY <1>1, <3>1, <4>1, <4>3 DEF Shows
    <3> QED BY <3>3, <3>4
  <2>7. ASSUME key \notin Keys(pendingUpdates), key \in evicted PROVE key \in evicted'
    <3>1. key \notin KeysOf(updated)
      BY <1>6, <2>7 DEF LatestInv
    <3>2. key \notin KeysOf(pointsMap')
      BY <1>2, <3>1 DEF KeysOf, Range
    <3> QED BY <1>2, <2>7, <3>2
  <2>8. CASE key \notin Keys(todo[key[1]]) \cup Keys(transit) \cup missed
    <3>1. Shows(key)' \/ key \in evicted'
      BY <2>1, <2>5, <2>6, <2>7, <2>8 DEF Settled
    <3> QED BY <1>1, <2>2, <2>8, <3>1 DEF Settled
  <2> QED BY <2>3, <2>4, <2>8
<1>9. \A key : Printable(key)' <=> Printable(key)
  BY <1>1 DEF Printable
<1> QED BY <1>1, <1>2, <1>8, <1>9 DEF LatestInv

(* Every step keeps it.                                                    *)
LEMMA NextLatest == ASSUME PageInv, LatestInv, [Next]_vars PROVE LatestInv'
<1>1. ASSUME NEW s \in Stations, StationSends(s) PROVE LatestInv'
  BY <1>1, SourceOf, ParseLatest
<1>2. ASSUME NEW s \in Stations, BroadcastNext(s) PROVE LatestInv'
  BY <1>2, BroadcastLatest
<1>3. ASSUME NEW s \in Stations, NEW c \in Commands, SendCommand(s, c) PROVE LatestInv'
  BY <1>3, CommandLatest
<1>4. CASE OnMessage
  BY <1>4, MessageLatest
<1>5. CASE AnimationFrame
  BY <1>5, FrameLatest
<1>6. CASE Drop \/ Reconnect
  BY <1>6, DropLatest
<1>7. CASE UNCHANGED vars
  <2>1. UNCHANGED <<todo, truth, online, transit, pendingUpdates, pointsMap, missed, evicted>>
    BY <1>7 DEF vars, pipeVars, clientVars
  <2> QED BY <2>1 DEF LatestInv, Settled, Shows, Printable
<1> QED BY <1>1, <1>2, <1>3, <1>4, <1>5, <1>6, <1>7 DEF Next

(* Once everything a station sent has arrived, the page shows for each of  *)
(* its addresses what the station last said of it, a measured value to six *)
(* digits, unless the message was lost with the connection, could not be   *)
(* parsed, or the point was cleaned up: parseASDU, the callbacks of        *)
(* main.cpp, handleMessage and processBatchUpdates together.               *)
THEOREM LastReportShown == Spec => []ShownIsLatest
<1>1. Init => LatestInv
  <2> SUFFICES ASSUME Init PROVE LatestInv
    OBVIOUS
  <2>1. truth = <<>> /\ evicted = {} /\ online = TRUE
    BY DEF Init, PipeInit
  <2>2. DOMAIN truth = {}
    BY <2>1
  <2> QED BY <2>1, <2>2 DEF LatestInv
<1>2. PageInv /\ LatestInv /\ [Next]_vars => LatestInv'
  BY NextLatest
<1>3. ASSUME PageInv, LatestInv PROVE ShownIsLatest
  <2> SUFFICES ASSUME NEW key \in DOMAIN truth, Printable(key), AtRest(key[1])
               PROVE  Shows(key) \/ key \in missed \cup evicted
    BY DEF ShownIsLatest
  <2>1. Settled(key)
    BY <1>3 DEF LatestInv
  <2>2. key \notin Keys(todo[key[1]])
    BY Nothing DEF AtRest
  <2>3. key \notin Keys(transit) \cup Keys(pendingUpdates)
    BY <1>3 DEF AtRest, PageInv, Wires
  <2> QED BY <2>1, <2>2, <2>3 DEF Settled
<1> QED BY <1>1, <1>2, <1>3, PageHolds, PTL DEF Spec
=============================================================================
