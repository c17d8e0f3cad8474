----------------------------- MODULE AsduPipeline -----------------------------
(***************************************************************************)
(* The way of an ASDU from the library's thread of a station's handle to   *)
(* the messages broadcast to the browsers: asduReceivedHandler and         *)
(* parseASDU (iec104/connection.cpp), then the data, ASDU, control result  *)
(* and packet callbacks (main.cpp).  One thread per station runs it; the   *)
(* commands are sent by the threads of the HTTP server.                    *)
(*                                                                         *)
(* An information object is its address, a value, a quality and the time   *)
(* of the event; carry, sequence number and transient flag are part of the *)
(* value.  A measured value is a count of some decimal unit, small enough  *)
(* for every value in use.  What the station does is external.             *)
(***************************************************************************)
EXTENDS Integers, Sequences, FiniteSets, SequencesExt

CONSTANTS
    Stations,
    Asdus,        \* the ASDUs a station may send on its own
    Commands,     \* [type, ioa] of the commands the operator sends
    Times,        \* system times (ms) at which an ASDU may be parsed
    Addresses,    \* the object addresses in use
    NaN, Infinite, \* short floats that are not finite numbers
    Decades,      \* the powers of ten, up to that of the values in use
    NoAsdu,       \* no ASDU parsed yet
    PackWidth,    \* points in a packed ASDU (16 in the code)
    MaxEvents     \* bound: commands, and ASDUs the stations send on their own

ASSUME PipelineAssumption ==
    /\ Times \subseteq Nat
    /\ \A a \in Asdus : \A k \in DOMAIN a.objects : a.objects[k].event \in Nat
    /\ PackWidth \in Nat
    /\ MaxEvents \in Nat

VARIABLES
    todo,      \* per station: the broadcasts its thread still has to make
    inHand,    \* per station: the last ASDU parsed, when, and its points
    received,  \* per station: how many ASDUs were parsed
    owed,      \* per station: its answers to commands, not yet sent
    events,    \* environment counter
    truth,     \* history: the last report of each <<station, address>>
    answers    \* history: the answers given, [station, ioa, success]

pipeVars == <<todo, inHand, received, owed, events, truth, answers>>
-----------------------------------------------------------------------------
(* The types parseASDU decodes, by family.                                 *)
SinglePoint   == {"M_SP_NA_1", "M_SP_TA_1", "M_SP_TB_1"}
DoublePoint   == {"M_DP_NA_1", "M_DP_TA_1", "M_DP_TB_1"}
StepPosition  == {"M_ST_NA_1", "M_ST_TA_1", "M_ST_TB_1"}
Bitstring     == {"M_BO_NA_1", "M_BO_TA_1", "M_BO_TB_1"}
Normalized    == {"M_ME_NA_1", "M_ME_TA_1", "M_ME_TD_1"}
NoQuality     == {"M_ME_ND_1"}
Scaled        == {"M_ME_NB_1", "M_ME_TB_1", "M_ME_TE_1"}
ShortFloat    == {"M_ME_NC_1", "M_ME_TC_1", "M_ME_TF_1"}
Counter       == {"M_IT_NA_1", "M_IT_TA_1", "M_IT_TB_1", "S_IT_TC_1"}
SingleEvent   == {"M_EP_TA_1", "M_EP_TD_1"}
PackedEvents  == {"M_EP_TB_1", "M_EP_TC_1", "M_EP_TE_1", "M_EP_TF_1"}
PackedPoints  == {"M_PS_NA_1"}

(* How a type is time tagged; M_EP_TA_1, TB and TC carry a CP24 tag that   *)
(* is not read.                                                            *)
WithCP24 == {"M_SP_TA_1", "M_DP_TA_1", "M_ST_TA_1", "M_BO_TA_1", "M_ME_TA_1",
             "M_ME_TB_1", "M_ME_TC_1", "M_IT_TA_1"}
WithCP56 == {"M_SP_TB_1", "M_DP_TB_1", "M_ST_TB_1", "M_BO_TB_1", "M_ME_TD_1",
             "M_ME_TE_1", "M_ME_TF_1", "M_IT_TB_1", "S_IT_TC_1", "M_EP_TD_1",
             "M_EP_TE_1", "M_EP_TF_1"}

Minute == 60000
MinuteOf(t) == (t \div Minute) % 60

(* extractCP24Timestamp: a CP24 tag has the minute and, below the second,  *)
(* the millisecond of the event; the hour is that of the clock, the hour   *)
(* before or the hour after.                                               *)
WithoutWraparound(d) == d                                      \* mutant
Wraparound(d) == IF d < -30 THEN d + 60 ELSE IF d > 30 THEN d - 60 ELSE d
CP24Time(minute, ms, now) ==
    now + Wraparound(minute - MinuteOf(now)) * Minute + ms

(* The timestamp given to an object of an ASDU parsed at `now'.            *)
TimeOf(type, event, now) ==
    IF type \in WithCP24 THEN CP24Time(MinuteOf(event), event % 1000, now)
    ELSE IF type \in WithCP56 THEN event ELSE now
-----------------------------------------------------------------------------
(* parseASDU: one point per object.                                        *)

Point(a, k, kind, value, quality, now) ==
    [kind |-> kind, type |-> a.type, ioa |-> a.objects[k].ioa, value |-> value,
     quality |-> quality, timestamp |-> TimeOf(a.type, a.objects[k].event, now)]
WithQuality(a, kind, now) ==
    [k \in DOMAIN a.objects |->
        Point(a, k, kind, a.objects[k].value, a.objects[k].quality, now)]
QualityGood(a, kind, now) ==
    [k \in DOMAIN a.objects |-> Point(a, k, kind, a.objects[k].value, 0, now)]

DecodeSinglePoint(a, now)  == WithQuality(a, "digital", now)
DecodeDoublePoint(a, now)  == QualityGood(a, "digital", now)
DecodeStepPosition(a, now) == QualityGood(a, "step", now)
DecodeBitstring(a, now)    == QualityGood(a, "bitstring", now)
DecodeNormalized(a, now)   == WithQuality(a, "telemetry", now)
DecodeNoQuality(a, now)    == QualityGood(a, "telemetry", now)
DecodeScaled(a, now)       == WithQuality(a, "telemetry", now)
DecodeShortFloat(a, now)   == WithQuality(a, "telemetry", now)
DecodeCounter(a, now)      == QualityGood(a, "counter", now)
DecodeSingleEvent(a, now)  == QualityGood(a, "protection", now)
DecodePackedEvents(a, now) ==
    [k \in DOMAIN a.objects |-> Point(a, k, "protection", 0, 0, now)]

(* The measured values, which the program keeps as doubles.                *)
Measured == Normalized \cup NoQuality \cup Scaled \cup ShortFloat
NonFinite == {NaN, Infinite}

(* operator<< of a double: six significant digits, ties to even.           *)
Million == 1000000
Magnitude(v) == IF v < 0 THEN -v ELSE v
InDecade(n, u) == Million * u <= 10 * n /\ n < Million * u
LastDigit(n) == IF n < Million THEN 1 ELSE CHOOSE u \in Decades : InDecade(n, u)
RoundTo(n, u) ==
    LET rest == n % u
        down == 2 * rest < u \/ (2 * rest = u /\ (n \div u) % 2 = 0) IN
    IF down THEN n - rest ELSE n - rest + u
SixDigits(v) ==
    LET n == Magnitude(v)
        shown == RoundTo(n, LastDigit(n)) IN
    IF v < 0 THEN -shown ELSE shown

(* PackWidth points at consecutive addresses for each object; a value is   *)
(* the set of the points that are on.  Mutant: addresses from base + 1.    *)
Unpack(a, now, first) ==
    [n \in 1..(Len(a.objects) * PackWidth) |->
        LET k == (n - 1) \div PackWidth + 1
            j == (n - 1) % PackWidth
            on == IF j \in a.objects[k].value THEN 1 ELSE 0 IN
        [Point(a, k, "digital", on, a.objects[k].quality, now)
            EXCEPT !.ioa = @ + first + j]]
UnpackFromNext(a, now) == Unpack(a, now, 1)                    \* mutant
DecodePackedPoints(a, now) == Unpack(a, now, 0)

Decode(a, now) ==
    CASE a.type \in SinglePoint  -> DecodeSinglePoint(a, now)
      [] a.type \in DoublePoint  -> DecodeDoublePoint(a, now)
      [] a.type \in StepPosition -> DecodeStepPosition(a, now)
      [] a.type \in Bitstring    -> DecodeBitstring(a, now)
      [] a.type \in Normalized   -> DecodeNormalized(a, now)
      [] a.type \in NoQuality    -> DecodeNoQuality(a, now)
      [] a.type \in Scaled       -> DecodeScaled(a, now)
      [] a.type \in ShortFloat   -> DecodeShortFloat(a, now)
      [] a.type \in Counter      -> DecodeCounter(a, now)
      [] a.type \in SingleEvent  -> DecodeSingleEvent(a, now)
      [] a.type \in PackedEvents -> DecodePackedEvents(a, now)
      [] a.type \in PackedPoints -> DecodePackedPoints(a, now)
      [] OTHER -> <<>>
-----------------------------------------------------------------------------
(* The callbacks of main: one broadcast per point.  The text written for a *)
(* protection event lacks a quote, and `nan', `inf' are not JSON either.   *)
(* What else is a double is written with six digits; integers are exact.   *)
MessageType(p) ==
    CASE p.value \in NonFinite \/ p.kind = "protection" -> "malformed"
      [] p.value \notin NonFinite /\ p.kind \in {"step", "bitstring"} -> "telemetry"
      [] OTHER -> p.kind
Written(p) ==
    IF p.kind = "telemetry" /\ p.value \notin NonFinite THEN SixDigits(p.value) ELSE p.value
PointMessage(s, p, n) ==
    [type |-> MessageType(p), station |-> s, ioa |-> p.ioa,
     ptype |-> p.type, value |-> Written(p), quality |-> p.quality, asdu |-> n]
Messages(s, points, n) ==
    [k \in DOMAIN points |-> PointMessage(s, points[k], n)]

(* The elements of a sequence at some positions, in their order.           *)
Kept(q, positions) ==
    FoldLeftDomain(LAMBDA kept, k : IF k \in positions THEN Append(kept, q[k]) ELSE kept,
                   <<>>, q)

DataCallback(s, points, n) ==
    LET taken == {k \in DOMAIN points : points[k].kind \in {"digital", "telemetry"}} IN
    Messages(s, Kept(points, taken), n)
ASDUDataCallback(s, points, n) == Messages(s, points, n)
PacketCallback(s, sent) == <<[type |-> "packet", station |-> s, sent |-> sent]>>
ControlResultCallback(s, ioa, positive) ==
    <<[type |-> "control_result", station |-> s, ioa |-> ioa, success |-> positive]>>

IsControlResponse(a) == a.cot \in {"con", "term"} /\ a.objects # <<>>
(* Mutant: any answer counts as a success.                                 *)
AnyAnswer(a) == TRUE
IsPositive(a) == ~a.negative

(* What the thread broadcasts for ASDU a, in order: the raw message, then  *)
(* either the control result or the points, twice if the legacy callback   *)
(* takes them.                                                             *)
Broadcasts(s, a, points, n) ==
    PacketCallback(s, FALSE)
    \o IF IsControlResponse(a)
       THEN ControlResultCallback(s, a.objects[1].ioa, IsPositive(a))
       ELSE DataCallback(s, points, n) \o ASDUDataCallback(s, points, n)
-----------------------------------------------------------------------------
PipeInit ==
    /\ todo = [s \in Stations |-> <<>>]
    /\ inHand = [s \in Stations |-> NoAsdu]
    /\ received = [s \in Stations |-> 0]
    /\ owed = [s \in Stations |-> <<>>]
    /\ events = 0
    /\ truth = <<>>
    /\ answers = {}

(* What ASDU a says, read off the message and not off Decode: the objects  *)
(* that are about an address, the report of the last of them, and the      *)
(* results it gives of commands.                                           *)
Covers(a, k) ==
    LET last == IF a.type \in PackedPoints THEN PackWidth - 1 ELSE 0 IN
    a.objects[k].ioa .. (a.objects[k].ioa + last)
About(a, ioa) == {k \in DOMAIN a.objects : ioa \in Covers(a, k)}
Qualified == SinglePoint \cup Normalized \cup Scaled \cup ShortFloat \cup PackedPoints
Report(a, ioa, n) ==
    LET o == a.objects[CHOOSE k \in About(a, ioa) :
                            \A j \in About(a, ioa) : j <= k]
        bit == IF ioa - o.ioa \in o.value THEN 1 ELSE 0 IN
    [type |-> a.type, asdu |-> n,
     value |-> IF a.type \in PackedPoints THEN bit ELSE o.value,
     quality |-> IF a.type \in Qualified THEN o.quality ELSE 0]
Reported(s, a) == {key \in {s} \X Addresses : About(a, key[2]) # {}}
Results(s, a) ==
    IF a.cot \notin {"con", "term"} THEN {}
    ELSE {[station |-> s, ioa |-> a.objects[k].ioa, success |-> ~a.negative] :
              k \in DOMAIN a.objects}

(* The objects of an ASDU are a sequence, about the addresses in use.      *)
ASSUME ObjectsAssumption ==
    \A a \in Asdus :
        /\ a.objects \in Seq({a.objects[k] : k \in DOMAIN a.objects})
        /\ \A k \in DOMAIN a.objects :
              a.objects[k].ioa \in Nat /\ Covers(a, k) \subseteq Addresses

(* A measured value is not finite, or a number, and there is a power of    *)
(* ten for it.                                                             *)
Countable(v) ==
    /\ v \in Int
    /\ Magnitude(v) < Million \/ \E u \in Decades : InDecade(Magnitude(v), u)
ASSUME MeasuredAssumption ==
    /\ Decades \subseteq Nat \ {0}
    /\ \A a \in Asdus : a.type \in Measured =>
          \A k \in DOMAIN a.objects :
              a.objects[k].value \in NonFinite \/ Countable(a.objects[k].value)

(* parseASDU, in the library's thread of the station's handle.             *)
Parse(s, a, now) ==
    LET response == IsControlResponse(a)
        points == IF response THEN <<>> ELSE Decode(a, now)
        told == IF response \/ points = <<>> THEN {} ELSE Reported(s, a)
        n == received[s] + 1 IN
    /\ todo[s] = <<>>
    /\ inHand' = [inHand EXCEPT ![s] = [asdu |-> a, now |-> now,
                                             points |-> points]]
    /\ received' = [received EXCEPT ![s] = n]
    /\ todo' = [todo EXCEPT ![s] = Broadcasts(s, a, points, n)]
    /\ truth' = [key \in DOMAIN truth \cup told |->
                    IF key \in told THEN Report(a, key[2], n) ELSE truth[key]]
    /\ answers' = answers \cup Results(s, a)

(* The station reports on its own, at a time not before its events.        *)
Receive(s, a, now) ==
    /\ events < MaxEvents
    /\ \A k \in DOMAIN a.objects : a.objects[k].event <= now
    /\ Parse(s, a, now)
    /\ events' = events + 1
    /\ UNCHANGED owed

(* A command goes out through the library, which hands the message to      *)
(* rawMessageHandler in the caller's thread (the web client's part does    *)
(* that broadcast); the station will confirm and terminate or refuse it.   *)
Answer(c, cot, negative) ==
    [type |-> c.type, cot |-> cot, negative |-> negative,
     objects |-> <<[ioa |-> c.ioa, value |-> 0, quality |-> 0, event |-> 0]>>]
Command(s, c) ==
    /\ events < MaxEvents
    /\ events' = events + 1
    /\ \/ owed' = [owed EXCEPT ![s] = @ \o <<Answer(c, "con", FALSE),
                                            Answer(c, "term", FALSE)>>]
       \/ owed' = [owed EXCEPT ![s] = Append(@, Answer(c, "con", TRUE))]
    /\ UNCHANGED <<todo, inHand, received, truth, answers>>

ReceiveAnswer(s, now) ==
    /\ owed[s] # <<>>
    /\ Parse(s, Head(owed[s]), now)
    /\ owed' = [owed EXCEPT ![s] = Tail(@)]
    /\ UNCHANGED events

(* The thread makes its next broadcast; what becomes of the message is the *)
(* web client's part.                                                      *)
Broadcast(s) ==
    /\ todo[s] # <<>>
    /\ todo' = [todo EXCEPT ![s] = Tail(@)]
    /\ UNCHANGED <<inHand, received, owed, events, truth, answers>>
-----------------------------------------------------------------------------
(* A CP24 tag of an event not older than 29 minutes gives a time less than *)
(* a minute from the event: the wrap-around of extractCP24Timestamp picks  *)
(* the right hour.  (At 30 minutes the tag no longer tells; the seconds of *)
(* the tag are not read, hence the minute.)                                *)
TagTimeClose ==
    \A s \in Stations : inHand[s] # NoAsdu =>
        LET a == inHand[s].asdu IN
        \A k \in DOMAIN inHand[s].points :
            LET off == inHand[s].points[k].timestamp - a.objects[k].event IN
            a.type \in WithCP24 /\ inHand[s].now - a.objects[k].event <= 29 * Minute
                => -Minute < off /\ off < Minute
=============================================================================
