------------------------------ MODULE WebClient ------------------------------
(***************************************************************************)
(* One browser page (web/index.html) at the end of the pipeline: handle-   *)
(* Message, the batching of point updates on animation frames, the limit   *)
(* on the number of points, the packet monitor and the notices of control  *)
(* results; composed with AsduPipeline, which makes the messages.          *)
(*                                                                         *)
(* The server's queue of the page (SseBroadcast) appears as a sequence of  *)
(* messages in transit, which a drop of the connection loses; EventSource  *)
(* reconnects, and what is broadcast meanwhile never arrives.              *)
(***************************************************************************)
EXTENDS AsduPipeline

CONSTANTS
    MAX_POINTS,                \* points kept by a cleanup
    POINTS_CLEANUP_THRESHOLD,  \* points above which a cleanup runs
    MaxPackets,                \* length of the packet monitor (500)
    MaxDrops,                  \* bound: losses of the connection
    MaxSeconds                 \* bound: the page's clock

ASSUME ClientAssumption ==
    /\ MAX_POINTS \in Nat /\ POINTS_CLEANUP_THRESHOLD \in Nat
    /\ MAX_POINTS <= POINTS_CLEANUP_THRESHOLD
    /\ MaxPackets \in Nat /\ MaxDrops \in Nat /\ MaxSeconds \in Nat

VARIABLES
    online,           \* the server has the page's connection registered
    transit,          \* messages broadcast to the page, not yet delivered
    pendingUpdates,   \* point messages waiting for an animation frame
    updateScheduled,  \* the flag that keeps a second frame from being asked for
    updateRafId,      \* an animation frame has been asked for
    pointsMap,        \* the points, in the order in which they were added
    commPackets,      \* the packet monitor
    notices,          \* history: the results shown to the operator
    clock, drops,     \* the page's clock in seconds at its last frame; bound
    missed,           \* history: addresses whose last message was lost
    evicted           \* history: addresses removed by a cleanup

clientVars == <<online, transit, pendingUpdates, updateScheduled, updateRafId, pointsMap,
                commPackets, notices, clock, drops, missed, evicted>>
vars == <<pipeVars, clientVars>>

Key(m) == <<m.station, m.ioa>>
IsPointUpdate(m) == m.type \in {"telemetry", "digital", "counter"}
Keys(ms) ==
    {Key(ms[k]) : k \in {j \in DOMAIN ms : ms[j].type \notin {"packet", "control_result"}}}

KeysOf(points) == {points[k].key : k \in DOMAIN points}

Init ==
    /\ PipeInit
    /\ online = TRUE
    /\ transit = <<>> /\ pendingUpdates = <<>> /\ updateScheduled = FALSE
    /\ updateRafId = FALSE
    /\ pointsMap = <<>> /\ commPackets = <<>> /\ notices = {}
    /\ clock = 0 /\ drops = 0
    /\ missed = {} /\ evicted = {}
-----------------------------------------------------------------------------
(* The transport.                                                          *)

(* HttpServer::broadcast, as far as this page is concerned.                *)
Send(m) ==
    /\ transit' = IF online THEN Append(transit, m) ELSE transit
    /\ missed' = IF online THEN missed ELSE missed \cup Keys(<<m>>)

BroadcastNext(s) ==
    /\ Broadcast(s)
    /\ Send(Head(todo[s]))
    /\ UNCHANGED <<online, pendingUpdates, updateScheduled, updateRafId,
                   pointsMap, commPackets, notices, clock, drops, evicted>>

SendCommand(s, c) ==
    /\ Command(s, c)
    /\ Send(PacketCallback(s, TRUE)[1])
    /\ UNCHANGED <<online, pendingUpdates, updateScheduled, updateRafId,
                   pointsMap, commPackets, notices, clock, drops, evicted>>

StationSends(s) ==
    /\ \E now \in Times : ReceiveAnswer(s, now) \/ \E a \in Asdus : Receive(s, a, now)
    /\ UNCHANGED clientVars

Drop ==
    /\ online /\ drops < MaxDrops
    /\ drops' = drops + 1
    /\ online' = FALSE
    /\ transit' = <<>>
    /\ missed' = missed \cup Keys(transit)
    /\ UNCHANGED <<pipeVars, pendingUpdates, updateScheduled, updateRafId,
                   pointsMap, commPackets, notices, clock, evicted>>

Reconnect ==
    /\ ~online /\ online' = TRUE
    /\ UNCHANGED <<pipeVars, transit, pendingUpdates, updateScheduled, updateRafId,
                   pointsMap, commPackets, notices, clock, drops, missed, evicted>>
-----------------------------------------------------------------------------
(* onmessage and handleMessage.  What JSON.parse refuses is dropped.       *)
scheduleUpdate ==
    \/ updateScheduled /\ UNCHANGED <<updateScheduled, updateRafId>>
    \/ ~updateScheduled /\ updateScheduled' = TRUE /\ updateRafId' = TRUE
HandlePoint(m) ==
    /\ IsPointUpdate(m)
    /\ pendingUpdates' = Append(pendingUpdates, m)
    /\ scheduleUpdate
    /\ UNCHANGED <<commPackets, notices>>

MonitorGrows(packets) == packets                                   \* mutant
Monitor(packets) ==
    IF Len(packets) > MaxPackets THEN Tail(packets) ELSE packets
HandlePacket(m) ==
    /\ m.type = "packet"
    /\ commPackets' = Monitor(Append(commPackets, m))
    /\ UNCHANGED <<pendingUpdates, updateScheduled, updateRafId, notices>>

HandleControlResult(m) ==
    /\ m.type = "control_result"
    /\ notices' = notices \cup {[station |-> m.station, ioa |-> m.ioa,
                                 success |-> m.success]}
    /\ UNCHANGED <<pendingUpdates, updateScheduled, updateRafId, commPackets>>

HandleMalformed(m) ==
    /\ m.type = "malformed"
    /\ UNCHANGED <<pendingUpdates, updateScheduled, updateRafId, commPackets, notices>>

OnMessage ==
    /\ transit # <<>>
    /\ transit' = Tail(transit)
    /\ missed' = missed \ Keys(<<Head(transit)>>)
    /\ LET m == Head(transit) IN
        \/ HandlePoint(m)
        \/ HandlePacket(m)
        \/ HandleControlResult(m)
        \/ HandleMalformed(m)
    /\ UNCHANGED <<pipeVars, online, pointsMap, clock, drops, evicted>>
-----------------------------------------------------------------------------
(* processBatchUpdates: the updates in order, each to the point of its key *)
(* or to a new one at the end, marked with the second of the frame.        *)
Entry(m, second) == [key |-> Key(m), type |-> m.ptype, value |-> m.value,
                     quality |-> m.quality, second |-> second, asdu |-> m.asdu]
ApplyUpdate(points, m, second) ==
    IF Key(m) \notin KeysOf(points) THEN Append(points, Entry(m, second))
    ELSE [k \in DOMAIN points |->
            IF points[k].key = Key(m) THEN Entry(m, second) ELSE points[k]]
ApplyBackwards(points, ms, second) ==                              \* mutant
    FoldLeft(LAMBDA ps, m : ApplyUpdate(ps, m, second), points, Reverse(ms))
ApplyBatch(points, ms, second) ==
    FoldLeft(LAMBDA ps, m : ApplyUpdate(ps, m, second), points, ms)

(* cleanupOldPoints: MAX_POINTS stay, the latest by the second of their    *)
(* update; within a second those that were added first (a stable sort).    *)
Older(points, j, k) == points[j].second < points[k].second         \* mutant
Newer(points, j, k) ==
    \/ points[j].second > points[k].second
    \/ points[j].second = points[k].second /\ j < k
Keeps(points) ==
    {k \in DOMAIN points :
        Cardinality({j \in DOMAIN points : Newer(points, j, k)}) < MAX_POINTS}
OneMore(points) == Len(points) > POINTS_CLEANUP_THRESHOLD + 1      \* mutant
TooMany(points) == Len(points) > POINTS_CLEANUP_THRESHOLD
Cleanup(points) ==
    IF TooMany(points) THEN Kept(points, Keeps(points)) ELSE points

(* The callback of requestAnimationFrame: the batch, the cleanup if it     *)
(* brought a new point, and the flag that lets the next frame be asked for.*)
StillScheduled == TRUE                                             \* mutant
ScheduledAfterFrame == FALSE
AnimationFrame ==
    /\ updateRafId /\ updateRafId' = FALSE
    /\ clock' \in clock .. MaxSeconds
    /\ updateScheduled' = ScheduledAfterFrame
    /\ pendingUpdates' = <<>>
    /\ LET updated == ApplyBatch(pointsMap, pendingUpdates, clock')
           kept == IF Len(updated) > Len(pointsMap) THEN Cleanup(updated)
                   ELSE updated IN
        /\ pointsMap' = kept
        /\ evicted' = (evicted \cup KeysOf(updated)) \ KeysOf(kept)
    /\ UNCHANGED <<pipeVars, online, transit, commPackets, notices, drops, missed>>
-----------------------------------------------------------------------------
Next ==
    \/ \E s \in Stations : StationSends(s)
    \/ \E s \in Stations : BroadcastNext(s)
    \/ \E s \in Stations, c \in Commands : SendCommand(s, c)
    \/ OnMessage
    \/ AnimationFrame
    \/ Drop
    \/ Reconnect

(* The handle's thread runs, the event loop of the browser delivers, and   *)
(* a visible page gets the animation frames it asks for (AnimationFrame is *)
(* the action that answers such a request).                                *)
Fairness ==
    /\ \A s \in Stations : WF_vars(BroadcastNext(s))
    /\ WF_vars(OnMessage)
    /\ WF_updateRafId(updateRafId /\ updateRafId' = FALSE)

Spec == Init /\ [][Next]_vars /\ Fairness
-----------------------------------------------------------------------------
(* The types of the page's state; the packet monitor holds its limit.      *)
TypeOK ==
    /\ online \in BOOLEAN /\ updateScheduled \in BOOLEAN
    /\ updateRafId \in BOOLEAN
    /\ Keys(transit) \cup Keys(pendingUpdates) \subseteq Stations \X Addresses
    /\ \A k \in DOMAIN pendingUpdates : IsPointUpdate(pendingUpdates[k])
    /\ KeysOf(pointsMap) \subseteq DOMAIN truth
    /\ Len(commPackets) <= MaxPackets
    /\ clock \in 0..MaxSeconds /\ drops \in 0..MaxDrops
    /\ missed \cup evicted \subseteq DOMAIN truth

(* Nothing of station s is on its way to the page.                         *)
AtRest(s) ==
    /\ todo[s] = <<>>
    /\ \A k \in Stations \X Addresses :
          k[1] = s => k \notin Keys(transit) \cup Keys(pendingUpdates)
(* A value shown for a report is the value itself; for a measured value of *)
(* more than six digits it is at most half a unit of the sixth away, which *)
(* is one part in 200000 or less.                                          *)
Agrees(value, report) ==
    IF report.type \notin Measured \/ Magnitude(report.value) < Million
    THEN value = report.value
    ELSE Magnitude(value - report.value) <= (5 * Magnitude(report.value)) \div Million
Shows(key) ==
    \E k \in DOMAIN pointsMap :
        /\ pointsMap[k].key = key
        /\ pointsMap[k].type = truth[key].type
        /\ Agrees(pointsMap[k].value, truth[key])
        /\ pointsMap[k].quality = truth[key].quality
Protection == SingleEvent \cup PackedEvents
Printable(key) ==
    /\ key \in DOMAIN truth
    /\ truth[key].type \notin Protection /\ truth[key].value \notin NonFinite

(* Once everything a station sent has arrived, the page shows for each of  *)
(* its addresses what the station last said of it, packed points and       *)
(* repeated objects included, measured values to six digits, unless the    *)
(* message was lost with the connection or the point was cleaned up.       *)
(* parseASDU, the callbacks and processBatchUpdates together, with both    *)
(* callbacks taking each point.                                            *)
ShownIsLatest ==
    \A key \in DOMAIN truth :
        Printable(key) /\ AtRest(key[1]) =>
            Shows(key) \/ key \in missed \cup evicted

(* The README's "多 ASDU 类型 - 支持 ... Protection Event": a protection    *)
(* event that was not lost is shown too.                                   *)
ProtectionShown ==
    \A key \in DOMAIN truth :
        AtRest(key[1]) /\ truth[key].type \in Protection =>
            Shows(key) \/ key \in missed \cup evicted

(* A frame leaves no point at an earlier report than it showed before, nor *)
(* than any that waited in the batch, whatever is batched together and     *)
(* broadcast twice.                                                        *)
NeverOlder ==
    [][\A j \in DOMAIN pointsMap' :
        LET p == pointsMap'[j] IN
        /\ \A q \in Range(pointsMap) : q.key = p.key => q.asdu <= p.asdu
        /\ AnimationFrame => \A m \in Range(pendingUpdates) :
                                Key(m) = p.key => m.asdu <= p.asdu]_vars

(* The number of points stays within the threshold between two frames      *)
(* (cleanupOldPoints is only called when a batch brought a new point).     *)
PointsBounded ==
    /\ Len(pointsMap) <= POINTS_CLEANUP_THRESHOLD
    /\ Cardinality(KeysOf(pointsMap)) = Len(pointsMap)

(* A cleanup removes no point updated in a later second than one it keeps, *)
(* and keeps MAX_POINTS of them.                                           *)
CleanupDropsOldest ==
    [][AnimationFrame =>
        LET updated == ApplyBatch(pointsMap, pendingUpdates, clock')
            dropped == Range(updated) \ Range(pointsMap') IN
        dropped # {} =>
            /\ \A p \in dropped, q \in Range(pointsMap') : p.second <= q.second
            /\ Len(pointsMap') = MAX_POINTS]_vars

(* The operator is told of no result a station did not give.               *)
NoticesAreAnswers == notices \subseteq answers

(* A page that is behind its stations catches up when they fall silent (in *)
(* the model they do, events being bounded): no batch is left waiting for  *)
(* a frame that nobody asked for.                                          *)
Behind ==
    \E key \in DOMAIN truth :
        Printable(key) /\ ~Shows(key) /\ key \notin missed \cup evicted
CatchesUp == Behind ~> ~Behind
=============================================================================
