# Tls104Master: formal models

Tls104Master is an IEC 60870-5-104 master. A C++ process keeps TCP or TLS
sessions to many stations through lib60870, decodes what they send, and serves
a browser page that shows the data and sends commands. This directory holds
TLA+ models of the program, their TLC configurations and TLAPS proofs. Paths are
relative to the repository root.

## 1. Inventory

| Component | State | Operations | Shared with |
|---|---|---|---|
| Connection manager, `src/iec104/connection.cpp` 64-458, 581-713 | `connections_` (id to `IEC104ConnectionInfo`), each info's `connection`, `status`, `shouldReconnect`, `tlsConfig` | add, remove, connect, disconnect; `connectThreadFunc`, `reconnectThreadFunc`, `connectionHandler`, destructor | its own detached threads, one library thread per handle, API threads |
| Commands, 460-579 | none of its own | interrogation, clock sync, counter read, control | `info->connection` under `connectionsMutex_` |
| ASDU decoding, 32-62, 635-648, 715-1356 | none | `parseASDU`, `extractCP24Timestamp`, raw packets | data callbacks of `main.cpp` |
| SSE server, `src/http/server.cpp` 74-130, 194-247 | `running_`, `sseClients_`, per client `queue`, `alive`, `cv` | `broadcast`, `handleSSE`, `stop` | every thread that reports an event |
| Requests, `server.cpp` 24-72, 132-192, 249-280 | none | `start`, request parsing, static page | one detached thread per request |
| Application, `src/main.cpp` | `g_stations`, `g_iec104`, `g_httpServer`, `g_running` | API handler, callbacks that broadcast JSON, start and shutdown | all of the above |
| Web client, `web/index.html` | `stations`, `pointsMap`, `pendingUpdates` | SSE handling, snapshot load, batched updates | HTTP API and event stream |
| IPC bridge, `src/ipc/bridge.cpp` | none | text to calls; constructed by `main` and never fed | - |

Calls go browser -> HTTP thread -> `handleAPIRequest` -> `g_stations` and the
connection manager. Events go library thread -> `connectionHandler` or
`parseASDU` -> callback in `main.cpp` -> `broadcast` -> one queue per browser ->
page. Nothing is persisted.

What is hard here:

* every station is worked on by threads nobody joins. They share raw pointers
  to the info and to the library handle, and take `connectionsMutex_` for some
  accesses only (`connectThreadFunc` takes it for none);
* `CS104_Connection_destroy` joins the library's thread, which may be inside a
  handler that wants the mutex, and itself provokes the CLOSED handler, which
  may start another reconnect thread;
* checks of `shouldReconnect` are made once and used much later;
* statuses are reported after the lock is released;
* SSE threads wait on a condition variable that two other threads signal, one
  with and one without the mutex; browsers stall and disappear;
* the list of stations exists three times (manager, `main.cpp`, page), each
  under its own lock or thread, tied by callbacks, events and a snapshot that
  nothing orders;
* a point is decoded, broadcast twice, batched, applied to a map with a limit,
  and shown; its three-byte time tag has no hour.

What makes each component correct: no handle destroyed twice, leaked or used
after it was freed; status shown = session there is; a station the user
disconnected stays down and one the peer dropped comes back; destroy and
shutdown return (manager). Nothing lost, repeated or reordered for a live
client; a stalled browser holds nobody up; threads end after stop (SSE).
Each point decoded once with the right address and time (ASDU). Both station
maps agree (application). The page ends with the newest state (web client).

## 2. Modules

| Module | Models | Uses |
|---|---|---|
| `ConnectionManager` | the connection manager with all its threads and the library as its environment | - |
| `MCConnectionManager` | instances for TLC: symmetry, view | `ConnectionManager` |
| `ConnectionManagerProofs` | TLAPS proofs: types, owners of handles, refinement of `HandleLifecycle` | `ConnectionManager` |
| `CalmProofs` | TLAPS proofs: what holds under a calm operator, safety of `StationPromise` | `ConnectionManagerProofs` |
| `SseBroadcast` | `broadcast`, `handleSSE`, `stop` | - |
| `MCSseBroadcast` | instances for TLC | `SseBroadcast` |
| `SseBroadcastProofs` | TLAPS proofs | `SseBroadcast` |
| `HandleLifecycle` | abstract: what the life of a library handle may be | - |
| `StationPromise` | abstract: what the manager promises the operator about a station | - |
| `AsduPipeline` | `parseASDU`, timestamps, control responses, the data callbacks of `main.cpp` | - |
| `WebClient` | the page: message handling, batching, limits | `AsduPipeline` |
| `MCWebClient` | instance for TLC: an ASDU of each family | `WebClient` |
| `WebClientLemmas` | TLAPS lemmas: what decoding, batches and cleanups compute | `WebClient` |
| `WebClientProofs` | TLAPS proofs: time tags, the page | `WebClientLemmas` |
| `StationRegistry` | `g_stations`, the API and its threads, the connection callback, the page's list | - |
| `MCStationRegistry` | instance for TLC | `StationRegistry` |
| `StationRegistryProofs` | TLAPS proofs: the two maps | `StationRegistry` |
| `StationStatusProofs` | TLAPS proofs: the list's statuses | `StationRegistryProofs` |
| `StationPageProofs` | TLAPS proofs: the page's list | `StationStatusProofs` |

`ConnectionManager` instantiates both abstract modules with a refinement
mapping. `WebClient` composes the pipeline with the page; the server between
them appears as what `SseBroadcast` shows of it: messages in order and without a
gap while the connection lasts. `StationRegistry` reduces the manager to its map,
its mutex and its reporting threads.

### ConnectionManager

State. `connections`, `connection`, `status`, `shouldReconnect` are the fields
of the same names; `live` is the set of infos not yet freed (the map owns them
through `unique_ptr`). For each handle, `lib` says where the library's thread
is, `param` is the info its handlers were given, `closing` that destroy has
been called, `took` and `again` are the locals `oldConn` and `shouldReconnect`
of a CLOSED handler. For each thread slot, `pc`, `tinfo`, `tconn` and `left`
are its program point, its info, its handle (`oldConn` or `newConn`) and the
attempts it has left (-1 = unlimited); `alias` marks threads whose `stationId`
is a reference into the info (`addStation` passes `infoPtr->stationId`).

Steps. One action per critical section of `connectionsMutex_`, per unlocked
access, and per call that waits (dial, destroy). A call of
`connectionCallback_` outside the lock is a step of its own; inside it
(`connectStation`) it is part of the step. The public operations are
`AddStation`, `RemoveStation`, `DisconnectStation`, `ConnectStation`;
`Connect*` are the steps of `connectThreadFunc`, `Retry*` those of
`reconnectThreadFunc`, `Opened*`, `Closed*`, `Failed*` those of
`connectionHandler`, `Destructor*` those of the destructor.
The thread that `connectThreadFunc` starts to reconnect takes over its slot.
Two steps merge neighbouring unlocked accesses: `ConnectCreate` the write of
`info->connection` (connection.cpp:243) with the reads of it that set the handle up
(244-256), where a handle of somebody else would be met in the next step anyhow,
and `ConnectFail` the status and the read of the handle (261-262); the destroy at
262 is a step of its own.

The library is external, modelled from its use: `CS104_Connection_connect`
starts the handle's thread, which calls OPENED or FAILED and lets connect
return true or false; a session ends when the peer ends it or when destroy has
been called; destroy returns when the thread has ended, and frees the handle.

Undefined behaviour. A step that would read a freed info, use a null or freed
handle, or connect a handle that is already connected or being destroyed is
not taken; `UndefinedBehaviour` records the fault instead and the behaviour
ends there. An invariant that the faults would break is therefore stated of
what happens before the first of them. Unlocked accesses to a word are atomic.

Abstractions. Freed addresses are not reused while somebody holds a stale
pointer to them (its use is a fault already). The time of the back-off is left
out: a sleeping thread wakes at any time. TLS and plain handles are one thing.
The data of a command is left out: a send is a use of `info->connection`.
Operations called after the destructor has begun are not modelled.

`Calm`. With `Calm = TRUE` an operation is called, and a peer drops a session,
only when no thread or handler is working on any station: the user waits for
what the page shows. With `Calm = FALSE` they come at any time. The safety
properties of ownership hold in both. `NoFault`, `NoOrphan`, `RestAccurate`,
`DisconnectedStaysDown` and `PromiseKept` are of the sequential path: they hold when
calm and fail otherwise, and neither the code nor a peer makes anybody wait.

### SseBroadcast

Each browser has a slot with its thread's program point `pc`, its `queue`,
`alive` and `batch` (the local `msgs`). Messages are numbers, in the order in
which `broadcast` took `sseClientsMutex_`. `got` and `from` are history
variables. A broadcast holds the list mutex from `Broadcast` until `pending` is
empty, and reaches the clients one by one, in any order. The mutex of a client
is visible as `pc = "block"`: the thread has found `wait_for`'s predicate false
and still holds it; the drain and the push are single steps. `Send` is one
call of `send`, which may wait for ever or fail. A slot is used again when a
browser reconnects.

### HandleLifecycle and StationPromise

`HandleLifecycle` has two variables per handle: the phase of its life and
whether its destruction has begun. The mapping reads them off `lib` and
`closing` of `ConnectionManager`; every step of any thread must be a step of
the abstract handle or leave it alone. `StationPromise` is the operator's view:
the status shown and whether the station is wanted, read off `status` and
`shouldReconnect`. Its steps are an automaton; its fairness says that a dial is
answered and a lost session dialled again.

### AsduPipeline and WebClient

An ASDU is a type, a cause, the negative bit and a sequence of objects with
address, value, quality and time of the event. `Decode*` are the families of
cases of `parseASDU`'s switch, one operator each, written by what differs: the
kind of point made, whether the quality is read (it is not for double points,
step positions, bitstrings, counters, normalized values without quality) and the
time (`WithCP24`, `WithCP56`, else the clock). `M_EP_TA_1`, `TB` and `TC` carry a CP24 tag
the code does not read. `Broadcasts` is the order of one ASDU's messages: the raw
message, then the control result, or the points by the legacy and again by the
extended callback. Within one ASDU all points are of one kind, so the order of
the callback's loops does not show. The text of a protection event, and of a
value that is `nan` or `inf`, is `malformed`: it cannot be parsed. The other
measured values, which the program keeps as doubles, are written by `operator<<` with
its six significant digits: 1234567 reaches the page as 1.23457e+06. A measured
value is a count of some decimal unit, and `SixDigits` rounds it, ties to even, at
the decade (`Decades`) it lies in; integers of the other kinds are written in full.
Of the JSON texts only this is kept. Commands put the station's answers into `owed`: a
confirmation and a termination, or a refusal.

`WebClient` keeps the source's names (`pendingUpdates`, `updateScheduled`,
`updateRafId`, `pointsMap`, `commPackets`). `pointsMap` is a sequence because
the order in which points were added decides the clean-up within a second.
`transit` is the page's queue on the server and the socket; `Drop` loses it.
`truth`, `answers`, `missed`, `evicted` and `notices` are histories. `answers` has what
the confirmations and terminations a station sent say, asked for or not. `Report` states
what an ASDU says of an address without using `Decode`, so that
`ShownIsLatest` compares two definitions.

For measured values it asks that the two agree to six significant digits (`Agrees`).

Abstractions: a station's clock and the host's agree on the minute of the hour
(which `extractCP24Timestamp` takes for granted; time zones are whole hours).
Carry flag, sequence number and transient flag are part of a value.
The common address is left out, as `parseASDU` does not read it. A handle's library thread
is taken to be one per station; what happens when two exist is the manager's
matter. The page is visible; a page that is closed does nothing any more.

### StationRegistry

`g_stations` and `connections` are the two maps with the mutex of each. A request
is a thread with a program point; its steps are the critical sections of the
operation it was routed to, and the callback's two halves, `Tell` (the list) and
`Announce` (the broadcast). `Route` is `handleAPIRequest`: the tests in their order,
with the search for a word anywhere in the path, so that a host in `LikeARoute`,
which begins with the word `HostWord` gives, is misrouted as in the code. Hosts that
begin with `disconnect` are left out: no connect of theirs gets through, and the
page's row of them is wrong from the first click on. A body that did not arrive with the first `recv`
leaves the defaults. `connectStation` keeps the manager's mutex through the
callback. Reporters stand for the manager's threads: they change a status, then
report it; one that is the library's thread must have left its callback before
`Destroy` returns. The page's row changes (`Clicked`) and the request that follows
are one step of `HandleClient`: reading a request touches nothing shared, so the
request may lie on the wire as long as its thread has not taken its first step.

Histories name what the code leaves wrong, and the properties exclude exactly
these stations: `crossed` (an addition overlapped a removal), `muddled` (two
actors at once, or an addition of a station that is present) and `missed` (news
the page never got: broadcast before it was registered or while it loaded the
list, a connect refused without an event, an event of an earlier life).
Abstractions: a second row of one station in the page's list is not kept; TLS
settings, host and port are part of the identifier; the API's answers but for the
list are left out, the page reads none of them.

## 3. Runs

All runs are small instances; deadlock checking is off since the bounds on
calls, drops, messages and joins let every model stop, and since a recorded
fault ends a behaviour.

| Run | Instance | Shows |
|---|---|---|
| `CMSafety` | 1 station, 1 info, 2 handles, 3 threads, every operation and the destructor (2 calls), 1 drop, 1 retry, any interleaving | no handle that was taken out of `info->connection` has two owners, the destructor included; a dialled handle is private; the manager implements `HandleLifecycle` |
| `CMCalm` | 2 handles, 2 threads, 4 calls, 2 drops, 2 retries, calm | the sequential path: no fault, no leak, status accurate at rest, a disconnected station stays down; the station settles; a dropped session comes back; a silent peer ends in a reported error; the manager implements `StationPromise`, fairness included |
| `CMDestroy` | add, remove, disconnect (3 calls), 1 drop, any interleaving | every destroy outside the lock returns |
| `CMRemove` | add, remove, calm | violated: `removeStation` frees an info that the library's thread still uses |
| `CMStop` | add, disconnect, 1 drop | violated: a disconnect during an attempt is undone |
| `CMFlap` | add, connect, 1 drop, no retry of a first connection, peer answers | violated: with a connect while a drop is being handled, two reconnect threads destroy each other's sessions for ever |
| `CMShutdown` | add, destructor | violated: the destructor joins under the lock |
| `SseDelivery` | 2 browsers, 2 messages, 3 joins | order, no gap, no lost wake-up, no blocking by a slow browser, delivery, threads end after stop |
| `SseStop` | 1 browser | violated: `stop` can miss a thread about to sleep |
| `WebClient` | 1 station, 15 ASDUs over addresses 0 to 3, 2 events, 1 lost connection | the page shows the last report of each address, measured values to six digits, and never goes back; points within the limit, the oldest cleaned up; no notice without an answer; no batch forgotten; time tags right |
| `Protection` | the same | violated: protection events are never shown |
| `StationRegistry` | 2 stations (one with a host like a route), 2 request threads, 1 reporter, 3 events and the list request | maps agree; list and page follow the manager; a request does what was asked; every request is answered |

Bounds of the manager. One station is enough: stations share only the mutex,
which no operation but the destructor holds across steps. One info is enough
because a second exists only after a remove, whose faults end the behaviour;
what is said for several is proved (section 5). Two handles and three threads
let an old session's thread, a connecting thread and a reconnecting one meet.
One or two drops with one or two retries exercise the limit, the unlimited
mode and the hand-over between them. `CMSafety` leaves `reported` out of the
fingerprint (no action, and no variable of `HandleLifecycle`, reads it) and uses
the symmetry of handles and threads; `HandlesUsedRight` has no fairness. Runs
with liveness use neither. `PromiseKept` needs the calm environment: under free
interleaving it fails for the reason that `CMStop` shows.

Bounds of the others. Two browsers show that one does not disturb the other,
two messages that a batch of more than one is sent in order, three joins that a
browser comes back while the other stays. In `WebClient`, `PackWidth` is 2 for
16, and the limits 5000/5500 and 500 are 1/2 and 1, so that both are reached;
the ASDUs include one with the same address twice, one whose packed points reach the
address of others, events in the hour before, a NaN, an infinity, a value of seven digits and one of
eight that lies half way, a type that is not decoded, and a negative answer to no command. Two events are enough for a report to follow, overtake in a batch, or
push out another. In `StationRegistry` three events are two overlapping requests
and a status, or three operations on one station; the request for the list is free.

Each finding in `PROJECT.json` quotes the line its violated property is taken
from. The traces are at most some twenty steps of ordinary calls.

## 4. Fairness

`ConnectionManager!Fairness`: threads of the process and of the library are
scheduled, back-off sleeps and dials end (connect timeout of 10 s,
connection.cpp:453), a library thread told to close ends. `PeerReturns` is an
assumption on the environment, used for recovery only: a peer dialled for ever
answers in the end, and so does the allocator. Neither calls nor drops are fair.

`SseBroadcast!Fairness`: threads are scheduled, and a thread that waits for a
mutex gets it if it is released again and again (strong fairness of `Push`).
Browsers and the 15 s timer are not in it: they are hypotheses of the
properties that need them. So `BroadcastCompletes` holds with browsers that
never read, `Delivered` without the timer, and `StopEndsClients` needs both.

`WebClient!Fairness`: the library's thread makes its broadcasts, the browser
delivers messages, and a frame that was asked for is painted (weak fairness of
the step that answers the request, not of a frame nobody asked for). Reports,
commands, drops and reconnects are not fair.

`StationRegistry!Fairness`: request and reporter threads are scheduled. Requests,
status changes and the page are not fair. Weak fairness suffices for `Answered` because
the bound on events leaves a thread without competitors for a mutex in the end.

## 5. Proofs

All theorems hold for any sets of stations, handles, threads, browsers and ASDUs
and any bounds, from the named assumptions on the constants only; those of `CalmProofs` state one more,
about the operator.

`ConnectionManagerProofs`:

* `TypeCorrect`: `Spec => []TypeOK`.
* `HandlesHaveOneOwner`: `Spec => []SingleOwner`. Its first part, `HandlesApart`, is
  of the places a handle is moved between (a stored `info->connection`, a CLOSED
  handler's `oldConn`, the local of a thread that took it out or made it). It is not
  inductive: publishing the handle of a reconnect must not meet a second owner,
  and freeing a handle must not make one available that somebody owns. The
  invariant `OwnerInv` adds to it `TypeOK` and `DialsAlone`, which says that a
  handle being dialled by a reconnect thread is known to that thread only. The
  second part, `VictimApart`, is of the handle the destructor destroys while it is
  still stored; `VictimInv`, proved on top of `OwnerInv`, adds that the destructor
  holds the mutex meanwhile. Not covered is `connectThreadFunc`'s destroy of a
  stored handle without the mutex (connection.cpp:262): there a second owner
  is possible, and the fault that follows is recorded.
* `DialedHandleIsSafe`: `Spec => []DialIsPrivate`, from the same invariant.

In the same module, `HandlesAreUsedRight`: `Spec => HandlesUsedRight`. The
initial states correspond, and each action is a step of one abstract handle or a
stutter. Steps that free a handle need that a thread which waits in destroy has
begun the destruction (`ClosingInv`) and, by `HandlesApart`, that
nobody else does; that `ClosingInv` is kept and the step is allowed are proved together
(`GoodStep`).

`SseBroadcastProofs`, from one inductive invariant `IInv`:

* `BroadcastTyped`: `Spec => []TypeOK`. The message a broadcast pushes has a
  number because `from[c]` is below it (`Progress`).
* `NoMessageSleeps`: `Spec => []NeverSleepsOnMessage`. `Awake` adds that the
  queue stays empty between the predicate and the sleep, which is what holding
  the client's mutex gives.
* `OrderIsKept`: `Spec => []InOrderNoGap`. `Progress` says that what a client
  was written, is being written and has queued is a count from its join; up to
  the last message it was handed if it is alive, up to some message if it is
  dead. A failed send breaks the count, but its thread writes no more.

`StationRegistryProofs`, from `IInv`: `TypeOK`, `Shapes` (the functions' types),
`Labels` (which operation may be at which program point), `Apart` and `Halves`.
`MapsAgree` is not inductive: between its two critical sections an addition or a
removal leaves the maps different. `Halves` says of each station outside `crossed`
who is between them and what the list then holds; `Apart` that no opposite request
runs beside.

* `TypesAndMutexes`: `Spec => []TypeOK`.
* `TheMapsAgree`: `Spec => []MapsAgree`.
* `WhatIsAskedIsDone`: `Spec => AskedIsDone`; the lemma `RouteIsAsked` is about
  the tests of `handleAPIRequest` in their order.

`StationStatusProofs`: `TheListFollows`, `Spec => []StatusFollows`. From the moment
the manager's map has a new status until the callback writes it to the list the
two differ, so `FInv` says for each station outside `muddled` that at most one
actor is busy with it (`Alone`), what that actor may rely on at its place
(`Relies`, `Relays`), and that the maps agree or that actor owes the list the
status (`Equal`, `Owed`). Steps about other stations are dealt with once
(`ThreadElsewhere`, `ReporterElsewhere`). It needs `MapsAgree`'s invariant where an
addition begins.

`StationPageProofs`: `ThePageFollows`, `Spec => []PageFollows`. `PInv` says for each
station outside `muddled` and `missed` where the news are that the page lacks:
with an actor that has not sent its event (`Unsent`), or in the last event about
the station on its way (`Latest`, `Sent`); if neither, the page's row and the row of
a list that was taken and has not arrived are right (`Displayed`, `Fetched`).
`Appended` and `Delivered` are the facts about the queue.

`CalmProofs` is of the sequential path only. `CalmOperator` is its hypothesis: calls
and the peers' drops come when every station is at rest, and no station is removed.
`CMCalm` is such an instance. Neither the code nor a peer guarantees it, and it cuts
away the overlaps where the program goes wrong: `CMStop` and `CMFlap` are runs with
such an overlap, `CMRemove` one for an operator who is calm but removes a station.
What the theorems say is that the several steps, threads and handlers of one
connect, retry, drop or disconnect, taken by themselves, end where they should.
The invariant `CalmInv` says that every station is in one of four situations:
nothing runs and there is no handle (`Down`); it has a session and no thread
(`Session`); one thread works for it and there is no handle (`Between`); one thread
works with its one handle (`Using`). Each situation fixes the status, the wish, the
phase of the handle and, for a thread, its program point. `Belongs` and
`Registered` tie threads, handles and infos to the stations of the map; `Ending`
describes the destructor. A step moves one station to another situation and
leaves the others where they are.

* `CalmInvariant`, and from it `CalmRestAccurate`.
* `CalmPromiseKept`: initial states and steps are those of `StationPromise`, the
  safety part of `PromiseKept`. It excludes the destructor, whose end takes all
  stations away in one step.

`WebClientLemmas` has what the operators compute, for any ASDU, batch and list.
`DecodedPoints` and `LastDecoded` compare `Decode` with `Report`, packed points
included, where positions are quotients and remainders by `PackWidth`.
`BroadcastsMade` and `BroadcastsLast` say which messages an ASDU makes and that the
last about an address repeats its report, up to the rounding of a measured value:
`RoundedNear`, `SixDigitsAgree` and `WrittenAgrees` bound what `SixDigits` changes. `BatchApplied` says of the fold
`ApplyBatch` that each point has the last update of its key or is an old one
without an update; `KeptParts` and `CleanupApplied` that the cleanup keeps
`MAX_POINTS` points, none older than one it drops. The folds of the community
modules are recursive functions over sets of positions: `FoldingExists` and
`KeepingExists` build them, `BatchSteps` and `KeptSteps` unroll them. Induction is
over a set of numbers (`Induction`, from the least element of its complement), as
the library's induction theorems take an operator.

`WebClientProofs`:

* `TagsAreRight`: `Spec => []TagTimeClose`, for any ASDUs and any clock. The
  difference of two minutes of the hour, brought between -30 and 30, is the
  difference of the minutes themselves if that is at most 29 (`TagTime`).
* `PageTypes`, `NoticesTrue`, `PointsAreBounded`, `OldestDropped`: `TypeOK`,
  `NoticesAreAnswers`, `PointsBounded`, `CleanupDropsOldest`. `PageInv` says that
  every message on its way was made of an ASDU that was parsed (`Sent`), that every
  point is one of a message (`Stored`), and that keys are distinct.
* `PointsNeverOlder`: `Spec => NeverOlder`. `Order` says that the numbers of ASDUs
  about one address never decrease from the points through the batch and the wire
  to what the station's thread has still to broadcast, nor within each of them.
* `LastReportShown`: `Spec => []ShownIsLatest`. It is not inductive, being about
  stations at rest. Values agree to six significant digits; `nan`, `inf` and protection
  events, whose messages cannot be parsed, are excluded. `LatestInv` says where the last report of each address is: the
  last message about it that the station's thread has left, else the last one on
  the wire, else the last one in the batch, else the page (`Settled`). `missed` and
  `evicted` name the addresses where the chain was cut; nothing that was evicted is
  still among the points, and nothing is on the wire of a page that is offline.

The assumption `ObjectsAssumption` of `AsduPipeline` says that objects are a
sequence and their addresses among those in use, `MeasuredAssumption` that a measured
value is not finite or a number with a decade among `Decades`.

Model-checked only: all liveness (`Settles`, `DropRecovers`, `GivesUp`,
`DestroyCompletes`, the fairness of `PromiseKept`, `BroadcastCompletes`, `Delivered`,
`StopEndsClients`, `CatchesUp`, `Answered`), which depends on fairness and is
beyond the prover; `NoFault`, `NoOrphan` and `DisconnectedStaysDown`, which hold on the
sequential path of `CMCalm` and fail elsewhere; and what runs show violated, removals at
rest included, which is why `CalmOperator` leaves them out.

## 6. Not modelled

* TLS configurations (`info->tlsConfig`): whether destroying one that a
  connection was created with is harmful depends on lib60870, which is not in the
  repository. Plain and TLS handles are one thing in the model.
* `main`'s start-up and the destruction of its globals while detached threads run:
  one thread and then undefined behaviour. The manager's destructor and
  `HttpServer::stop` are modelled.
* Calls of the manager after its destructor has begun, for the same reason.
* `HttpServer::start` and the static page: I/O on constant data.
* `bridge.cpp`: `main` constructs the bridge and never feeds it.
* The socket and webview wrappers, log output.
* How JSON.parse and `formatTelemetryValue` (index.html:697-706) turn the text of a
  value into what is seen: the property ends at the value in the text.
* In the page: layout, filters, paging, highlighting, dialogs, the decoding of
  packets for display, whether Vue repaints a point whose quality alone changed,
  and the WebView2 mode, for which the program sends nothing.
