--------------------------- MODULE StationRegistry ---------------------------
(***************************************************************************)
(* The station list of the application and the API around it: main.cpp     *)
(* (g_stations, handleAPIRequest, AppIPCBridgeCallback, the connection     *)
(* callback), the request threads of http/server.cpp, and the page's own   *)
(* list (web/index.html).                                                  *)
(*                                                                         *)
(* Each request runs in a thread of its own.  The connection manager is    *)
(* reduced to what these parts see of it: its map of stations, the status  *)
(* it keeps for each, its mutex, and its threads, of which the library's   *)
(* are joined when a handle is destroyed.  ConnectionManager models it.    *)
(***************************************************************************)
EXTENDS Naturals, Sequences, FiniteSets

CONSTANTS
    Stations,     \* station identifiers, "host:port"
    Default,      \* the one of a request whose body did not arrive
    NoStation,    \* what is no identifier
    LikeARoute,   \* those whose host begins with a word of the API, but for
                  \* "disconnect", for which no connect would get through
    HostWord,     \* that word of each
    Commands,     \* the words of the commands the page sends
    Threads,      \* request threads
    Reporters,    \* threads of the connection manager that report a status
    None,         \* a free mutex
    MaxEvents     \* bound: requests, but for the list, and status reports

ASSUME RegistryAssumption ==
    /\ Default \in Stations /\ NoStation \notin Stations
    /\ LikeARoute \subseteq Stations
    /\ HostWord \in [LikeARoute -> {"connect"} \cup Commands]
    /\ Commands \subseteq {"interrogation", "clock-sync", "counter", "control"}
    /\ None \notin Threads \cup Reporters /\ Threads \cap Reporters = {}
    /\ MaxEvents \in Nat

VARIABLES
    g_stations,        \* main's list: the status it shows of each station in it
    g_stationsMutex,   \* its holder
    connections,       \* the manager's map: the status of each station in it
    connectionsMutex,  \* its holder
    pc,                \* where a request thread is
    doing,             \* what it does: [op, id, own], own if its page asked for that
    report,            \* what a reporter reports: [at, id, status, library]
    stations,          \* the page's list
    listening,         \* the page is registered for events
    transit,           \* events on their way to the page
    loading,           \* how far the page's request for the list is
    response,          \* the list it gets
    events,            \* environment counter
    crossed,           \* history: stations added and removed at the same time
    muddled,           \* history: stations with two actors at the same time
    missed             \* history: stations of which the page missed some news

shared == <<g_stations, g_stationsMutex, connections, connectionsMutex>>
page == <<stations, listening, loading, response>>
histories == <<crossed, muddled, missed>>
threads == <<pc, doing>>
vars == <<shared, threads, report, page, transit, events, histories>>

Status == {"connecting", "connected", "disconnected", "error"}
Ops == {"list", "add", "remove", "disconnect", "connect"} \cup Commands
With(f, s, status) == [x \in DOMAIN f \cup {s} |-> IF x = s THEN status ELSE f[x]]
Without(f, s) == [x \in DOMAIN f \ {s} |-> f[x]]
Update(f, s, status) == IF s \in DOMAIN f THEN With(f, s, status) ELSE f

NoRequest == [op |-> "none", id |-> NoStation, own |-> FALSE]
NoReport == [at |-> "idle", id |-> NoStation]

Init ==
    /\ g_stations = <<>> /\ g_stationsMutex = None
    /\ connections = <<>> /\ connectionsMutex = None
    /\ pc = [t \in Threads |-> "idle"]
    /\ doing = [t \in Threads |-> NoRequest]
    /\ report = [r \in Reporters |-> NoReport]
    /\ stations = <<>> /\ listening = FALSE /\ transit = <<>> 
    /\ loading = "start" /\ response = <<>>
    /\ events = 0
    /\ crossed = {} /\ muddled = {} /\ missed = {}
-----------------------------------------------------------------------------
(* Requests.  sendToCpp gives a request its method and path; the path is   *)
(* the station, if any, and a word.                                        *)
Request(op, id) ==
    CASE op = "list"   -> [method |-> "GET", id |-> NoStation, word |-> ""]
      [] op = "add"    -> [method |-> "POST", id |-> NoStation, word |-> ""]
      [] op = "remove" -> [method |-> "DELETE", id |-> id, word |-> ""]
      [] OTHER         -> [method |-> "POST", id |-> id, word |-> op]

(* handleAPIRequest tests, in this order, whether the path has "/word" in  *)
(* it, be it at the end or where the identifier stands.                    *)
Words == <<"disconnect", "connect", "interrogation", "clock-sync", "counter",
           "control">>
Has(r, word) == r.word = word \/ (r.id \in LikeARoute /\ word = HostWord[r.id])
AnyMethod(method, r) == TRUE                                       \* mutant
IsMethod(method, r) == r.method = method
Route(r) ==
    CASE r.id = NoStation /\ IsMethod("GET", r)   -> "list"
      [] r.id = NoStation /\ ~IsMethod("GET", r)  -> "add"
      [] r.id # NoStation /\ IsMethod("DELETE", r) -> "remove"
      [] OTHER -> Words[CHOOSE k \in DOMAIN Words :
                          /\ Has(r, Words[k])
                          /\ \A j \in 1..(k - 1) : ~Has(r, Words[j])]

Entry(op) ==
    CASE op = "list" -> "snapshot"  [] op = "add" -> "store"
      [] op = "remove" -> "erase"   [] op = "disconnect" -> "hangUp"
      [] op = "connect" -> "lookUp" [] OTHER -> "send"

(* handleClient: one recv; a body in a later segment is lost, and with it  *)
(* the host and port to add, for which there are defaults.                 *)
NoDefault(done, id, whole) ==                                      \* mutant
    IF done = "list" \/ (done = "add" /\ ~whole) THEN NoStation ELSE id
Target(done, id, whole) ==
    CASE done = "list"          -> NoStation
      [] done = "add" /\ ~whole -> Default
      [] OTHER                  -> id

Active(s) == {t \in Threads : pc[t] # "idle" /\ doing[t].id = s}
             \cup {r \in Reporters : report[r].at # "idle" /\ report[r].id = s}
Again(done, s) == done = "add" /\ s \in DOMAIN g_stations
Opposite(done, s) ==
    \E t \in Threads : /\ pc[t] # "idle" /\ doing[t].id = s
                       /\ {doing[t].op, done} = {"add", "remove"}
(* What the page does to its own list when the user asks it for something; *)
(* a second row of a station it has never changes.  The request follows,   *)
(* and what HandleClient does with it touches nothing that is shared.      *)
Clicked(op, s) ==
    CASE op = "add"     -> IF s \in DOMAIN stations THEN stations
                           ELSE With(stations, s, "connecting")
      [] op = "remove"  -> Without(stations, s)
      [] op = "connect" -> Update(stations, s, "connecting")
      [] OTHER          -> stations
MayClick(op, s) ==
    op = "add" \/ (op \in {"remove", "connect"} /\ s \in DOMAIN stations)
InTransit(s) == \E k \in DOMAIN transit : transit[k].id = s
Premature(s, added) ==
    added # s \/ s \in DOMAIN stations \/ InTransit(s) \/ loading \in {"asked", "taken"}

HandleClient(t, op, id, whole, own) ==
    /\ pc[t] = "idle" /\ (op # "list" => events < MaxEvents)
    /\ whole \/ op \in {"add", "control"}
    /\ op = "list" => loading = "start"
    /\ own => MayClick(op, id)
    /\ LET done == Route(Request(op, id))
           s == Target(done, id, whole) IN
        /\ doing' = [doing EXCEPT ![t] =
                         [op |-> done, id |-> s, own |-> own /\ s = id]]
        /\ pc' = [pc EXCEPT ![t] = Entry(done)]
        /\ loading' = IF done = "list" THEN "asked" ELSE loading
        /\ stations' = IF own THEN Clicked(op, id) ELSE stations
        /\ missed' = missed \cup {x \in {id} : own /\ op = "add" /\ Premature(x, s)}
        /\ muddled' = muddled \cup
              {x \in {s} \cap Stations : Active(x) # {} \/ Again(done, x)}
        /\ crossed' = crossed \cup {x \in {s} : Opposite(done, x)}
    /\ events' = IF op = "list" THEN events ELSE events + 1
    /\ UNCHANGED <<shared, report, listening, response, transit>>

Goto(t, label) ==
    pc' = [pc EXCEPT ![t] = label] /\ UNCHANGED doing
Done(t) ==
    /\ pc' = [pc EXCEPT ![t] = "idle"]
    /\ doing' = [doing EXCEPT ![t] = NoRequest]
Here(t, label) == pc[t] = label
-----------------------------------------------------------------------------
(* GET /api/stations.                                                      *)
Snapshot(t) ==
    /\ Here(t, "snapshot") /\ g_stationsMutex = None
    /\ response' = g_stations
    /\ loading' = "taken"
    /\ Done(t)
    /\ UNCHANGED <<shared, report, stations, listening, transit,
                   events, histories>>

(* What happens to a station in the page's list, or after that list was    *)
(* taken, or behind an event, is news that only an event can bring.        *)
News(s) ==
    {x \in {s} : \/ x \in DOMAIN stations \/ InTransit(x)
                 \/ loading \in {"taken", "done"}}

(* onAddStation writes the list, lets go of its mutex and then calls the   *)
(* manager.                                                                *)
StillHeld(t) == t                                                  \* mutant
Released(t) == None
Store(t) ==
    /\ Here(t, "store") /\ g_stationsMutex = None
    /\ g_stations' = With(g_stations, doing[t].id, "connecting")
    /\ g_stationsMutex' = Released(t)
    /\ missed' = IF doing[t].own THEN missed ELSE missed \cup News(doing[t].id)
    /\ Goto(t, "register")
    /\ UNCHANGED <<connections, connectionsMutex, report, page,
                   transit, events, crossed, muddled>>

(* addStation refuses a station it has.                                    *)
Register(t) ==
    /\ Here(t, "register") /\ connectionsMutex = None
    /\ connections' = IF doing[t].id \in DOMAIN connections THEN connections
                      ELSE With(connections, doing[t].id, "connecting")
    /\ g_stationsMutex' = None
    /\ Done(t)
    /\ UNCHANGED <<g_stations, connectionsMutex, report, page,
                   transit, events, histories>>

(* onRemoveStation, removeStation.                                         *)
Erase(t) ==
    /\ Here(t, "erase") /\ g_stationsMutex = None
    /\ g_stations' = Without(g_stations, doing[t].id)
    /\ Goto(t, "forget")
    /\ UNCHANGED <<g_stationsMutex, connections, connectionsMutex, 
                   report, page, transit, events, histories>>
Forget(t) ==
    /\ Here(t, "forget") /\ connectionsMutex = None
    /\ connections' = Without(connections, doing[t].id)
    /\ IF doing[t].id \in DOMAIN connections THEN Goto(t, "destroy") ELSE Done(t)
    /\ UNCHANGED <<g_stations, g_stationsMutex, connectionsMutex, 
                   report, page, transit, events, histories>>

(* disconnectStation.                                                      *)
HangUp(t) ==
    /\ Here(t, "hangUp") /\ connectionsMutex = None
    /\ connections' = Update(connections, doing[t].id, "disconnected")
    /\ connectionsMutex' = Released(t)
    /\ IF doing[t].id \in DOMAIN connections THEN Goto(t, "destroy") ELSE Done(t)
    /\ UNCHANGED <<g_stations, g_stationsMutex, report, page,
                   transit, events, histories>>

(* CS104_Connection_destroy joins the library's thread of the handle.      *)
Destroy(t) ==
    /\ Here(t, "destroy")
    /\ \A r \in Reporters :
          report[r].id = doing[t].id => ~report[r].library
    /\ connectionsMutex' = IF connectionsMutex = t THEN None ELSE connectionsMutex
    /\ IF doing[t].op = "disconnect" THEN Goto(t, "tell") ELSE Done(t)
    /\ UNCHANGED <<g_stations, g_stationsMutex, connections, report,
                   page, transit, events, histories>>

(* connectStation: the callback runs with the manager's mutex held.        *)
LookUp(t) ==
    /\ Here(t, "lookUp") /\ connectionsMutex = None
    /\ LET s == doing[t].id IN
       IF s \in DOMAIN connections /\ connections[s] # "connected"
       THEN /\ connections' = With(connections, s, "connecting")
            /\ connectionsMutex' = t
            /\ Goto(t, "tell")
            /\ UNCHANGED missed
       ELSE /\ Done(t)
            /\ missed' = missed \cup {x \in {s} : doing[t].own}
            /\ UNCHANGED <<connections, connectionsMutex>>
    /\ UNCHANGED <<g_stations, g_stationsMutex, report, page,
                   transit, events, crossed, muddled>>

(* sendInterrogation, sendClockSync, sendCounterRead, sendControl.         *)
SendCommand(t) ==
    /\ Here(t, "send") /\ connectionsMutex = None
    /\ Done(t)
    /\ UNCHANGED <<shared, report, page, transit, events, histories>>
-----------------------------------------------------------------------------
(* The connection callback of main: the list, if the station is in it,     *)
(* then the event.                                                         *)
Created(f, s, status) == With(f, s, status)                        \* mutant
Found(f, s, status) == Update(f, s, status)
ListStatus(s, status) ==
    /\ g_stationsMutex = None
    /\ g_stations' = Found(g_stations, s, status)
NotSent(s, status) == UNCHANGED <<transit, missed>>                \* mutant
SendEvent(s, status) ==
    /\ transit' = IF listening THEN Append(transit, [id |-> s, status |-> status])
                  ELSE transit
    /\ missed' = IF listening THEN missed ELSE missed \cup News(s)

AlwaysConnecting(t) == "connecting"                                \* mutant
Told(t) == IF doing[t].op = "connect" THEN "connecting" ELSE "disconnected"
Tell(t) ==
    /\ Here(t, "tell")
    /\ ListStatus(doing[t].id, Told(t))
    /\ Goto(t, "announce")
    /\ UNCHANGED <<g_stationsMutex, connections, connectionsMutex, 
                   report, page, transit, events, histories>>
Announce(t) ==
    /\ Here(t, "announce")
    /\ SendEvent(doing[t].id, Told(t))
    /\ connectionsMutex' = IF connectionsMutex = t THEN None ELSE connectionsMutex
    /\ Done(t)
    /\ UNCHANGED <<g_stations, g_stationsMutex, connections, report,
                   page, events, crossed, muddled>>

(* A thread of the manager finds a new status: the library's thread in its *)
(* connection handler, or a connect or reconnect thread.  The station may  *)
(* be gone by the time it writes.                                          *)
Find(r, s, status, library) ==
    /\ report[r].at = "idle" /\ events < MaxEvents
    /\ s \in DOMAIN connections
    /\ status # IF library THEN "connecting" ELSE "disconnected"
    /\ report' = [report EXCEPT ![r] = [at |-> "write", id |-> s,
                                        status |-> status, library |-> library]]
    /\ events' = events + 1
    /\ muddled' = muddled \cup (IF Active(s) # {} THEN {s} ELSE {})
    /\ UNCHANGED <<shared, threads, page, transit, crossed,
                   missed>>
Write(r) ==
    /\ report[r].at = "write" /\ connectionsMutex = None
    /\ connections' = Update(connections, report[r].id, report[r].status)
    /\ report' = [report EXCEPT ![r].at = "tell"]
    /\ UNCHANGED <<g_stations, g_stationsMutex, connectionsMutex, threads,
                   page, transit, events, histories>>
ReportStatus(r) ==
    /\ report[r].at = "tell"
    /\ ListStatus(report[r].id, report[r].status)
    /\ report' = [report EXCEPT ![r].at = "announce"]
    /\ UNCHANGED <<g_stationsMutex, connections, connectionsMutex, threads,
                   page, transit, events, histories>>
ReportEvent(r) ==
    /\ report[r].at = "announce"
    /\ SendEvent(report[r].id, report[r].status)
    /\ report' = [report EXCEPT ![r] = NoReport]
    /\ UNCHANGED <<shared, threads, page, events, crossed, muddled>>
-----------------------------------------------------------------------------
(* The page.  Its stream of events and its requests are connections of     *)
(* their own: nothing orders them.                                         *)
Listen ==
    /\ ~listening /\ listening' = TRUE
    /\ UNCHANGED <<shared, threads, report, stations, loading, response,
                   transit, events, histories>>
LoadStations ==
    /\ loading = "taken" /\ loading' = "done"
    /\ stations' = response
    /\ UNCHANGED <<shared, threads, report, listening, response, transit,
                   events, histories>>
OnConnection ==
    /\ transit # <<>>
    /\ LET e == Head(transit) IN
        /\ stations' = Update(stations, e.id, e.status)
        /\ missed' = IF loading = "done" THEN missed ELSE missed \cup News(e.id)
    /\ transit' = Tail(transit)
    /\ UNCHANGED <<shared, threads, report, listening, loading, response,
                   events, crossed, muddled>>

ThreadStep(t) ==
    \/ Snapshot(t) \/ Store(t) \/ Register(t) \/ Erase(t) \/ Forget(t)
    \/ HangUp(t) \/ Destroy(t) \/ LookUp(t) \/ SendCommand(t)
    \/ Tell(t) \/ Announce(t)
ReporterStep(r) == Write(r) \/ ReportStatus(r) \/ ReportEvent(r)
Next ==
    \/ \E t \in Threads, op \in Ops, id \in Stations, whole, own \in BOOLEAN :
          HandleClient(t, op, id, whole, own)
    \/ \E t \in Threads : ThreadStep(t)
    \/ \E r \in Reporters, s \in Stations, status \in Status, library \in BOOLEAN :
          Find(r, s, status, library)
    \/ \E r \in Reporters : ReporterStep(r)
    \/ Listen
    \/ LoadStations
    \/ OnConnection

(* Threads run and no mutex is held for ever; the browser delivers.        *)
Fairness ==
    /\ \A t \in Threads : WF_vars(ThreadStep(t))
    /\ \A r \in Reporters : WF_vars(ReporterStep(r))

Spec == Init /\ [][Next]_vars /\ Fairness
-----------------------------------------------------------------------------
Lists == UNION {[S -> Status] : S \in SUBSET Stations}

(* The types; and who may hold a mutex across steps: a connect request,    *)
(* while it runs the callback.                                             *)
TypeOK ==
    /\ {g_stations, connections, stations, response} \subseteq Lists
    /\ g_stationsMutex = None
    /\ \A t \in Threads :
          /\ (connectionsMutex = t) = (pc[t] \in {"tell", "announce"}
                                        /\ doing[t].op = "connect")
          /\ pc[t] # "idle" /\ doing[t].op # "list" => doing[t].id \in Stations
    /\ connectionsMutex \in Threads \cup {None}
    /\ crossed \cup muddled \cup missed \subseteq Stations

(* The two maps, each under a mutex of its own, name the same stations     *)
(* whenever no request about the station is under way, unless an addition  *)
(* and a removal of it overlapped: no late report brings a removed station *)
(* back, and no removal is half done.                                      *)
InProgress(s) == \E t \in Threads : pc[t] # "idle" /\ doing[t].id = s
MapsAgree ==
    \A s \in Stations \ crossed :
        ~InProgress(s) => (s \in DOMAIN g_stations <=> s \in DOMAIN connections)

(* At rest the list shows the status the manager has, unless two threads   *)
(* were busy with the station at once or it was added while present.       *)
StatusFollows ==
    \A s \in (DOMAIN g_stations \cap DOMAIN connections) \ muddled :
        Active(s) = {} => g_stations[s] = connections[s]

(* ... and a page that missed no news of it shows that status too.         *)
PageFollows ==
    \A s \in (DOMAIN g_stations \cap DOMAIN stations) \ (muddled \cup missed) :
        Active(s) = {} /\ ~InTransit(s)
            => stations[s] = g_stations[s]

(* The API does what the page asked for, on that station, if the body came *)
(* with the head and no host begins with a word of the API.                *)
AskedDone ==
    \A t \in Threads, op \in Ops, id \in Stations \ LikeARoute, own \in BOOLEAN :
        HandleClient(t, op, id, TRUE, own) =>
            doing'[t] = [op |-> op, id |-> IF op = "list" THEN NoStation ELSE id,
                         own |-> own]
AskedIsDone == [][AskedDone]_vars

(* Every request is answered: the two mutexes and the join of the          *)
(* library's thread never wait for each other in a circle.                 *)
Answered == \A t \in Threads : pc[t] # "idle" ~> pc[t] = "idle"
=============================================================================
