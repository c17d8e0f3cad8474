-------------------------- MODULE ConnectionManager --------------------------
(***************************************************************************)
(* The IEC 60870-5-104 connection manager (iec104/connection.cpp):         *)
(* the station registry connections_, the IEC104ConnectionInfo objects it  *)
(* owns, the library handles they point to, and every thread that touches  *)
(* them: callers of the public operations, connectThreadFunc,              *)
(* reconnectThreadFunc, the thread the CLOSED handler detaches, the        *)
(* library's own thread of each handle (which runs connectionHandler) and  *)
(* the destructor.                                                         *)
(*                                                                         *)
(* One step is one critical section of connectionsMutex_, or one unlocked  *)
(* access to shared state, or one call that waits.  The first undefined    *)
(* behaviour is recorded in `fault' and ends the behaviour: nothing can be *)
(* said of the program after it.                                           *)
(***************************************************************************)
EXTENDS Integers, FiniteSets

CONSTANTS
    Stations,     \* station ids
    Infos,        \* heap addresses of IEC104ConnectionInfo objects
    Conns,        \* heap addresses of CS104_Connection handles
    Threads,      \* slots for the threads that run manager code
    None,         \* nullptr, or "not in the map"
    MaxRetries,   \* maxRetries of a first connection (10 in the code)
    Commands,     \* the public operations that are called
    MaxCommands,  \* bound: how many calls, the destructor included
    MaxDrops,     \* bound: how many established sessions the peer ends
    Calm          \* do calls and drops wait until every station is at rest?

AllCommands == {"add", "remove", "disconnect", "connect", "send", "shutdown"}

ASSUME ConstantsAssumption ==
    /\ None \notin Stations \cup Infos \cup Conns
    /\ MaxRetries \in Nat
    /\ Commands \subseteq AllCommands
    /\ MaxCommands \in Nat
    /\ MaxDrops \in Nat
    /\ Calm \in BOOLEAN

VARIABLES
    connections,      \* connections_: station id -> info, None when absent
    live,             \* the infos not yet freed
    station,          \* info->stationId
    connection,       \* info->connection
    status,           \* info->status
    shouldReconnect,  \* info->shouldReconnect
    lib,              \* where the library's thread of a handle is
    param,            \* the info the handle's handlers were given
    closing,          \* CS104_Connection_destroy has been called on it
    took,             \* oldConn of the CLOSED handler now running
    again,            \* shouldReconnect as the CLOSED handler captured it
    pc, tinfo, tconn, \* per thread: next step, its info, its handle
    left,             \* maxRetries - retryCount, -1 when unlimited
    alias,            \* threads whose stationId is a reference into the info
    reported,         \* last status passed to connectionCallback_, per station
    dtor, victim, todo, \* the destructor: phase, handle it waits for, loop
    commands, drops,  \* environment counters
    fault             \* the first undefined behaviour, "none" before it

registry   == <<connections, live, station>>
infoVars   == <<connection, status, shouldReconnect>>
libVars    == <<lib, param, closing, took, again>>
threadVars == <<pc, tinfo, tconn, left, alias>>
others     == <<dtor, victim, todo, commands, drops, fault>>
vars == <<registry, infoVars, libVars, threadVars, reported, others>>

Status == {"DISCONNECTED", "CONNECTING", "CONNECTED", "CONN_ERROR"}

(* States of a handle.  "opened", "closed" and "failed": the library's     *)
(* thread is about to run that case of connectionHandler; with "_cb" it    *)
(* has released the lock and is about to call connectionCallback_.         *)
LibStates == {"free", "idle", "dialing", "opened", "opened_cb", "up",
              "closed", "closed_cb", "ended", "failed", "failed_cb", "gone"}

(* Program points: c_ connectThreadFunc, r_ reconnectThreadFunc, x_        *)
(* disconnectStation, rm_ removeStation, d_ the CLOSED handler's thread.   *)
ReportPcs  == {"c_err_pub", "c_pub", "c_fail_pub", "r_pub", "r_done_pub",
               "r_exit_pub", "x_pub"}
JoinPcs    == {"x_join", "rm_join", "d_join", "r_join", "r_fail_join"}
DestroyPcs == JoinPcs \cup {"c_fail_join"}
Pcs == {"idle", "c_create", "c_connect", "c_wait", "c_startdt", "c_connected",
        "c_fail", "c_fail_null", "c_retry", "r_loop", "r_sleep", "r_status",
        "r_swap", "r_create", "r_wait", "r_publish", "r_exit", "r_giveup"}
       \cup ReportPcs \cup DestroyPcs

Faults == {"freed_info", "null_conn", "freed_conn", "misuse"}
-----------------------------------------------------------------------------
(* A new object gets an address nobody still holds: the reuse of an        *)
(* address while a stale pointer to it exists is not modelled, the use of  *)
(* the stale pointer is a fault already.                                   *)
FreshInfos == {i \in Infos : /\ i \notin live
                             /\ \A t \in Threads : tinfo[t] # i
                             /\ \A c \in Conns : param[c] # i}
FreshConns == {c \in Conns : /\ lib[c] = "free" /\ victim # c
                             /\ \A i \in Infos : connection[i] # c
                             /\ \A t \in Threads : tconn[t] # c
                             /\ \A d \in Conns : took[d] # c}
IdleThreads == {t \in Threads : pc[t] = "idle"}

(* Mutant: disconnectStation and removeStation destroy the handle while    *)
(* they hold the lock.                                                     *)
LockHeldInDestroy == /\ dtor # "locked"
                     /\ \A t \in Threads : pc[t] \notin {"x_join", "rm_join"}
(* connectionsMutex_ is held across steps by the destructor only.          *)
LockFree == dtor # "locked"

SetInfo(i, c, s, r) ==
    /\ connection' = [connection EXCEPT ![i] = c]
    /\ status' = [status EXCEPT ![i] = s]
    /\ shouldReconnect' = [shouldReconnect EXCEPT ![i] = r]
SetStatus(i, s) == SetInfo(i, connection[i], s, shouldReconnect[i])

(* Thread t is at p with info i, handle c and n attempts left.             *)
Run(t, p, i, c, n, refs) ==
    /\ pc' = [pc EXCEPT ![t] = p]
    /\ tinfo' = [tinfo EXCEPT ![t] = i]
    /\ tconn' = [tconn EXCEPT ![t] = c]
    /\ left' = [left EXCEPT ![t] = n]
    /\ alias' = refs
End(t) == Run(t, "idle", None, None, 0, alias \ {t})
Continue(t, p) == IF p = "idle" THEN End(t)
                  ELSE Run(t, p, tinfo[t], None, left[t], alias)

Report(i, s) == reported' = [reported EXCEPT ![station[i]] = s]

(* The library: a handle is created; its destruction starts, and returns   *)
(* only after the handle's thread has ended; then the memory is freed.     *)
Create(c, i, l) ==
    /\ c \in FreshConns
    /\ lib' = [lib EXCEPT ![c] = l]
    /\ param' = [param EXCEPT ![c] = i]
    /\ closing' = [closing EXCEPT ![c] = FALSE]
    /\ UNCHANGED <<took, again>>
BeginDestroy(c) ==
    /\ closing' = IF c = None THEN closing ELSE [closing EXCEPT ![c] = TRUE]
    /\ UNCHANGED <<lib, param, took, again>>
Free(c) ==
    /\ lib[c] \in {"idle", "ended", "gone"}
    /\ lib' = [lib EXCEPT ![c] = "free"]
    /\ param' = [param EXCEPT ![c] = None]
    /\ closing' = [closing EXCEPT ![c] = FALSE]
    /\ UNCHANGED <<took, again>>
DialAnswered(c) == lib[c] \in {"opened", "opened_cb", "up", "closed",
                               "closed_cb", "ended"}
DialRefused(c)  == lib[c] \in {"failed", "failed_cb", "gone"}

(* Nothing is under way for info i: no thread works on it and no handle of *)
(* it is dialing, ending or inside a handler.                              *)
AtRest(i) ==
    /\ \A t \in Threads : tinfo[t] # i
    /\ \A c \in Conns : param[c] = i =>
           ~closing[c] /\ lib[c] \in {"idle", "up", "ended", "gone"}
Quiet == Calm => \A i \in live : AtRest(i)
-----------------------------------------------------------------------------
(* Undefined behaviour: what the next step of a thread would touch.        *)

ReadsInfo(t) ==
    \/ pc[t] \in {"c_create", "c_connect", "c_startdt", "c_connected",
                  "c_fail", "c_fail_null", "c_retry", "r_loop", "r_sleep",
                  "r_status", "r_swap", "r_create", "r_publish", "r_exit",
                  "r_giveup"}
    \/ t \in alias /\ pc[t] \in {"c_pub", "c_err_pub", "c_fail_pub"}

(* The handle a step uses: info->connection, read again, or its own.       *)
ReadsConnection(t) == pc[t] \in {"c_connect", "c_startdt", "c_fail"}
UsesHandle(t) == ReadsConnection(t) \/ pc[t] \in DestroyPcs \cup {"c_wait"}
HandleOf(t) == IF ReadsConnection(t) THEN connection[tinfo[t]] ELSE tconn[t]

(* The info, or the manager whose callback is called, has been freed.      *)
DanglingInfo(t) == \/ ReadsInfo(t) /\ tinfo[t] \notin live
                   \/ pc[t] \in ReportPcs /\ dtor = "done"
NullHandle(t)   == ReadsConnection(t) /\ HandleOf(t) = None
FreedHandle(t)  == UsesHandle(t) /\ HandleOf(t) # None /\ lib[HandleOf(t)] = "free"
(* connect on a handle that has been connected or is being destroyed.      *)
MisusedHandle(t) ==
    /\ pc[t] = "c_connect" /\ HandleOf(t) # None
    /\ lib[HandleOf(t)] # "idle" \/ closing[HandleOf(t)]
ThreadOK(t) == ~(DanglingInfo(t) \/ NullHandle(t) \/ FreedHandle(t) \/ MisusedHandle(t))

(* The library's thread calls a handler (connection, ASDU or raw message)  *)
(* and the handler's param points to a freed info.                         *)
DanglingParam(c) == /\ lib[c] \in {"opened", "up", "closed", "failed"}
                    /\ param[c] \notin live
(* A send* command, which uses info->connection under the lock if it is    *)
(* not null; that is all it does to the manager's state.                   *)
DanglingSend == /\ "send" \in Commands /\ dtor = "none" /\ Quiet
                /\ \E i \in live : connection[i] # None /\ lib[connection[i]] = "free"

UndefinedBehaviour ==
    /\ fault = "none"
    /\ \/ /\ \/ \E t \in Threads : DanglingInfo(t)
             \/ \E c \in Conns : DanglingParam(c)
          /\ fault' = "freed_info"
       \/ /\ \E t \in Threads : ~DanglingInfo(t) /\ NullHandle(t)
          /\ fault' = "null_conn"
       \/ /\ \/ \E t \in Threads : ~DanglingInfo(t) /\ FreedHandle(t)
             \/ DanglingSend
             \/ victim # None /\ lib[victim] = "free"
          /\ fault' = "freed_conn"
       \/ /\ \E t \in Threads : ~DanglingInfo(t) /\ ~FreedHandle(t) /\ MisusedHandle(t)
          /\ fault' = "misuse"
    /\ UNCHANGED <<registry, infoVars, libVars, threadVars, reported, dtor,
                   victim, todo, commands, drops>>
-----------------------------------------------------------------------------
Init ==
    /\ connections = [s \in Stations |-> None]
    /\ live = {}
    /\ station = [i \in Infos |-> None]
    /\ connection = [i \in Infos |-> None]
    /\ status = [i \in Infos |-> "DISCONNECTED"]
    /\ shouldReconnect = [i \in Infos |-> FALSE]
    /\ lib = [c \in Conns |-> "free"]
    /\ param = [c \in Conns |-> None]
    /\ closing = [c \in Conns |-> FALSE]
    /\ took = [c \in Conns |-> None]
    /\ again = [c \in Conns |-> FALSE]
    /\ pc = [t \in Threads |-> "idle"]
    /\ tinfo = [t \in Threads |-> None]
    /\ tconn = [t \in Threads |-> None]
    /\ left = [t \in Threads |-> 0]
    /\ alias = {}
    /\ reported = [s \in Stations |-> "DISCONNECTED"]
    /\ dtor = "none" /\ victim = None /\ todo = {}
    /\ commands = 0 /\ drops = 0
    /\ fault = "none"
-----------------------------------------------------------------------------
(* Public operations.  Early returns that change nothing (unknown station, *)
(* station already there, already connected) are stuttering steps.         *)

Call(op) ==
    /\ fault = "none" /\ dtor = "none"
    /\ op \in Commands /\ commands < MaxCommands /\ Quiet
    /\ commands' = commands + 1
    /\ UNCHANGED <<dtor, victim, todo, drops, fault>>

(* A new info enters the map; its connect thread is given the station id   *)
(* as a reference into the info.                                           *)
AddStation(s) ==
    /\ Call("add")
    /\ connections[s] = None
    /\ \E i \in FreshInfos, t \in IdleThreads :
        /\ connections' = [connections EXCEPT ![s] = i]
        /\ live' = live \cup {i}
        /\ station' = [station EXCEPT ![i] = s]
        /\ SetInfo(i, None, "CONNECTING", TRUE)
        /\ Run(t, "c_create", i, None, 0, alias \cup {t})
    /\ UNCHANGED <<libVars, reported>>

(* Erases the map entry, which frees the info, then destroys the handle    *)
(* outside the lock.                                                       *)
RemoveStation(s) ==
    /\ Call("remove")
    /\ connections[s] # None
    /\ LET i == connections[s]
           old == connection[i] IN
        /\ connections' = [connections EXCEPT ![s] = None]
        /\ live' = live \ {i}
        /\ SetInfo(i, None, status[i], FALSE)
        /\ BeginDestroy(old)
        /\ IF old = None
           THEN UNCHANGED threadVars
           ELSE \E t \in IdleThreads : Run(t, "rm_join", None, old, 0, alias)
    /\ UNCHANGED <<station, reported>>

(* Takes the handle out under the lock, destroys it outside, then reports. *)
TakeDown(s, keep, newStatus) ==
    /\ Call("disconnect")
    /\ connections[s] # None
    /\ LET i == connections[s]
           old == connection[i] IN
        /\ SetInfo(i, keep, newStatus, FALSE)
        /\ BeginDestroy(old)
        /\ \E t \in IdleThreads :
              Run(t, IF old = None THEN "x_pub" ELSE "x_join", i, old, 0, alias)
    /\ UNCHANGED <<registry, reported>>
(* Mutants: the handle stays in info->connection; the status stays.        *)
DisconnectKeepsHandle(s) == TakeDown(s, connection[connections[s]], "DISCONNECTED")
DisconnectKeepsStatus(s) == TakeDown(s, None, status[connections[s]])
DisconnectStation(s) == TakeDown(s, None, "DISCONNECTED")

(* Refuses only a station that is CONNECTED with a handle; reports         *)
(* CONNECTING while it holds the lock.                                     *)
ConnectStation(s) ==
    /\ Call("connect")
    /\ connections[s] # None
    /\ LET i == connections[s] IN
        /\ ~(connection[i] # None /\ status[i] = "CONNECTED")
        /\ SetInfo(i, connection[i], "CONNECTING", TRUE)
        /\ Report(i, "CONNECTING")
        /\ \E t \in IdleThreads : Run(t, "c_create", i, None, 0, alias)
    /\ UNCHANGED <<registry, libVars>>
-----------------------------------------------------------------------------
(* Steps that the threads have in common.                                  *)

Ready(t) == fault = "none" /\ ThreadOK(t) /\ UNCHANGED <<registry, others>>
At(t, p) == Ready(t) /\ pc[t] = p

(* A call of connectionCallback_, outside the lock.                        *)
Announced(p) == CASE p = "x_pub" -> "DISCONNECTED"
                  [] p = "r_pub" -> "CONNECTING"
                  [] p \in {"c_pub", "r_done_pub"} -> "CONNECTED"
                  [] OTHER -> "CONN_ERROR"
(* Mutant: no return after a successful reconnect.                         *)
AfterReportLooping(p) == CASE p = "r_pub" -> "r_swap"
                           [] p = "c_fail_pub" -> "c_retry"
                           [] p = "r_done_pub" -> "r_loop"
                           [] OTHER -> "idle"
AfterReport(p) == CASE p = "r_pub" -> "r_swap"
                    [] p = "c_fail_pub" -> "c_retry"
                    [] OTHER -> "idle"
ReportStatus(t) ==
    /\ Ready(t) /\ pc[t] \in ReportPcs
    /\ Report(tinfo[t], Announced(pc[t]))
    /\ Continue(t, AfterReport(pc[t]))
    /\ UNCHANGED <<infoVars, libVars>>

(* A failed attempt counts unless the number is unlimited.  Mutant: the    *)
(* test for unlimited is forgotten.                                        *)
OneLessAlways(n) == n - 1
OneLess(n) == IF n < 0 THEN n ELSE n - 1

(* CS104_Connection_destroy returns.                                       *)
AfterDestroy(p, n) == CASE p = "x_join" -> "x_pub"
                        [] p = "c_fail_join" -> "c_fail_null"
                        [] p = "r_join" -> "r_create"
                        [] p = "r_fail_join" -> "r_loop"
                        [] p = "d_join" /\ n # 0 -> "r_loop"
                        [] OTHER -> "idle"
DestroyReturns(t) ==
    /\ Ready(t) /\ pc[t] \in DestroyPcs
    /\ Free(tconn[t])
    /\ LET p == AfterDestroy(pc[t], left[t])
           n == IF pc[t] = "r_fail_join" THEN OneLess(left[t]) ELSE left[t] IN
       IF p = "idle" THEN End(t) ELSE Run(t, p, tinfo[t], None, n, alias)
    /\ UNCHANGED <<infoVars, reported>>
-----------------------------------------------------------------------------
(* connectThreadFunc: runs without the lock and reads info->connection     *)
(* again at each use.                                                      *)

ConnectCreate(t) ==
    /\ At(t, "c_create")
    /\ LET i == tinfo[t] IN
       \/ \E c \in FreshConns :
            /\ Create(c, i, "idle")
            /\ SetInfo(i, c, status[i], shouldReconnect[i])
            /\ Continue(t, "c_connect")
       \/ /\ SetInfo(i, None, "CONN_ERROR", shouldReconnect[i])
          /\ Continue(t, "c_err_pub")
          /\ UNCHANGED libVars
    /\ UNCHANGED reported

(* CS104_Connection_connect starts the handle's thread and waits for the   *)
(* outcome of the dial.                                                    *)
ConnectDial(t) ==
    /\ At(t, "c_connect")
    /\ LET c == connection[tinfo[t]] IN
        /\ lib' = [lib EXCEPT ![c] = "dialing"]
        /\ Run(t, "c_wait", tinfo[t], c, 0, alias)
    /\ UNCHANGED <<infoVars, param, closing, took, again, reported>>

ConnectReturns(t) ==
    /\ At(t, "c_wait")
    /\ \/ DialAnswered(tconn[t]) /\ Continue(t, "c_startdt")
       \/ DialRefused(tconn[t]) /\ Continue(t, "c_fail")
    /\ UNCHANGED <<infoVars, libVars, reported>>

(* sendStartDT on whatever info->connection is by now.                     *)
ConnectStartDT(t) ==
    /\ At(t, "c_startdt")
    /\ Continue(t, "c_connected")
    /\ UNCHANGED <<infoVars, libVars, reported>>

ConnectStatus(t) ==
    /\ At(t, "c_connected")
    /\ SetStatus(tinfo[t], "CONNECTED")
    /\ Continue(t, "c_pub")
    /\ UNCHANGED <<libVars, reported>>

ConnectFail(t) ==
    /\ At(t, "c_fail")
    /\ SetStatus(tinfo[t], "CONN_ERROR")
    /\ LET c == connection[tinfo[t]] IN
        /\ BeginDestroy(c)
        /\ Run(t, "c_fail_join", tinfo[t], c, 0, alias)
    /\ UNCHANGED reported

ConnectFailNull(t) ==
    /\ At(t, "c_fail_null")
    /\ LET i == tinfo[t] IN SetInfo(i, None, status[i], shouldReconnect[i])
    /\ Continue(t, "c_fail_pub")
    /\ UNCHANGED <<libVars, reported>>

(* The reconnect thread it starts takes over its slot; that thread has its *)
(* own copy of the station id.                                             *)
ConnectRetry(t) ==
    /\ At(t, "c_retry")
    /\ IF shouldReconnect[tinfo[t]]
       THEN Run(t, "r_loop", tinfo[t], None, MaxRetries, alias \ {t})
       ELSE End(t)
    /\ UNCHANGED <<infoVars, libVars, reported>>
-----------------------------------------------------------------------------
(* reconnectThreadFunc                                                     *)

RetryLoop(t) ==
    /\ At(t, "r_loop")
    /\ Continue(t, IF shouldReconnect[tinfo[t]] /\ left[t] # 0
                   THEN "r_sleep" ELSE "r_exit")
    /\ UNCHANGED <<infoVars, libVars, reported>>

(* The back-off is over.                                                   *)
RetryWakes(t) ==
    /\ At(t, "r_sleep")
    /\ Continue(t, IF shouldReconnect[tinfo[t]] THEN "r_status" ELSE "r_exit")
    /\ UNCHANGED <<infoVars, libVars, reported>>

RetryStatusIs(t, s) ==
    /\ At(t, "r_status") /\ LockFree
    /\ SetStatus(tinfo[t], s)
    /\ Continue(t, "r_pub")
    /\ UNCHANGED <<libVars, reported>>
RetryKeepsStatus(t) == RetryStatusIs(t, status[tinfo[t]])     \* mutant
RetryStatus(t) == RetryStatusIs(t, "CONNECTING")

(* Takes the current handle out, whatever its state, and destroys it.      *)
(* Mutant: its memory is released without telling its thread to end.       *)
SwapOut(t, closed) ==
    /\ At(t, "r_swap") /\ LockFree
    /\ LET i == tinfo[t]
           old == connection[i] IN
        /\ SetInfo(i, None, status[i], shouldReconnect[i])
        /\ BeginDestroy(IF closed THEN old ELSE None)
        /\ Run(t, IF old = None THEN "r_create" ELSE "r_join", i, old, left[t], alias)
    /\ UNCHANGED reported
RetryFreesOpenHandle(t) == SwapOut(t, FALSE)                  \* mutant
RetrySwap(t) == SwapOut(t, TRUE)

(* The new handle is private to this thread until it is published, unless  *)
(* shared (mutant).                                                        *)
DialNew(t, shared) ==
    /\ At(t, "r_create")
    /\ LET i == tinfo[t] IN \E c \in FreshConns :
        /\ Create(c, i, "dialing")
        /\ Run(t, "r_wait", i, c, left[t], alias)
        /\ SetInfo(i, IF shared THEN c ELSE connection[i], status[i], shouldReconnect[i])
    /\ UNCHANGED reported
RetryDialShared(t) == DialNew(t, TRUE)
RetryDial(t) == DialNew(t, FALSE)

RetryCreateFails(t) ==
    /\ At(t, "r_create")
    /\ Run(t, "r_loop", tinfo[t], None, OneLess(left[t]), alias)
    /\ UNCHANGED <<infoVars, libVars, reported>>

RetryReturns(t) ==
    /\ At(t, "r_wait")
    /\ LET c == tconn[t] IN
       \/ /\ DialAnswered(c)
          /\ Run(t, "r_publish", tinfo[t], c, left[t], alias)
          /\ UNCHANGED libVars
       \/ /\ DialRefused(c)
          /\ Run(t, "r_fail_join", tinfo[t], c, left[t], alias)
          /\ BeginDestroy(c)
    /\ UNCHANGED <<infoVars, reported>>

(* Neither shouldReconnect nor the handle's state is looked at again.      *)
Publish(t, c) ==
    /\ At(t, "r_publish") /\ LockFree
    /\ LET i == tinfo[t] IN SetInfo(i, c, "CONNECTED", shouldReconnect[i])
    /\ Run(t, "r_done_pub", tinfo[t], None, 0, alias)
    /\ UNCHANGED <<libVars, reported>>
RetryForgetsToPublish(t) == Publish(t, connection[tinfo[t]])  \* mutant
RetryPublish(t) == Publish(t, tconn[t])

RetryExit(t) ==
    /\ At(t, "r_exit")
    /\ Continue(t, IF shouldReconnect[tinfo[t]] THEN "r_giveup" ELSE "idle")
    /\ UNCHANGED <<infoVars, libVars, reported>>

GiveUpWith(t, s) ==
    /\ At(t, "r_giveup") /\ LockFree
    /\ SetStatus(tinfo[t], s)
    /\ Continue(t, "r_exit_pub")
    /\ UNCHANGED <<libVars, reported>>
RetryGivesUpSilently(t) == GiveUpWith(t, status[tinfo[t]])    \* mutant
RetryGiveUp(t) == GiveUpWith(t, "CONN_ERROR")

ThreadStep(t) ==
    \/ ReportStatus(t) \/ DestroyReturns(t) \/ ConnectCreate(t)
    \/ ConnectDial(t) \/ ConnectReturns(t) \/ ConnectStartDT(t)
    \/ ConnectStatus(t) \/ ConnectFail(t) \/ ConnectFailNull(t)
    \/ ConnectRetry(t) \/ RetryLoop(t) \/ RetryWakes(t) \/ RetryStatus(t)
    \/ RetrySwap(t) \/ RetryDial(t) \/ RetryCreateFails(t)
    \/ RetryReturns(t) \/ RetryPublish(t) \/ RetryExit(t) \/ RetryGiveUp(t)
-----------------------------------------------------------------------------
(* The library's thread of handle c.  The dial and the end of a session    *)
(* are the library's and the peer's; the rest is connectionHandler.        *)

LibStep(c, from, to) ==
    /\ fault = "none" /\ lib[c] = from
    /\ lib' = [lib EXCEPT ![c] = to]
    /\ UNCHANGED <<registry, param, dtor, victim, todo, commands, fault>>
LibOnly(c, from, to) ==
    /\ LibStep(c, from, to)
    /\ UNCHANGED <<infoVars, closing, took, again, threadVars, reported>>

DialSucceeds(c) == LibOnly(c, "dialing", "opened") /\ UNCHANGED drops
DialFails(c)    == LibOnly(c, "dialing", "failed") /\ UNCHANGED drops
SessionEnds(c)  ==
    /\ LibOnly(c, "up", "closed")
    /\ \/ closing[c] /\ UNCHANGED drops
       \/ ~closing[c] /\ drops < MaxDrops /\ Quiet /\ drops' = drops + 1

(* The part of a handler under the lock, and its report.                   *)
Handler(c, from, to) ==
    /\ LockFree /\ param[c] \in live
    /\ LibStep(c, from, to)
    /\ UNCHANGED <<closing, threadVars, reported, drops>>
HandlerReport(c, from, to, s) ==
    /\ LibStep(c, from, to)
    /\ Report(param[c], s)
    /\ UNCHANGED <<infoVars, drops>>

OpenedHandler(c) == /\ Handler(c, "opened", "opened_cb")
                    /\ SetStatus(param[c], "CONNECTED")
                    /\ UNCHANGED <<took, again>>
OpenedReport(c)  == /\ HandlerReport(c, "opened_cb", "up", "CONNECTED")
                    /\ UNCHANGED <<closing, took, again, threadVars>>
FailedHandler(c) == /\ Handler(c, "failed", "failed_cb")
                    /\ SetStatus(param[c], "CONN_ERROR")
                    /\ UNCHANGED <<took, again>>
FailedReport(c)  == /\ HandlerReport(c, "failed_cb", "gone", "CONN_ERROR")
                    /\ UNCHANGED <<closing, took, again, threadVars>>

(* Takes info->connection, be it this handle or another.                   *)
ClosedHandler(c) ==
    /\ Handler(c, "closed", "closed_cb")
    /\ LET i == param[c] IN
        /\ took' = [took EXCEPT ![c] = connection[i]]
        /\ again' = [again EXCEPT ![c] = shouldReconnect[i]]
        /\ SetInfo(i, None, "DISCONNECTED", shouldReconnect[i])

(* Reports, then detaches a thread that destroys oldConn and reconnects    *)
(* with no limit if the handler captured shouldReconnect.                  *)
LimitedRetries == MaxRetries  \* mutant: the limit of a first connection
DropRetries == -1
ClosedReport(c) ==
    /\ HandlerReport(c, "closed_cb", "ended", "DISCONNECTED")
    /\ LET old == took[c]
           n == IF again[c] THEN DropRetries ELSE 0 IN
        /\ closing' = IF old = None THEN closing ELSE [closing EXCEPT ![old] = TRUE]
        /\ IF old = None /\ n = 0
           THEN UNCHANGED threadVars
           ELSE \E t \in IdleThreads :
                  Run(t, IF old = None THEN "r_loop" ELSE "d_join", param[c], old, n, alias)
    /\ took' = [took EXCEPT ![c] = None]
    /\ again' = [again EXCEPT ![c] = FALSE]

ConnectionHandler(c) == \/ OpenedHandler(c) \/ OpenedReport(c)
                        \/ ClosedHandler(c) \/ ClosedReport(c)
                        \/ FailedHandler(c) \/ FailedReport(c)
-----------------------------------------------------------------------------
(* ~IEC104ConnectionManager: destroys every handle while it holds the lock. *)

DtorStep == /\ fault = "none"
            /\ UNCHANGED <<station, infoVars, threadVars, reported, commands,
                           drops, fault>>

DestructorStarts ==
    /\ DtorStep /\ dtor = "none"
    /\ "shutdown" \in Commands /\ commands < MaxCommands /\ Quiet
    /\ dtor' = "locked" /\ todo' = Stations
    /\ UNCHANGED <<connections, live, libVars, victim>>

DestructorDestroys(s) ==
    /\ DtorStep /\ dtor = "locked" /\ victim = None /\ s \in todo
    /\ todo' = todo \ {s}
    /\ victim' = IF connections[s] = None THEN None ELSE connection[connections[s]]
    /\ BeginDestroy(victim')
    /\ UNCHANGED <<connections, live, dtor>>

DestructorJoins ==
    /\ DtorStep /\ dtor = "locked" /\ victim # None
    /\ Free(victim)
    /\ victim' = None
    /\ UNCHANGED <<connections, live, dtor, todo>>

DestructorEnds ==
    /\ DtorStep /\ dtor = "locked" /\ victim = None /\ todo = {}
    /\ connections' = [s \in Stations |-> None]
    /\ live' = {}
    /\ dtor' = "done"
    /\ UNCHANGED <<libVars, victim, todo>>

Destructor == \/ \E s \in Stations : DestructorDestroys(s)
              \/ DestructorJoins \/ DestructorEnds
-----------------------------------------------------------------------------
Next ==
    \/ \E s \in Stations : \/ AddStation(s) \/ RemoveStation(s)
                           \/ DisconnectStation(s) \/ ConnectStation(s)
    \/ \E t \in Threads : ThreadStep(t)
    \/ \E c \in Conns : \/ DialSucceeds(c) \/ DialFails(c) \/ SessionEnds(c)
                        \/ ConnectionHandler(c)
    \/ DestructorStarts \/ Destructor
    \/ UndefinedBehaviour

Spec == Init /\ [][Next]_vars
-----------------------------------------------------------------------------
(* Fairness.  Every thread of the program and of the library is scheduled, *)
(* every back-off and every dial (10 s connect timeout) ends, a            *)
(* handle told to close leaves its loop.                                   *)
Fairness ==
    /\ \A t \in Threads : WF_vars(ThreadStep(t))
    /\ \A c \in Conns : /\ WF_vars(DialSucceeds(c) \/ DialFails(c))
                        /\ WF_vars(closing[c] /\ SessionEnds(c))
                        /\ WF_vars(ConnectionHandler(c))
    /\ WF_vars(Destructor)
    /\ WF_vars(UndefinedBehaviour)

(* The peer and the allocator do not fail for ever: a dial that is tried   *)
(* again and again succeeds at last, and so does createConnection.         *)
PeerReturns ==
    /\ \A i \in Infos :
          SF_vars(\E c \in Conns : param[c] = i /\ DialSucceeds(c))
    /\ \A t \in Threads : SF_vars(RetryDial(t))

LiveSpec    == Spec /\ Fairness
RecoverSpec == LiveSpec /\ PeerReturns
-----------------------------------------------------------------------------
(* Properties.                                                             *)

(* Every variable has its type.                                            *)
TypeOK ==
    /\ connections \in [Stations -> Infos \cup {None}]
    /\ live \subseteq Infos
    /\ station \in [Infos -> Stations \cup {None}]
    /\ connection \in [Infos -> Conns \cup {None}]
    /\ status \in [Infos -> Status]
    /\ shouldReconnect \in [Infos -> BOOLEAN]
    /\ lib \in [Conns -> LibStates]
    /\ param \in [Conns -> Infos \cup {None}]
    /\ closing \in [Conns -> BOOLEAN]
    /\ took \in [Conns -> Conns \cup {None}]
    /\ again \in [Conns -> BOOLEAN]
    /\ pc \in [Threads -> Pcs]
    /\ tinfo \in [Threads -> Infos \cup {None}]
    /\ tconn \in [Threads -> Conns \cup {None}]
    /\ left \in [Threads -> -1..MaxRetries]
    /\ alias \subseteq Threads
    /\ reported \in [Stations -> Status]
    /\ dtor \in {"none", "locked", "done"}
    /\ victim \in Conns \cup {None}
    /\ todo \subseteq Stations
    /\ commands \in 0..MaxCommands /\ drops \in 0..MaxDrops
    /\ fault \in Faults \cup {"none"}

(* The threads that took a handle out of info->connection, or made one of  *)
(* their own, and will destroy or publish it.                              *)
Owns(t) == pc[t] \in JoinPcs \cup {"r_wait", "r_publish"} /\ tconn[t] # None

(* A handle is in at most one place: one info->connection, one CLOSED      *)
(* handler's oldConn, or the local variable of one thread that owns it.    *)
HandlesApart ==
    /\ \A i, j \in Infos : connection[i] # None /\ connection[i] = connection[j] => i = j
    /\ \A c, d \in Conns : took[c] # None /\ took[c] = took[d] => c = d
    /\ \A t, u \in Threads : Owns(t) /\ Owns(u) /\ tconn[t] = tconn[u] => t = u
    /\ \A i \in Infos, c \in Conns : connection[i] # None => connection[i] # took[c]
    /\ \A i \in Infos, t \in Threads : Owns(t) => connection[i] # tconn[t]
    /\ \A c \in Conns, t \in Threads : Owns(t) => took[c] # tconn[t]
(* The handle the destructor destroys is one that no thread and no handler *)
(* has taken out of info->connection.                                      *)
VictimApart ==
    victim # None => /\ \A c \in Conns : took[c] # victim
                     /\ \A t \in Threads : Owns(t) => tconn[t] # victim

(* No two of disconnectStation, removeStation, reconnectThreadFunc, the    *)
(* CLOSED handler and the destructor (connection.cpp:139, 178, 318, 678,   *)
(* 75) ever destroy the same handle, however they interleave.  The handle  *)
(* connectThreadFunc destroys at connection.cpp:262 is not covered: it     *)
(* stays in info->connection meanwhile, and one of those may destroy it    *)
(* too.                                                                    *)
SingleOwner == HandlesApart /\ VictimApart

(* The handle reconnectThreadFunc dials (connection.cpp:326-344) is never  *)
(* closed or freed by anybody else before it is published, whatever the    *)
(* user does meanwhile: newConn cannot dangle at sendStartDT.              *)
DialIsPrivate ==
    \A t \in Threads : pc[t] \in {"r_wait", "r_publish"} =>
        /\ tconn[t] # None
        /\ lib[tconn[t]] \notin {"free", "idle"}
        /\ ~closing[tconn[t]]

(* A destroy call returns: disconnectStation, removeStation, the           *)
(* reconnect thread and the CLOSED handler's thread never wait for ever    *)
(* for the library's thread, because they hold no lock its handler needs.  *)
DestroyCompletes ==
    \A t \in Threads :
        pc[t] \in JoinPcs \cup {"c_fail_join"} ~>
            pc[t] \notin JoinPcs \cup {"c_fail_join"} \/ fault # "none"

(* No step reads freed memory, a null handle, or connects a handle twice.  *)
NoFault == fault = "none"

(* connectionHandler and the threads of a station read the station's info  *)
(* only while it exists (connection.cpp:253, "pass info pointer to get     *)
(* station_id in callbacks").                                              *)
InfoOutlivesUse == fault # "freed_info"

Connected(i) == connection[i] # None /\ lib[connection[i]] = "up"

(* A handle with a live session is the one in info->connection, or some    *)
(* thread or handler still holds it and will destroy or publish it: no     *)
(* session is leaked (connection.cpp:243 overwrites the field).            *)
NoOrphan ==
    \A c \in Conns : lib[c] = "up" =>
        \/ \E i \in live : connection[i] = c
        \/ \E t \in Threads : tconn[t] = c
        \/ \E d \in Conns : took[d] = c

(* A reconnect thread publishes a new session only while reconnecting is   *)
(* still wanted (connection.cpp:360, "Reconnect stopped by user").         *)
ReconnectStops ==
    [][\A t \in Threads : pc[t] = "r_publish" /\ pc'[t] = "r_done_pub"
           => shouldReconnect[tinfo[t]]]_vars

(* When nothing is under way the state shown is the state there is: status *)
(* and the last reported status are CONNECTED exactly for a station whose  *)
(* session is up, and agree otherwise too.                                 *)
RestAccurate ==
    \A i \in live : AtRest(i) =>
        /\ (status[i] = "CONNECTED") = Connected(i)
        /\ status[i] # "CONNECTING"
        /\ reported[station[i]] = status[i]

(* A station the user disconnected is down once nothing is under way: no   *)
(* session and no handle, until connectStation is called.                  *)
DisconnectedStaysDown ==
    \A i \in live : AtRest(i) /\ ~shouldReconnect[i] =>
        connection[i] = None /\ status[i] = "DISCONNECTED"

(* After a call or a drop the station comes to rest again: in the end no   *)
(* thread works on it (connection.cpp:294, unlimited retries are "for      *)
(* established connections that dropped").                                 *)
Settles == <>[](\A i \in live : AtRest(i) \/ fault # "none")

(* A session the peer ended comes back while the user wants it, provided   *)
(* the peer can be reached again (reconnectThreadFunc with -1).            *)
DropRecovers ==
    \A s \in Stations :
        (LET i == connections[s] IN
            i # None /\ status[i] = "DISCONNECTED" /\ shouldReconnect[i])
        ~> (LET i == connections[s] IN
            i = None \/ (status[i] = "CONNECTED" /\ Connected(i)))

(* A first connection to a peer that never answers ends: after the last    *)
(* retry the station rests in CONN_ERROR, which has been reported          *)
(* (connection.cpp:295-304, 352-361).                                      *)
Starting(s) == \E t \in Threads :
    pc[t] = "c_create" /\ tinfo[t] = connections[s]
GaveUp(s) ==
    LET i == connections[s] IN
    /\ i # None /\ AtRest(i)
    /\ status[i] = "CONN_ERROR" /\ reported[s] = "CONN_ERROR"
GivesUp ==
    [](\A c \in Conns : lib[c] # "opened") =>
        \A s \in Stations : Starting(s) ~> GaveUp(s)

(* The manager treats every library handle as the library asks: connected  *)
(* at most once, never after its destruction began, freed only by a        *)
(* destroy and after its last handler (connection.cpp:243-270, 318-344,    *)
(* 674-700).                                                               *)
Phase(c) == CASE lib[c] \in {"opened", "opened_cb", "up"} -> "up"
              [] lib[c] \in {"closed", "closed_cb", "failed", "failed_cb"} -> "ending"
              [] lib[c] \in {"ended", "gone"} -> "over"
              [] OTHER -> lib[c]
Handle == INSTANCE HandleLifecycle WITH
    phase <- [c \in Conns |-> Phase(c)],
    closing <- [c \in Conns |-> closing[c] /\ lib[c] # "free"]
HandlesUsedRight == Handle!Spec

(* The operator's view: see StationPromise (connection.cpp:290-361,        *)
(* 655-712).                                                               *)
Promise == INSTANCE StationPromise WITH
    shown <- [s \in Stations |-> IF connections[s] = None THEN "ABSENT"
                                 ELSE status[connections[s]]],
    wanted <- [s \in Stations |-> connections[s] # None
                                  /\ shouldReconnect[connections[s]]]
PromiseKept == Promise!Spec

(* The destructor returns (connection.cpp:149, "Destroy outside lock to    *)
(* avoid deadlock").                                                       *)
ShutdownCompletes == dtor = "locked" ~> dtor = "done" \/ fault # "none"
=============================================================================
