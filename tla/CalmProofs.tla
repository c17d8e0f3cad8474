------------------------------ MODULE CalmProofs ------------------------------
(***************************************************************************)
(* ConnectionManager when calls and drops wait until every station is at   *)
(* rest and no station is removed: what a station at rest shows is what it *)
(* is, and the operator sees what StationPromise allows, for every number  *)
(* of stations, infos, handles and threads.  The code waits for nothing,   *)
(* and neither does a peer: this is about the sequential path through the  *)
(* manager, with its threads, handlers and retries, and says nothing of    *)
(* calls and drops that overlap.                                           *)
(*                                                                         *)
(* The inductive invariant says of every station that it has at most one   *)
(* worker (a thread with its info) and at most one handle, and which of    *)
(* its four situations it is in.                                           *)
(***************************************************************************)
EXTENDS ConnectionManagerProofs

(* A removal is left out: it frees the info while the handle may still be  *)
(* in use, at rest too (run CMRemove).                                     *)
CalmOperator == Calm = TRUE /\ "remove" \notin Commands

NoWorker(i)     == \A t \in Threads : tinfo[t] # i
NoHandle(i)     == \A c \in Conns : param[c] # i
TheWorker(t, i) == tinfo[t] = i /\ \A u \in Threads : tinfo[u] = i => u = t
TheHandle(c, i) == param[c] = i /\ \A d \in Conns : param[d] = i => d = c

(* A dial by what the library's thread of the handle has done of it.       *)
Answered(i, c) ==
    \/ lib[c] = "opened" /\ status[i] = "CONNECTING"
    \/ lib[c] \in {"opened_cb", "up"} /\ status[i] = "CONNECTED"
Refused(i, c) ==
    \/ lib[c] = "failed" /\ status[i] = "CONNECTING"
    \/ lib[c] \in {"failed_cb", "gone"} /\ status[i] = "CONN_ERROR"
Dialing(i, c) == lib[c] = "dialing" /\ status[i] = "CONNECTING"

(* 1. Nothing runs and there is no handle.                                 *)
Down(i) ==
    /\ connection[i] = None
    /\ reported[station[i]] = status[i]
    /\ status[i] = IF shouldReconnect[i] THEN "CONN_ERROR" ELSE "DISCONNECTED"

(* 2. No thread of the manager runs: the session is up, coming up or       *)
(* ended, and ClosedHandler has taken the handle out or is to do so.       *)
Session(i, c) ==
    /\ shouldReconnect[i]
    /\ \/ /\ lib[c] \in {"opened", "opened_cb", "up", "closed"}
          /\ connection[i] = c
          /\ status[i] = "CONNECTED" /\ reported[station[i]] = "CONNECTED"
       \/ /\ lib[c] = "closed_cb"
          /\ connection[i] = None
          /\ status[i] = "DISCONNECTED"
          /\ took[c] = c /\ again[c]

(* 3. A thread works and there is no handle.                               *)
Errors  == {"c_err_pub", "c_fail_null", "c_fail_pub", "c_retry", "r_exit_pub"}
Dials   == {"c_create", "r_pub", "r_swap", "r_create"}
Waits   == {"r_loop", "r_sleep", "r_status"}
GivesIn == {"r_exit", "r_giveup"}
Between(i, t) ==
    /\ pc[t] \in {"x_pub"} \cup Errors \cup Dials \cup Waits \cup GivesIn
    /\ pc[t] # "c_fail_null" => connection[i] = None
    /\ shouldReconnect[i] <=> pc[t] # "x_pub"
    /\ pc[t] = "x_pub" => status[i] = "DISCONNECTED"
    /\ pc[t] \in Errors => status[i] = "CONN_ERROR"
    /\ pc[t] \in Dials => status[i] = "CONNECTING"
    /\ pc[t] \in Waits => \/ status[i] \in {"CONNECTING", "CONN_ERROR"}
                          \/ status[i] = "DISCONNECTED" /\ left[t] = -1
    /\ pc[t] \in GivesIn => status[i] \in {"CONNECTING", "CONN_ERROR"}

(* 4. A thread works with the handle.                                      *)
Inside  == {"c_connect", "c_wait", "c_startdt", "c_connected", "c_pub",
            "c_fail", "c_fail_join", "r_done_pub"}
Outside == {"r_wait", "r_publish", "r_fail_join", "d_join", "x_join"}
Joining == {"c_fail_join", "r_fail_join", "d_join", "x_join"}
Using(i, t, c) ==
    /\ pc[t] \in Inside \cup Outside
    /\ connection[i] = IF pc[t] \in Inside THEN c ELSE None
    /\ pc[t] \in Outside \cup {"c_wait", "c_fail_join"} => tconn[t] = c
    /\ closing[c] <=> pc[t] \in Joining
    /\ shouldReconnect[i] <=> pc[t] # "x_join"
    /\ pc[t] = "c_connect" => lib[c] = "idle" /\ status[i] = "CONNECTING"
    /\ pc[t] \in {"c_wait", "r_wait"} =>
          Dialing(i, c) \/ Answered(i, c) \/ Refused(i, c)
    /\ pc[t] \in {"c_startdt", "c_connected", "r_publish"} => Answered(i, c)
    /\ pc[t] \in {"c_pub", "r_done_pub"} =>
          lib[c] \in {"opened", "opened_cb", "up"} /\ status[i] = "CONNECTED"
    /\ pc[t] \in {"c_fail", "r_fail_join"} => Refused(i, c)
    /\ pc[t] = "c_fail_join" =>
          lib[c] \in {"failed", "failed_cb", "gone"} /\ status[i] = "CONN_ERROR"
    /\ pc[t] = "d_join" =>
          lib[c] = "ended" /\ status[i] = "DISCONNECTED" /\ left[t] = -1
    /\ pc[t] = "x_join" =>
          /\ lib[c] \in {"up", "closed", "closed_cb", "ended"}
          /\ status[i] = "DISCONNECTED"
          /\ lib[c] = "closed_cb" => took[c] = None /\ ~again[c]

Situation(i) ==
    \/ NoWorker(i) /\ NoHandle(i) /\ Down(i)
    \/ NoWorker(i) /\ \E c \in Conns : TheHandle(c, i) /\ Session(i, c)
    \/ NoHandle(i) /\ \E t \in Threads : TheWorker(t, i) /\ Between(i, t)
    \/ \E t \in Threads, c \in Conns :
          TheWorker(t, i) /\ TheHandle(c, i) /\ Using(i, t, c)

(* The threads and the handles belong to stations that exist.              *)
Belongs ==
    /\ \A t \in Threads : tinfo[t] = None <=> pc[t] = "idle"
    /\ \A t \in Threads : tinfo[t] \in live \cup {None}
    /\ \A c \in Conns : param[c] = None <=> lib[c] = "free"
    /\ \A c \in Conns : param[c] \in live \cup {None}
Registered ==
    /\ \A i \in live : station[i] \in Stations /\ connections[station[i]] = i
    /\ \A s \in Stations : connections[s] # None =>
          connections[s] \in live /\ station[connections[s]] = s

(* The destructor starts when no thread works, and none does after that; a *)
(* station it is done with has no handle but the one it waits for.         *)
Ending ==
    /\ dtor = "none" => victim = None
    /\ dtor # "none" => /\ \A t \in Threads : pc[t] = "idle"
                        /\ \A c \in Conns : lib[c] \in {"free", "up", "closed"}
    /\ dtor = "locked" => \A i \in live :
          station[i] \in todo \/ NoHandle(i) \/ (victim # None /\ param[victim] = i)
    /\ victim # None => param[victim] # None
    /\ dtor = "done" => live = {}

CalmInv ==
    /\ fault = "none"
    /\ Belongs
    /\ Registered
    /\ Ending
    /\ \A i \in live : Situation(i)
-----------------------------------------------------------------------------
(* What a step that is about station i alone leaves as it is, and what the *)
(* operator may see of it.                                                 *)
SameThread(t) == /\ pc'[t] = pc[t] /\ tinfo'[t] = tinfo[t]
                 /\ tconn'[t] = tconn[t] /\ left'[t] = left[t]
SameHandle(c) == /\ lib'[c] = lib[c] /\ param'[c] = param[c]
                 /\ closing'[c] = closing[c]
                 /\ took'[c] = took[c] /\ again'[c] = again[c]
SameInfo(i) == /\ connection'[i] = connection[i] /\ status'[i] = status[i]
               /\ shouldReconnect'[i] = shouldReconnect[i]
OnlyInfo(i)   == \A j \in Infos \ {i} : SameInfo(j)
OnlyReport(i) == \A s \in Stations \ {station[i]} : reported'[s] = reported[s]
OnlyThread(i, t) ==
    /\ \A u \in Threads \ {t} : SameThread(u)
    /\ tinfo[t] \in {i, None} /\ tinfo'[t] \in {i, None}
    /\ tinfo'[t] = None <=> pc'[t] = "idle"
OnlyHandle(i, c) ==
    /\ \A d \in Conns \ {c} : SameHandle(d)
    /\ param[c] \in {i, None} /\ param'[c] \in {i, None}
    /\ param'[c] = None <=> lib'[c] = "free"
ThreadsOf(i) ==
    \A t \in Threads :
        \/ SameThread(t)
        \/ /\ tinfo[t] \in {i, None} /\ tinfo'[t] \in {i, None}
           /\ tinfo'[t] = None <=> pc'[t] = "idle"
HandlesOf(i) ==
    \A c \in Conns :
        \/ SameHandle(c)
        \/ /\ param[c] \in {i, None} /\ param'[c] \in {i, None}
           /\ param'[c] = None <=> lib'[c] = "free"
Lawful(i) ==
    \/ status'[i] = status[i] /\ shouldReconnect'[i] = shouldReconnect[i]
    \/ /\ status[i] = "CONNECTING" /\ status'[i] \in {"CONNECTED", "CONN_ERROR"}
       /\ shouldReconnect[i] /\ shouldReconnect'[i]
    \/ /\ status[i] \in {"DISCONNECTED", "CONN_ERROR"} /\ status'[i] = "CONNECTING"
       /\ shouldReconnect'[i]
    \/ /\ status[i] = "CONNECTED" /\ status'[i] = "DISCONNECTED"
       /\ shouldReconnect[i] /\ shouldReconnect'[i]
    \/ status'[i] = "DISCONNECTED" /\ ~shouldReconnect'[i]
PromiseStep == [Promise!Next]_(Promise!vars)

LEMMA Undisturbed ==
  ASSUME NEW i \in live, Situation(i), SameInfo(i), station'[i] = station[i],
         reported'[station[i]] = reported[station[i]],
         \A t \in Threads : SameThread(t) \/ (tinfo[t] # i /\ tinfo'[t] # i),
         \A c \in Conns : SameHandle(c) \/ (param[c] # i /\ param'[c] # i)
  PROVE  Situation(i)'
<1>1. \A t \in Threads : (tinfo[t] = i <=> tinfo'[t] = i) /\ (tinfo[t] = i => SameThread(t))
  BY DEF SameThread
<1>2. \A c \in Conns : (param[c] = i <=> param'[c] = i) /\ (param[c] = i => SameHandle(c))
  BY DEF SameHandle
<1>3. /\ NoWorker(i) => NoWorker(i)'
      /\ \A t \in Threads : TheWorker(t, i) => TheWorker(t, i)' /\ SameThread(t)
  BY <1>1 DEF NoWorker, TheWorker
<1>4. /\ NoHandle(i) => NoHandle(i)'
      /\ \A c \in Conns : TheHandle(c, i) => TheHandle(c, i)' /\ SameHandle(c)
  BY <1>2 DEF NoHandle, TheHandle
<1>5. Down(i) => Down(i)'
  BY DEF Down, SameInfo
<1>6. ASSUME NEW c \in Conns, SameHandle(c), Session(i, c) PROVE Session(i, c)'
  BY <1>6 DEF Session, SameInfo, SameHandle
<1>7. ASSUME NEW t \in Threads, SameThread(t), Between(i, t) PROVE Between(i, t)'
  BY <1>7 DEF Between, SameInfo, SameThread
<1>8. ASSUME NEW t \in Threads, NEW c \in Conns, SameThread(t), SameHandle(c), Using(i, t, c)
      PROVE  Using(i, t, c)'
  BY <1>8 DEF Using, SameInfo, SameThread, SameHandle, Answered, Refused, Dialing
<1> QED BY <1>3, <1>4, <1>5, <1>6, <1>7, <1>8 DEF Situation

(* What the operator sees of station s.                                    *)
Shown(s)  == IF connections[s] = None THEN "ABSENT" ELSE status[connections[s]]
Wanted(s) == connections[s] # None /\ shouldReconnect[connections[s]]
AllShown  == [s \in Stations |-> Shown(s)]
AllWanted == [s \in Stations |-> Wanted(s)]

LEMMA PromiseMove ==
  ASSUME NEW r \in Stations, NEW to, NEW want \in BOOLEAN,
         \A s \in Stations \ {r} : Shown(s)' = Shown(s) /\ (Wanted(s)' <=> Wanted(s)),
         Shown(r)' = to, Wanted(r)' <=> want,
         \/ Shown(r)' = Shown(r) /\ (Wanted(r)' <=> Wanted(r))
         \/ Shown(r) = "ABSENT" /\ to = "CONNECTING" /\ want
         \/ Shown(r) \in {"DISCONNECTED", "CONN_ERROR"} /\ to = "CONNECTING" /\ want
         \/ Shown(r) # "ABSENT" /\ to = "DISCONNECTED" /\ ~want
         \/ /\ Shown(r) = "CONNECTING" /\ to \in {"CONNECTED", "CONN_ERROR"}
            /\ Wanted(r) /\ want
         \/ Shown(r) = "CONNECTED" /\ to = "DISCONNECTED" /\ Wanted(r) /\ want
  PROVE  PromiseStep
<1> USE DEF Promise!Show, Promise!Want, AllShown, AllWanted, Shown, Wanted
<1>1. AllShown' = [AllShown EXCEPT ![r] = to] /\ AllWanted' = [AllWanted EXCEPT ![r] = want]
  OBVIOUS
<1>2. CASE Shown(r)' = Shown(r) /\ (Wanted(r)' <=> Wanted(r))
  BY <1>2 DEF PromiseStep, Promise!vars
<1>3. CASE Shown(r) = "ABSENT" /\ to = "CONNECTING" /\ want
  <2>1. Promise!Add(r)
    BY <1>1, <1>3 DEF Promise!Add
  <2> QED BY <2>1 DEF PromiseStep, Promise!Next
<1>4. CASE Shown(r) \in {"DISCONNECTED", "CONN_ERROR"} /\ to = "CONNECTING" /\ want
  <2>1. Promise!Connect(r)
    BY <1>1, <1>4 DEF Promise!Connect
  <2> QED BY <2>1 DEF PromiseStep, Promise!Next
<1>5. CASE Shown(r) # "ABSENT" /\ to = "DISCONNECTED" /\ ~want
  <2>1. Promise!Disconnect(r)
    BY <1>1, <1>5 DEF Promise!Disconnect
  <2> QED BY <2>1 DEF PromiseStep, Promise!Next
<1>6. CASE /\ Shown(r) = "CONNECTING" /\ to \in {"CONNECTED", "CONN_ERROR"}
           /\ Wanted(r) /\ want
  <2>1. AllWanted' = AllWanted
    BY <1>1, <1>6
  <2>2. Promise!Answer(r)
    BY <1>1, <1>6, <2>1 DEF Promise!Answer
  <2> QED BY <2>2 DEF PromiseStep, Promise!Next
<1>7. CASE Shown(r) = "CONNECTED" /\ to = "DISCONNECTED" /\ Wanted(r) /\ want
  <2>1. AllWanted' = AllWanted
    BY <1>1, <1>7
  <2>2. Promise!Lose(r)
    BY <1>1, <1>7, <2>1 DEF Promise!Lose
  <2> QED BY <2>2 DEF PromiseStep, Promise!Next
<1> QED BY <1>2, <1>3, <1>4, <1>5, <1>6, <1>7

(* A step about station i alone keeps the invariant and the promise.       *)
LEMMA LocalStep ==
  ASSUME TypeOK, TypeOK', CalmInv, Ending', UNCHANGED <<registry, fault>>,
         NEW i \in live, OnlyInfo(i), OnlyReport(i), ThreadsOf(i), HandlesOf(i),
         Situation(i)', Lawful(i)
  PROVE  CalmInv' /\ PromiseStep
<1>0. /\ live \subseteq Infos /\ None \notin Infos
      /\ connections \in [Stations -> Infos \cup {None}] /\ i \in Infos
  BY ConstantsAssumption DEF TypeOK
<1>1. UNCHANGED <<connections, live, station>>
  BY DEF registry
<1>2. Registered /\ Registered'
  BY <1>1 DEF CalmInv, Registered
<1>3. ASSUME NEW j \in live, j # i PROVE Situation(j)'
  <2>1. SameInfo(j)
    BY <1>0, <1>3 DEF OnlyInfo
  <2>2. station[j] # station[i] /\ station[j] \in Stations
    BY <1>2, <1>3 DEF Registered
  <2>3. reported'[station[j]] = reported[station[j]]
    BY <2>2 DEF OnlyReport
  <2>4. \A u \in Threads : SameThread(u) \/ (tinfo[u] # j /\ tinfo'[u] # j)
    BY <1>0, <1>3 DEF ThreadsOf
  <2>5. \A d \in Conns : SameHandle(d) \/ (param[d] # j /\ param'[d] # j)
    BY <1>0, <1>3 DEF HandlesOf
  <2> QED BY <1>1, <2>1, <2>3, <2>4, <2>5, Undisturbed DEF CalmInv
<1>4. Belongs'
  <2>1. Belongs
    BY DEF CalmInv
  <2>2. \A u \in Threads : (tinfo'[u] = None <=> pc'[u] = "idle") /\ tinfo'[u] \in live \cup {None}
    BY <2>1 DEF Belongs, ThreadsOf, SameThread
  <2>3. \A d \in Conns : (param'[d] = None <=> lib'[d] = "free") /\ param'[d] \in live \cup {None}
    BY <2>1 DEF Belongs, HandlesOf, SameHandle
  <2> QED BY <1>1, <2>2, <2>3 DEF Belongs
<1>6. CalmInv'
  BY <1>1, <1>2, <1>3, <1>4 DEF CalmInv
<1>7. PromiseStep
  <2>0. station[i] \in Stations /\ connections[station[i]] = i /\ i # None
    BY <1>0, <1>2 DEF Registered
  <2>1. PICK r \in Stations : r = station[i] /\ connections[r] = i /\ i # None
    BY <2>0
  <2>2. \A s \in Stations \ {r} : connections[s] # None =>
            connections[s] # i /\ connections[s] \in Infos
    BY <1>0, <1>2, <2>1 DEF Registered
  <2>3. \A s \in Stations \ {r} : Shown(s)' = Shown(s) /\ (Wanted(s)' <=> Wanted(s))
    BY <1>1, <2>2 DEF OnlyInfo, SameInfo, Shown, Wanted
  <2>4. /\ Shown(r) = status[i] /\ Shown(r)' = status'[i]
        /\ Wanted(r) <=> shouldReconnect[i]
        /\ Wanted(r)' <=> shouldReconnect'[i]
    <3>1. connections'[r] = i /\ connections[r] # None
      BY <1>1, <2>1
    <3>2. shouldReconnect[i] \in BOOLEAN /\ shouldReconnect'[i] \in BOOLEAN
      BY <1>0 DEF TypeOK
    <3>3. Shown(r) = status[i] /\ Shown(r)' = status'[i]
      BY <2>1, <3>1 DEF Shown
    <3>4. Wanted(r) <=> shouldReconnect[i]
      BY <2>1 DEF Wanted
    <3>5. Wanted(r)' <=> shouldReconnect'[i]
      BY <2>1, <3>1 DEF Wanted
    <3> QED BY <3>3, <3>4, <3>5
  <2>5. shouldReconnect'[i] \in BOOLEAN /\ status[i] # "ABSENT"
    BY <1>0 DEF TypeOK, Status
  <2>6. \/ Shown(r)' = Shown(r) /\ (Wanted(r)' <=> Wanted(r))
        \/ /\ Shown(r) \in {"DISCONNECTED", "CONN_ERROR"}
           /\ status'[i] = "CONNECTING" /\ shouldReconnect'[i]
        \/ Shown(r) # "ABSENT" /\ status'[i] = "DISCONNECTED" /\ ~shouldReconnect'[i]
        \/ /\ Shown(r) = "CONNECTING" /\ status'[i] \in {"CONNECTED", "CONN_ERROR"}
           /\ Wanted(r) /\ shouldReconnect'[i]
        \/ /\ Shown(r) = "CONNECTED" /\ status'[i] = "DISCONNECTED"
           /\ Wanted(r) /\ shouldReconnect'[i]
    BY <2>4, <2>5 DEF Lawful
  <2> DEFINE to == status'[i]
             want == shouldReconnect'[i]
  <2> HIDE DEF to, want
  <2>7. want \in BOOLEAN /\ Shown(r)' = to /\ (Wanted(r)' <=> want)
    BY <2>4, <2>5 DEF to, want
  <2>8. \/ Shown(r)' = Shown(r) /\ (Wanted(r)' <=> Wanted(r))
        \/ Shown(r) = "ABSENT" /\ to = "CONNECTING" /\ want
        \/ Shown(r) \in {"DISCONNECTED", "CONN_ERROR"} /\ to = "CONNECTING" /\ want
        \/ Shown(r) # "ABSENT" /\ to = "DISCONNECTED" /\ ~want
        \/ /\ Shown(r) = "CONNECTING" /\ to \in {"CONNECTED", "CONN_ERROR"}
           /\ Wanted(r) /\ want
        \/ Shown(r) = "CONNECTED" /\ to = "DISCONNECTED" /\ Wanted(r) /\ want
    BY <2>6 DEF to, want
  <2> QED BY <2>1, <2>3, <2>7, <2>8, PromiseMove
<1> QED BY <1>6, <1>7
-----------------------------------------------------------------------------
(* What the helpers of the model do to station i, its worker and handle.   *)
LEMMA RunHere ==
  ASSUME TypeOK, NEW i \in Infos, NEW t \in Threads, tinfo[t] \in {i, None},
         NEW p, p # "idle", NEW c, NEW n, NEW refs, Run(t, p, i, c, n, refs)
  PROVE  /\ OnlyThread(i, t)
         /\ pc'[t] = p /\ tinfo'[t] = i /\ tconn'[t] = c /\ left'[t] = n
  BY ConstantsAssumption DEF TypeOK, OnlyThread, SameThread, Run

LEMMA EndHere ==
  ASSUME TypeOK, NEW i \in Infos, NEW t \in Threads, tinfo[t] \in {i, None}, End(t)
  PROVE  OnlyThread(i, t) /\ tinfo'[t] = None
  BY ConstantsAssumption DEF TypeOK, OnlyThread, SameThread, Run, End

LEMMA ContinueHere ==
  ASSUME TypeOK, NEW i \in Infos, NEW t \in Threads, tinfo[t] = i, NEW p, Continue(t, p)
  PROVE  /\ OnlyThread(i, t)
         /\ p = "idle" => tinfo'[t] = None
         /\ p # "idle" => /\ pc'[t] = p /\ tinfo'[t] = i
                          /\ tconn'[t] = None /\ left'[t] = left[t]
  BY RunHere, EndHere DEF Continue

LEMMA StillThread ==
  ASSUME UNCHANGED threadVars
  PROVE  \A t \in Threads : SameThread(t)
  BY DEF threadVars, SameThread

LEMMA SetInfoHere ==
  ASSUME TypeOK, NEW i \in Infos, NEW c, NEW s, NEW r, SetInfo(i, c, s, r)
  PROVE  /\ OnlyInfo(i)
         /\ connection'[i] = c /\ status'[i] = s /\ shouldReconnect'[i] = r
  BY DEF TypeOK, OnlyInfo, SameInfo, SetInfo

LEMMA StillInfo ==
  ASSUME UNCHANGED infoVars
  PROVE  \A i \in Infos : OnlyInfo(i) /\ SameInfo(i)
  BY DEF infoVars, OnlyInfo, SameInfo

LEMMA ReportHere ==
  ASSUME TypeOK, NEW i \in Infos, station[i] \in Stations, NEW s, Report(i, s)
  PROVE  OnlyReport(i) /\ reported'[station[i]] = s
  BY DEF TypeOK, OnlyReport, Report

LEMMA StillReport ==
  ASSUME UNCHANGED reported
  PROVE  \A i \in Infos : OnlyReport(i) /\ reported'[station[i]] = reported[station[i]]
  BY DEF OnlyReport

LEMMA StillHandle ==
  ASSUME UNCHANGED libVars
  PROVE  \A c \in Conns : SameHandle(c)
  BY DEF libVars, SameHandle

LEMMA LocalParts ==
  ASSUME NEW i
  PROVE  /\ \A t \in Threads : OnlyThread(i, t) => ThreadsOf(i)
         /\ (\A t \in Threads : SameThread(t)) => ThreadsOf(i)
         /\ \A c \in Conns : OnlyHandle(i, c) => HandlesOf(i)
         /\ (\A c \in Conns : SameHandle(c)) => HandlesOf(i)
  BY DEF OnlyThread, ThreadsOf, OnlyHandle, HandlesOf

LEMMA BeginDestroyHere ==
  ASSUME TypeOK, CalmInv, NEW i \in Infos, NEW c \in Conns, param[c] = i, BeginDestroy(c)
  PROVE  /\ OnlyHandle(i, c) /\ UNCHANGED <<lib, param, took, again>>
         /\ closing'[c]
  BY ConstantsAssumption DEF TypeOK, CalmInv, Belongs, OnlyHandle, SameHandle, BeginDestroy

LEMMA FreeHere ==
  ASSUME TypeOK, NEW i \in Infos, NEW c \in Conns, param[c] = i, Free(c)
  PROVE  /\ OnlyHandle(i, c) /\ param' = [param EXCEPT ![c] = None]
         /\ lib[c] \in {"idle", "ended", "gone"}
  BY DEF TypeOK, OnlyHandle, SameHandle, Free

LEMMA CreateHere ==
  ASSUME TypeOK, CalmInv, NEW i \in Infos, NEW c \in Conns, NEW l, l # "free",
         Create(c, i, l)
  PROVE  /\ OnlyHandle(i, c) /\ param' = [param EXCEPT ![c] = i]
         /\ lib'[c] = l /\ ~closing'[c] /\ param[c] = None
<1>1. lib[c] = "free" /\ param[c] = None
  BY DEF Create, FreshConns, CalmInv, Belongs
<1> QED BY <1>1, ConstantsAssumption DEF TypeOK, OnlyHandle, SameHandle, Create

LEMMA LibHere ==
  ASSUME TypeOK, CalmInv, NEW i \in Infos, NEW c \in Conns, param[c] = i,
         NEW l, l # "free", lib' = [lib EXCEPT ![c] = l], UNCHANGED param,
         \A d \in Conns \ {c} : closing'[d] = closing[d] /\ took'[d] = took[d] /\ again'[d] = again[d]
  PROVE  OnlyHandle(i, c) /\ lib'[c] = l
  BY ConstantsAssumption DEF TypeOK, CalmInv, Belongs, OnlyHandle, SameHandle

LEMMA Stays ==
  ASSUME NEW i
  PROVE  /\ (\A t \in Threads : SameThread(t)) =>
               (NoWorker(i) => NoWorker(i)') /\ \A t \in Threads : TheWorker(t, i) => TheWorker(t, i)'
         /\ (\A c \in Conns : SameHandle(c)) =>
               (NoHandle(i) => NoHandle(i)') /\ \A c \in Conns : TheHandle(c, i) => TheHandle(c, i)'
  BY DEF NoWorker, TheWorker, SameThread, NoHandle, TheHandle, SameHandle

LEMMA WorkerStays ==
  ASSUME NEW i \in Infos, None # i, NEW t \in Threads, OnlyThread(i, t),
         TheWorker(t, i) \/ NoWorker(i)
  PROVE  /\ tinfo'[t] = i => TheWorker(t, i)'
         /\ tinfo'[t] = None => NoWorker(i)'
  BY DEF TheWorker, NoWorker, OnlyThread, SameThread

LEMMA HandleStays ==
  ASSUME NEW i \in Infos, None # i, NEW c \in Conns, OnlyHandle(i, c),
         TheHandle(c, i) \/ NoHandle(i)
  PROVE  /\ param'[c] = i => TheHandle(c, i)'
         /\ param'[c] = None => NoHandle(i)'
  BY DEF TheHandle, NoHandle, OnlyHandle, SameHandle

(* The situation of a thread that runs: its station, alone or with the     *)
(* station's handle.                                                       *)
LEMMA Working ==
  ASSUME TypeOK, CalmInv, NEW t \in Threads, pc[t] # "idle"
  PROVE  /\ dtor = "none" /\ tinfo[t] \in live /\ tinfo[t] \in Infos /\ tinfo[t] # None
         /\ station[tinfo[t]] \in Stations
         /\ TheWorker(t, tinfo[t])
         /\ \/ NoHandle(tinfo[t]) /\ Between(tinfo[t], t)
            \/ \E c \in Conns : TheHandle(c, tinfo[t]) /\ Using(tinfo[t], t, c)
<1>1. tinfo[t] \in live /\ tinfo[t] \in Infos /\ tinfo[t] # None
  BY DEF CalmInv, Belongs, TypeOK
<1>2. dtor = "none"
  BY DEF CalmInv, Ending
<1>3. PICK i \in live : i = tinfo[t] /\ Situation(i) /\ station[i] \in Stations
  BY <1>1 DEF CalmInv, Registered
<1>4. ~NoWorker(i)
  BY <1>3 DEF NoWorker
<1>5. \A u \in Threads : TheWorker(u, i) => u = t
  BY <1>3 DEF TheWorker
<1> QED BY <1>1, <1>2, <1>3, <1>4, <1>5 DEF Situation

(* Thread t works on station i.                                            *)
Here(i, t) == /\ i \in Infos /\ i # None /\ i = tinfo[t] /\ station[i] \in Stations
              /\ dtor = "none" /\ TheWorker(t, i) /\ pc[t] # "idle"
Bare == {"x_pub"} \cup Errors \cup Dials \cup Waits \cup GivesIn
Held == Inside \cup Outside

LEMMA HereBetween ==
  ASSUME TypeOK, CalmInv, NEW t \in Threads, pc[t] \in Bare
  PROVE  \E i \in live : Here(i, t) /\ NoHandle(i) /\ Between(i, t)
<1>1. pc[t] # "idle" /\ pc[t] \notin Held
  BY DEF Bare, Held, Errors, Dials, Waits, GivesIn, Inside, Outside
<1> QED BY <1>1, Working DEF Here, Using, Held

LEMMA HereUsing ==
  ASSUME TypeOK, CalmInv, NEW t \in Threads, pc[t] \in Held
  PROVE  \E i \in live, c \in Conns :
            /\ Here(i, t) /\ TheHandle(c, i) /\ Using(i, t, c)
            /\ param[c] = i /\ c # None
<1>1. pc[t] # "idle" /\ pc[t] \notin Bare
  BY DEF Bare, Held, Errors, Dials, Waits, GivesIn, Inside, Outside
<1>2. \A c \in Conns : c # None
  BY ConstantsAssumption
<1> QED BY <1>1, <1>2, Working DEF Here, Between, Bare, TheHandle

(* A step of t that is about i alone, but for where it leaves i.           *)
Step(i, t) == /\ Ready(t) /\ Here(i, t)
              /\ OnlyInfo(i) /\ OnlyReport(i) /\ OnlyThread(i, t) /\ HandlesOf(i)
              /\ Lawful(i)

LEMMA EndingStays ==
  ASSUME CalmInv, dtor = "none", UNCHANGED <<dtor, victim>>
  PROVE  Ending'
  BY DEF CalmInv, Ending

LEMMA StepLocal ==
  ASSUME TypeOK, TypeOK', CalmInv, NEW t \in Threads, NEW i \in live, Step(i, t),
         Situation(i)'
  PROVE  CalmInv' /\ PromiseStep
<1>1. dtor = "none" /\ UNCHANGED <<registry, dtor, victim, fault>>
  BY DEF Ready, others, Step, Here
<1> QED BY <1>1, EndingStays, LocalParts, LocalStep DEF Step

LEMMA ToBetween ==
  ASSUME TypeOK, TypeOK', CalmInv, NEW t \in Threads, NEW i \in live, Step(i, t),
         tinfo'[t] = i, NoHandle(i)', Between(i, t)'
  PROVE  CalmInv' /\ PromiseStep
<1>1. TheWorker(t, i)'
  BY WorkerStays DEF Step, Here
<1>2. Situation(i)'
  BY <1>1 DEF Situation
<1> QED BY <1>2, StepLocal

LEMMA ToUsing ==
  ASSUME TypeOK, TypeOK', CalmInv, NEW t \in Threads, NEW i \in live, Step(i, t),
         tinfo'[t] = i, NEW c \in Conns, TheHandle(c, i)', Using(i, t, c)'
  PROVE  CalmInv' /\ PromiseStep
<1>1. TheWorker(t, i)'
  BY WorkerStays DEF Step, Here
<1>2. Situation(i)'
  BY <1>1 DEF Situation
<1> QED BY <1>2, StepLocal

LEMMA ToDown ==
  ASSUME TypeOK, TypeOK', CalmInv, NEW t \in Threads, NEW i \in live, Step(i, t),
         tinfo'[t] = None, NoHandle(i)', Down(i)'
  PROVE  CalmInv' /\ PromiseStep
<1>1. NoWorker(i)'
  BY WorkerStays DEF Step, Here
<1>2. Situation(i)'
  BY <1>1 DEF Situation
<1> QED BY <1>2, StepLocal

LEMMA ToSession ==
  ASSUME TypeOK, TypeOK', CalmInv, NEW t \in Threads, NEW i \in live, Step(i, t),
         tinfo'[t] = None, NEW c \in Conns, TheHandle(c, i)', Session(i, c)'
  PROVE  CalmInv' /\ PromiseStep
<1>1. NoWorker(i)'
  BY WorkerStays DEF Step, Here
<1>2. Situation(i)'
  BY <1>1 DEF Situation
<1> QED BY <1>2, StepLocal
-----------------------------------------------------------------------------
LEMMA ReportStatusCalm ==
  ASSUME TypeOK, TypeOK', CalmInv, NEW t \in Threads, ReportStatus(t)
  PROVE  CalmInv' /\ PromiseStep
<1> USE DEF Errors, Dials, Waits, GivesIn, Inside, Outside
<1>0. /\ Ready(t) /\ pc[t] \in ReportPcs /\ UNCHANGED <<registry, infoVars, libVars>>
      /\ Report(tinfo[t], Announced(pc[t])) /\ Continue(t, AfterReport(pc[t]))
  BY DEF ReportStatus, Ready
<1>a. /\ \A c \in Conns : SameHandle(c)
      /\ \A i \in Infos : OnlyInfo(i) /\ SameInfo(i) /\ Lawful(i) /\ HandlesOf(i) /\ station'[i] = station[i]
  BY <1>0, StillHandle, StillInfo, LocalParts DEF Lawful, SameInfo, registry
<1>1. ASSUME NEW i \in live, Here(i, t)
      PROVE  Step(i, t) /\ reported'[station[i]] = Announced(pc[t])
  BY <1>0, <1>a, <1>1, ContinueHere, ReportHere DEF Step, Here
<1>2. ASSUME NEW i \in live, Here(i, t)
      PROVE  /\ AfterReport(pc[t]) = "idle" => tinfo'[t] = None
             /\ AfterReport(pc[t]) # "idle" =>
                   pc'[t] = AfterReport(pc[t]) /\ tinfo'[t] = i /\ left'[t] = left[t]
  BY <1>0, <1>2, ContinueHere DEF Here
<1>3. CASE pc[t] \in {"c_err_pub", "r_exit_pub", "x_pub", "c_fail_pub", "r_pub"}
  <2>1. PICK i \in live : Here(i, t) /\ NoHandle(i) /\ Between(i, t)
    BY <1>3, HereBetween DEF Bare
  <2>2. NoHandle(i)' /\ SameInfo(i) /\ station'[i] = station[i] /\ Step(i, t)
    BY <1>a, <1>1, <2>1, Stays DEF Here
  <2>3. CASE pc[t] \in {"c_err_pub", "r_exit_pub", "x_pub"}
    <3>1. Down(i)' /\ tinfo'[t] = None
      BY <1>1, <1>2, <2>1, <2>2, <2>3 DEF Down, Between, SameInfo, AfterReport, Announced
    <3> QED BY <2>2, <3>1, ToDown
  <2>4. CASE pc[t] \in {"c_fail_pub", "r_pub"}
    <3>1. Between(i, t)' /\ tinfo'[t] = i
      BY <1>2, <2>1, <2>2, <2>4 DEF Between, SameInfo, AfterReport
    <3> QED BY <2>2, <3>1, ToBetween
  <2> QED BY <1>3, <2>3, <2>4
<1>4. CASE pc[t] \in {"c_pub", "r_done_pub"}
  <2>1. PICK i \in live, c \in Conns : Here(i, t) /\ TheHandle(c, i) /\ Using(i, t, c)
    BY <1>4, HereUsing DEF Held
  <2>2. TheHandle(c, i)' /\ SameInfo(i) /\ SameHandle(c) /\ Step(i, t) /\ station'[i] = station[i]
    BY <1>a, <1>1, <2>1, Stays DEF Here
  <2>3. Session(i, c)' /\ tinfo'[t] = None
    BY <1>1, <1>2, <1>4, <2>1, <2>2 DEF Using, Session, SameInfo, SameHandle, AfterReport, Announced
  <2> QED BY <2>2, <2>3, ToSession
<1> QED BY <1>0, <1>3, <1>4 DEF ReportPcs

LEMMA WorkerPcs ==
  ASSUME TypeOK, CalmInv, NEW t \in Threads, pc[t] # "idle"
  PROVE  pc[t] \in Bare \cup Held
  BY Working DEF Between, Using, Bare, Held

LEMMA DestroyReturnsCalm ==
  ASSUME TypeOK, TypeOK', CalmInv, NEW t \in Threads, DestroyReturns(t)
  PROVE  CalmInv' /\ PromiseStep
<1> USE DEF Errors, Dials, Waits, GivesIn, Inside, Outside
<1> DEFINE p == AfterDestroy(pc[t], left[t])
           n == IF pc[t] = "r_fail_join" THEN OneLess(left[t]) ELSE left[t]
<1>0. /\ Ready(t) /\ pc[t] \in DestroyPcs /\ UNCHANGED <<registry, infoVars, reported>>
      /\ Free(tconn[t])
      /\ IF p = "idle" THEN End(t) ELSE Run(t, p, tinfo[t], None, n, alias)
  BY DEF DestroyReturns, Ready
<1>1. pc[t] \in Joining
  BY <1>0, WorkerPcs DEF Bare, Held, DestroyPcs, JoinPcs, Joining
<1>2. PICK i \in live, c \in Conns :
        Here(i, t) /\ TheHandle(c, i) /\ Using(i, t, c) /\ param[c] = i
  BY <1>1, HereUsing DEF Held, Joining
<1>3. tconn[t] = c /\ (pc[t] = "d_join" => left[t] = -1)
  BY <1>1, <1>2 DEF Using, Joining
<1>4. p # "idle" /\ p \in {"x_pub", "c_fail_null", "r_loop"}
  BY <1>1, <1>3 DEF AfterDestroy, Joining
<1>5. /\ OnlyThread(i, t) /\ tinfo'[t] = i /\ pc'[t] = p /\ left'[t] = n
  BY <1>0, <1>2, <1>4, RunHere DEF Here
<1>6. OnlyHandle(i, c) /\ param'[c] = None /\ lib[c] \in {"idle", "ended", "gone"}
  <2>1. OnlyHandle(i, c) /\ param' = [param EXCEPT ![c] = None] /\ lib[c] \in {"idle", "ended", "gone"}
    BY <1>0, <1>2, <1>3, FreeHere DEF Here
  <2> QED BY <2>1 DEF TypeOK
<1>7. NoHandle(i)'
  BY <1>2, <1>6, HandleStays DEF Here
<1>8. SameInfo(i) /\ OnlyInfo(i) /\ OnlyReport(i) /\ Lawful(i)
  BY <1>0, <1>2, StillInfo, StillReport DEF Here, Lawful, SameInfo
<1>9. Step(i, t)
  BY <1>0, <1>2, <1>5, <1>6, <1>8, LocalParts DEF Step
<1>10. Between(i, t)'
  BY <1>1, <1>2, <1>3, <1>5, <1>6, <1>8
     DEF Between, Using, SameInfo, AfterDestroy, Joining, Refused
<1> QED BY <1>5, <1>7, <1>9, <1>10, ToBetween
-----------------------------------------------------------------------------
(* connectThreadFunc                                                       *)

LEMMA ConnectCreateCalm ==
  ASSUME TypeOK, TypeOK', CalmInv, NEW t \in Threads, ConnectCreate(t)
  PROVE  CalmInv' /\ PromiseStep
<1> USE DEF Errors, Dials, Waits, GivesIn, Inside, Outside
<1>0. Ready(t) /\ pc[t] = "c_create" /\ UNCHANGED <<registry, reported>>
  BY DEF ConnectCreate, At, Ready
<1>1. PICK i \in live : Here(i, t) /\ NoHandle(i) /\ Between(i, t)
  BY <1>0, HereBetween DEF Bare
<1>2. OnlyReport(i)
  BY <1>0, <1>1, StillReport DEF Here
<1>3. ASSUME NEW c \in FreshConns, Create(c, i, "idle"), Continue(t, "c_connect"),
             SetInfo(i, c, status[i], shouldReconnect[i])
      PROVE  CalmInv' /\ PromiseStep
  <2>0. c \in Conns
    BY DEF FreshConns
  <2>1. OnlyThread(i, t) /\ pc'[t] = "c_connect" /\ tinfo'[t] = i
    BY <1>1, <1>3, ContinueHere DEF Here
  <2>2. OnlyInfo(i) /\ connection'[i] = c /\ status'[i] = status[i] /\ shouldReconnect'[i] = shouldReconnect[i]
    BY <1>1, <1>3, SetInfoHere DEF Here
  <2>3. OnlyHandle(i, c) /\ lib'[c] = "idle" /\ ~closing'[c] /\ param'[c] = i
    <3>1. OnlyHandle(i, c) /\ lib'[c] = "idle" /\ ~closing'[c] /\ param' = [param EXCEPT ![c] = i]
      <4>1. "idle" # "free" /\ i \in Infos
        BY <1>1 DEF Here
      <4> QED BY <1>3, <2>0, <4>1, CreateHere
    <3> QED BY <2>0, <3>1 DEF TypeOK
  <2>4. TheHandle(c, i)'
    BY <1>1, <2>0, <2>3, HandleStays DEF Here
  <2>5. Step(i, t)
    BY <1>0, <1>1, <1>2, <2>0, <2>1, <2>2, <2>3, LocalParts DEF Step, Lawful
  <2>6. Using(i, t, c)'
    BY <1>0, <1>1, <2>1, <2>2, <2>3 DEF Using, Between, Joining
  <2> QED BY <2>0, <2>1, <2>4, <2>5, <2>6, ToUsing
<1>4. ASSUME SetInfo(i, None, "CONN_ERROR", shouldReconnect[i]), Continue(t, "c_err_pub"),
             UNCHANGED libVars
      PROVE  CalmInv' /\ PromiseStep
  <2>1. OnlyThread(i, t) /\ pc'[t] = "c_err_pub" /\ tinfo'[t] = i
    BY <1>1, <1>4, ContinueHere DEF Here
  <2>2. OnlyInfo(i) /\ connection'[i] = None /\ status'[i] = "CONN_ERROR" /\ shouldReconnect'[i] = shouldReconnect[i]
    BY <1>1, <1>4, SetInfoHere DEF Here
  <2>3. HandlesOf(i) /\ NoHandle(i)'
    BY <1>1, <1>4, StillHandle, Stays, LocalParts
  <2>4. Step(i, t)
    BY <1>0, <1>1, <1>2, <2>1, <2>2, <2>3, LocalParts DEF Step, Lawful, Between
  <2>5. Between(i, t)'
    BY <1>0, <1>1, <2>1, <2>2 DEF Between
  <2> QED BY <2>1, <2>3, <2>4, <2>5, ToBetween
<1> QED BY <1>1, <1>3, <1>4 DEF ConnectCreate, Here

LEMMA ConnectDialCalm ==
  ASSUME TypeOK, TypeOK', CalmInv, NEW t \in Threads, ConnectDial(t)
  PROVE  CalmInv' /\ PromiseStep
<1> USE DEF Errors, Dials, Waits, GivesIn, Inside, Outside
<1>0. /\ Ready(t) /\ pc[t] = "c_connect" /\ UNCHANGED <<registry, infoVars, reported>>
      /\ UNCHANGED <<param, closing, took, again>>
  BY DEF ConnectDial, At, Ready
<1>1. PICK i \in live, c \in Conns :
        Here(i, t) /\ TheHandle(c, i) /\ Using(i, t, c) /\ param[c] = i
  BY <1>0, HereUsing DEF Held
<1>2. connection[tinfo[t]] = c
  BY <1>0, <1>1 DEF Using, Here
<1>3. lib' = [lib EXCEPT ![c] = "dialing"] /\ Run(t, "c_wait", i, c, 0, alias)
  BY <1>1, <1>2 DEF ConnectDial, Here
<1>4. OnlyThread(i, t) /\ pc'[t] = "c_wait" /\ tinfo'[t] = i /\ tconn'[t] = c
  BY <1>1, <1>3, RunHere DEF Here
<1>5. OnlyHandle(i, c) /\ lib'[c] = "dialing" /\ closing'[c] = closing[c]
  BY <1>0, <1>1, <1>3, LibHere DEF Here
<1>6. SameInfo(i) /\ OnlyInfo(i) /\ OnlyReport(i) /\ Lawful(i)
  BY <1>0, <1>1, StillInfo, StillReport DEF Here, Lawful, SameInfo
<1>7. TheHandle(c, i)'
  BY <1>0, <1>1, <1>5, HandleStays DEF Here
<1>8. Step(i, t)
  BY <1>0, <1>1, <1>4, <1>5, <1>6, LocalParts DEF Step
<1>9. Using(i, t, c)'
  BY <1>0, <1>1, <1>4, <1>5, <1>6 DEF Using, SameInfo, Dialing, Joining
<1> QED BY <1>4, <1>7, <1>8, <1>9, ToUsing

(* A thread that only moves on.                                            *)
LEMMA HeldMoves ==
  ASSUME TypeOK, CalmInv, NEW t \in Threads, pc[t] \in Held, Ready(t),
         UNCHANGED <<infoVars, libVars, reported>>
  PROVE  \E i \in live, c \in Conns :
            /\ Here(i, t) /\ TheHandle(c, i) /\ Using(i, t, c) /\ TheHandle(c, i)'
            /\ SameInfo(i) /\ SameHandle(c)
            /\ OnlyThread(i, t) => Step(i, t)
<1>1. PICK i \in live, c \in Conns : Here(i, t) /\ TheHandle(c, i) /\ Using(i, t, c)
  BY HereUsing
<1>2. SameInfo(i) /\ OnlyInfo(i) /\ OnlyReport(i) /\ Lawful(i)
  BY <1>1, StillInfo, StillReport DEF Here, Lawful, SameInfo
<1>3. SameHandle(c) /\ HandlesOf(i) /\ TheHandle(c, i)'
  BY <1>1, StillHandle, Stays, LocalParts
<1> QED BY <1>1, <1>2, <1>3 DEF Step

LEMMA BareMoves ==
  ASSUME TypeOK, CalmInv, NEW t \in Threads, pc[t] \in Bare, Ready(t),
         UNCHANGED <<infoVars, libVars, reported>>
  PROVE  \E i \in live :
            /\ Here(i, t) /\ NoHandle(i) /\ Between(i, t) /\ NoHandle(i)' /\ SameInfo(i)
            /\ OnlyThread(i, t) => Step(i, t)
<1>1. PICK i \in live : Here(i, t) /\ NoHandle(i) /\ Between(i, t)
  BY HereBetween
<1>2. SameInfo(i) /\ OnlyInfo(i) /\ OnlyReport(i) /\ Lawful(i)
  BY <1>1, StillInfo, StillReport DEF Here, Lawful, SameInfo
<1>3. HandlesOf(i) /\ NoHandle(i)'
  BY <1>1, StillHandle, Stays, LocalParts
<1> QED BY <1>1, <1>2, <1>3 DEF Step

LEMMA ConnectReturnsCalm ==
  ASSUME TypeOK, TypeOK', CalmInv, NEW t \in Threads, ConnectReturns(t)
  PROVE  CalmInv' /\ PromiseStep
<1> USE DEF Inside, Outside
<1>0. /\ Ready(t) /\ pc[t] = "c_wait" /\ UNCHANGED <<infoVars, libVars, reported>>
      /\ \/ DialAnswered(tconn[t]) /\ Continue(t, "c_startdt")
         \/ DialRefused(tconn[t]) /\ Continue(t, "c_fail")
  BY DEF ConnectReturns, At
<1>1. PICK i \in live, c \in Conns :
        /\ Here(i, t) /\ TheHandle(c, i) /\ Using(i, t, c) /\ TheHandle(c, i)'
        /\ SameInfo(i) /\ SameHandle(c)
        /\ OnlyThread(i, t) => Step(i, t)
  BY <1>0, HeldMoves DEF Held
<1>2. tconn[t] = c
  BY <1>0, <1>1 DEF Using
<1>3. /\ OnlyThread(i, t) /\ tinfo'[t] = i
      /\ \/ DialAnswered(c) /\ pc'[t] = "c_startdt"
         \/ DialRefused(c) /\ pc'[t] = "c_fail"
  BY <1>0, <1>1, <1>2, ContinueHere DEF Here
<1>4. Using(i, t, c)'
  BY <1>0, <1>1, <1>3
     DEF Using, SameInfo, SameHandle, DialAnswered, DialRefused, Answered, Refused, Dialing, Joining
<1> QED BY <1>1, <1>3, <1>4, ToUsing

LEMMA ConnectStartDTCalm ==
  ASSUME TypeOK, TypeOK', CalmInv, NEW t \in Threads, ConnectStartDT(t)
  PROVE  CalmInv' /\ PromiseStep
<1> USE DEF Inside, Outside
<1>0. /\ Ready(t) /\ pc[t] = "c_startdt" /\ UNCHANGED <<infoVars, libVars, reported>>
      /\ Continue(t, "c_connected")
  BY DEF ConnectStartDT, At
<1>1. PICK i \in live, c \in Conns :
        /\ Here(i, t) /\ TheHandle(c, i) /\ Using(i, t, c) /\ TheHandle(c, i)'
        /\ SameInfo(i) /\ SameHandle(c)
        /\ OnlyThread(i, t) => Step(i, t)
  BY <1>0, HeldMoves DEF Held
<1>2. OnlyThread(i, t) /\ tinfo'[t] = i /\ pc'[t] = "c_connected"
  BY <1>0, <1>1, ContinueHere DEF Here
<1>3. Using(i, t, c)'
  BY <1>0, <1>1, <1>2 DEF Using, SameInfo, SameHandle, Answered, Joining
<1> QED BY <1>1, <1>2, <1>3, ToUsing

LEMMA ConnectStatusCalm ==
  ASSUME TypeOK, TypeOK', CalmInv, NEW t \in Threads, ConnectStatus(t)
  PROVE  CalmInv' /\ PromiseStep
<1> USE DEF Inside, Outside
<1>0. /\ Ready(t) /\ pc[t] = "c_connected" /\ UNCHANGED <<libVars, reported>>
      /\ SetStatus(tinfo[t], "CONNECTED") /\ Continue(t, "c_pub")
  BY DEF ConnectStatus, At
<1>1. PICK i \in live, c \in Conns : Here(i, t) /\ TheHandle(c, i) /\ Using(i, t, c)
  BY <1>0, HereUsing DEF Held
<1>2. OnlyThread(i, t) /\ tinfo'[t] = i /\ pc'[t] = "c_pub"
  BY <1>0, <1>1, ContinueHere DEF Here
<1>3. /\ OnlyInfo(i) /\ connection'[i] = connection[i] /\ status'[i] = "CONNECTED"
      /\ shouldReconnect'[i] = shouldReconnect[i]
  BY <1>0, <1>1, SetInfoHere DEF Here, SetStatus
<1>4. HandlesOf(i) /\ TheHandle(c, i)' /\ SameHandle(c)
  BY <1>0, <1>1, StillHandle, Stays, LocalParts
<1>5. Lawful(i)
  BY <1>0, <1>1, <1>3 DEF Lawful, Using, Answered
<1>6. Step(i, t)
  BY <1>0, <1>1, <1>2, <1>3, <1>4, <1>5, StillReport DEF Step, Here
<1>7. Using(i, t, c)'
  BY <1>0, <1>1, <1>2, <1>3, <1>4 DEF Using, SameHandle, Answered, Joining
<1> QED BY <1>2, <1>4, <1>6, <1>7, ToUsing

LEMMA ConnectFailCalm ==
  ASSUME TypeOK, TypeOK', CalmInv, NEW t \in Threads, ConnectFail(t)
  PROVE  CalmInv' /\ PromiseStep
<1> USE DEF Inside, Outside
<1>0. /\ Ready(t) /\ pc[t] = "c_fail" /\ UNCHANGED reported
      /\ SetStatus(tinfo[t], "CONN_ERROR")
  BY DEF ConnectFail, At
<1>1. PICK i \in live, c \in Conns :
        Here(i, t) /\ TheHandle(c, i) /\ Using(i, t, c) /\ param[c] = i /\ c # None
  BY <1>0, HereUsing DEF Held
<1>2. connection[tinfo[t]] = c
  BY <1>0, <1>1 DEF Using, Here
<1>3. BeginDestroy(c) /\ Run(t, "c_fail_join", i, c, 0, alias)
  BY <1>1, <1>2 DEF ConnectFail, Here
<1>4. OnlyThread(i, t) /\ tinfo'[t] = i /\ pc'[t] = "c_fail_join" /\ tconn'[t] = c
  BY <1>1, <1>3, RunHere DEF Here
<1>5. /\ OnlyInfo(i) /\ connection'[i] = connection[i] /\ status'[i] = "CONN_ERROR"
      /\ shouldReconnect'[i] = shouldReconnect[i]
  BY <1>0, <1>1, SetInfoHere DEF Here, SetStatus
<1>6. OnlyHandle(i, c) /\ UNCHANGED <<lib, param>> /\ closing'[c]
  BY <1>1, <1>3, BeginDestroyHere DEF Here
<1>7. TheHandle(c, i)'
  BY <1>1, <1>6, HandleStays DEF Here
<1>8. Lawful(i)
  BY <1>0, <1>1, <1>5 DEF Lawful, Using, Refused
<1>9. Step(i, t)
  BY <1>0, <1>1, <1>4, <1>5, <1>6, <1>8, StillReport, LocalParts DEF Step, Here
<1>10. Using(i, t, c)'
  BY <1>0, <1>1, <1>4, <1>5, <1>6 DEF Using, Refused, Joining
<1> QED BY <1>4, <1>7, <1>9, <1>10, ToUsing

LEMMA ConnectFailNullCalm ==
  ASSUME TypeOK, TypeOK', CalmInv, NEW t \in Threads, ConnectFailNull(t)
  PROVE  CalmInv' /\ PromiseStep
<1> USE DEF Errors, Dials, Waits, GivesIn
<1>0. /\ Ready(t) /\ pc[t] = "c_fail_null" /\ UNCHANGED <<libVars, reported>>
      /\ Continue(t, "c_fail_pub")
  BY DEF ConnectFailNull, At
<1>1. PICK i \in live : Here(i, t) /\ NoHandle(i) /\ Between(i, t)
  BY <1>0, HereBetween DEF Bare
<1>2. OnlyThread(i, t) /\ tinfo'[t] = i /\ pc'[t] = "c_fail_pub"
  BY <1>0, <1>1, ContinueHere DEF Here
<1>3. /\ OnlyInfo(i) /\ connection'[i] = None /\ status'[i] = status[i]
      /\ shouldReconnect'[i] = shouldReconnect[i]
  BY <1>1, SetInfoHere DEF Here, ConnectFailNull
<1>4. HandlesOf(i) /\ NoHandle(i)'
  BY <1>0, <1>1, StillHandle, Stays, LocalParts
<1>5. Step(i, t)
  BY <1>0, <1>1, <1>2, <1>3, <1>4, StillReport DEF Step, Here, Lawful
<1>6. Between(i, t)'
  BY <1>0, <1>1, <1>2, <1>3 DEF Between
<1> QED BY <1>2, <1>4, <1>5, <1>6, ToBetween

LEMMA ConnectRetryCalm ==
  ASSUME TypeOK, TypeOK', CalmInv, NEW t \in Threads, ConnectRetry(t)
  PROVE  CalmInv' /\ PromiseStep
<1> USE DEF Errors, Dials, Waits, GivesIn
<1>0. /\ Ready(t) /\ pc[t] = "c_retry" /\ UNCHANGED <<infoVars, libVars, reported>>
  BY DEF ConnectRetry, At
<1>1. PICK i \in live :
        /\ Here(i, t) /\ NoHandle(i) /\ Between(i, t) /\ NoHandle(i)' /\ SameInfo(i)
        /\ OnlyThread(i, t) => Step(i, t)
  BY <1>0, BareMoves DEF Bare
<1>2. Run(t, "r_loop", i, None, MaxRetries, alias \ {t})
  BY <1>0, <1>1 DEF ConnectRetry, Between, Here
<1>3. OnlyThread(i, t) /\ tinfo'[t] = i /\ pc'[t] = "r_loop"
  BY <1>1, <1>2, RunHere DEF Here
<1>4. Between(i, t)'
  BY <1>0, <1>1, <1>3 DEF Between, SameInfo
<1> QED BY <1>1, <1>3, <1>4, ToBetween
-----------------------------------------------------------------------------
(* reconnectThreadFunc                                                     *)

LEMMA RetryMovesCalm ==
  ASSUME TypeOK, TypeOK', CalmInv, NEW t \in Threads,
         RetryLoop(t) \/ RetryWakes(t) \/ RetryExit(t) \/ RetryCreateFails(t)
  PROVE  CalmInv' /\ PromiseStep
<1> USE DEF Errors, Dials, Waits, GivesIn
<1>0. /\ Ready(t) /\ pc[t] \in {"r_loop", "r_sleep", "r_exit", "r_create"}
      /\ UNCHANGED <<infoVars, libVars, reported>>
  BY DEF RetryLoop, RetryWakes, RetryExit, RetryCreateFails, At
<1>1. PICK i \in live :
        /\ Here(i, t) /\ NoHandle(i) /\ Between(i, t) /\ NoHandle(i)' /\ SameInfo(i)
        /\ OnlyThread(i, t) => Step(i, t)
  BY <1>0, BareMoves DEF Bare
<1>2. shouldReconnect[tinfo[t]]
  BY <1>0, <1>1 DEF Between, Here
<1>3. CASE RetryLoop(t) \/ RetryWakes(t) \/ RetryExit(t)
  <2>1. PICK p \in {"r_sleep", "r_exit", "r_status", "r_giveup"} :
          /\ Continue(t, p)
          /\ \/ pc[t] = "r_loop" /\ p = "r_sleep"
             \/ pc[t] = "r_loop" /\ p = "r_exit" /\ left[t] = 0
             \/ pc[t] = "r_sleep" /\ p = "r_status"
             \/ pc[t] = "r_exit" /\ p = "r_giveup"
    BY <1>2, <1>3 DEF RetryLoop, RetryWakes, RetryExit, At
  <2>2. OnlyThread(i, t) /\ tinfo'[t] = i /\ pc'[t] = p /\ left'[t] = left[t]
    BY <1>1, <2>1, ContinueHere DEF Here
  <2>3. Between(i, t)'
    BY <1>0, <1>1, <2>1, <2>2 DEF Between, SameInfo
  <2> QED BY <1>1, <2>2, <2>3, ToBetween
<1>4. CASE RetryCreateFails(t)
  <2>1. Run(t, "r_loop", i, None, OneLess(left[t]), alias) /\ pc[t] = "r_create"
    BY <1>1, <1>4 DEF RetryCreateFails, Here, At
  <2>2. OnlyThread(i, t) /\ tinfo'[t] = i /\ pc'[t] = "r_loop"
    BY <1>1, <2>1, RunHere DEF Here
  <2>3. Between(i, t)'
    BY <1>1, <2>1, <2>2 DEF Between, SameInfo
  <2> QED BY <1>1, <2>2, <2>3, ToBetween
<1> QED BY <1>3, <1>4

LEMMA RetryStatusCalm ==
  ASSUME TypeOK, TypeOK', CalmInv, NEW t \in Threads, RetryStatus(t) \/ RetryGiveUp(t)
  PROVE  CalmInv' /\ PromiseStep
<1> USE DEF Errors, Dials, Waits, GivesIn
<1>0. /\ Ready(t) /\ pc[t] \in {"r_status", "r_giveup"} /\ UNCHANGED <<libVars, reported>>
  BY DEF RetryStatus, RetryStatusIs, RetryGiveUp, GiveUpWith, At
<1>1. PICK i \in live : Here(i, t) /\ NoHandle(i) /\ Between(i, t)
  BY <1>0, HereBetween DEF Bare
<1>2. PICK p \in {"r_pub", "r_exit_pub"}, s \in Status :
        /\ Continue(t, p) /\ SetStatus(i, s)
        /\ \/ pc[t] = "r_status" /\ p = "r_pub" /\ s = "CONNECTING"
           \/ pc[t] = "r_giveup" /\ p = "r_exit_pub" /\ s = "CONN_ERROR"
  BY <1>1 DEF RetryStatus, RetryStatusIs, RetryGiveUp, GiveUpWith, At, Here, Status
<1>3. OnlyThread(i, t) /\ tinfo'[t] = i /\ pc'[t] = p
  BY <1>1, <1>2, ContinueHere DEF Here
<1>4. /\ OnlyInfo(i) /\ connection'[i] = connection[i] /\ status'[i] = s
      /\ shouldReconnect'[i] = shouldReconnect[i]
  BY <1>1, <1>2, SetInfoHere DEF Here, SetStatus
<1>5. HandlesOf(i) /\ NoHandle(i)'
  BY <1>0, <1>1, StillHandle, Stays, LocalParts
<1>6. Lawful(i)
  BY <1>0, <1>1, <1>2, <1>4 DEF Lawful, Between
<1>7. Step(i, t)
  BY <1>0, <1>1, <1>3, <1>4, <1>5, <1>6, StillReport DEF Step, Here
<1>8. Between(i, t)'
  BY <1>1, <1>2, <1>3, <1>4 DEF Between
<1> QED BY <1>3, <1>5, <1>7, <1>8, ToBetween

LEMMA RetrySwapCalm ==
  ASSUME TypeOK, TypeOK', CalmInv, NEW t \in Threads, RetrySwap(t)
  PROVE  CalmInv' /\ PromiseStep
<1> USE DEF Errors, Dials, Waits, GivesIn
<1>0. /\ Ready(t) /\ pc[t] = "r_swap" /\ UNCHANGED reported
  BY DEF RetrySwap, SwapOut, At
<1>1. PICK i \in live : Here(i, t) /\ NoHandle(i) /\ Between(i, t)
  BY <1>0, HereBetween DEF Bare
<1>2. connection[i] = None
  BY <1>0, <1>1 DEF Between
<1>3. /\ SetInfo(i, None, status[i], shouldReconnect[i]) /\ BeginDestroy(None)
      /\ Run(t, "r_create", i, None, left[t], alias)
  BY <1>1, <1>2 DEF RetrySwap, SwapOut, Here
<1>4. OnlyThread(i, t) /\ tinfo'[t] = i /\ pc'[t] = "r_create"
  BY <1>1, <1>3, RunHere DEF Here
<1>5. /\ OnlyInfo(i) /\ connection'[i] = None /\ status'[i] = status[i]
      /\ shouldReconnect'[i] = shouldReconnect[i]
  BY <1>1, <1>3, SetInfoHere DEF Here
<1>6. HandlesOf(i) /\ NoHandle(i)'
  <2>1. UNCHANGED libVars
    BY <1>3 DEF BeginDestroy, libVars
  <2> QED BY <1>1, <2>1, StillHandle, Stays, LocalParts
<1>7. Step(i, t)
  BY <1>0, <1>1, <1>4, <1>5, <1>6, StillReport DEF Step, Here, Lawful
<1>8. Between(i, t)'
  BY <1>0, <1>1, <1>4, <1>5 DEF Between
<1> QED BY <1>4, <1>6, <1>7, <1>8, ToBetween

LEMMA RetryDialCalm ==
  ASSUME TypeOK, TypeOK', CalmInv, NEW t \in Threads, RetryDial(t)
  PROVE  CalmInv' /\ PromiseStep
<1> USE DEF Errors, Dials, Waits, GivesIn, Inside, Outside
<1>0. /\ Ready(t) /\ pc[t] = "r_create" /\ UNCHANGED reported
  BY DEF RetryDial, DialNew, At
<1>1. PICK i \in live : Here(i, t) /\ NoHandle(i) /\ Between(i, t)
  BY <1>0, HereBetween DEF Bare
<1>2. PICK c \in FreshConns :
        /\ Create(c, i, "dialing") /\ Run(t, "r_wait", i, c, left[t], alias)
        /\ SetInfo(i, connection[i], status[i], shouldReconnect[i])
  BY <1>1 DEF RetryDial, DialNew, Here
<1>3. c \in Conns /\ "dialing" # "free" /\ i \in Infos
  BY <1>1 DEF FreshConns, Here
<1>4. OnlyThread(i, t) /\ tinfo'[t] = i /\ pc'[t] = "r_wait" /\ tconn'[t] = c
  BY <1>1, <1>2, RunHere DEF Here
<1>5. /\ OnlyInfo(i) /\ connection'[i] = connection[i] /\ status'[i] = status[i]
      /\ shouldReconnect'[i] = shouldReconnect[i]
  BY <1>1, <1>2, SetInfoHere DEF Here
<1>6. OnlyHandle(i, c) /\ lib'[c] = "dialing" /\ ~closing'[c] /\ param'[c] = i
  <2>1. OnlyHandle(i, c) /\ lib'[c] = "dialing" /\ ~closing'[c] /\ param' = [param EXCEPT ![c] = i]
    BY <1>2, <1>3, CreateHere
  <2> QED BY <1>3, <2>1 DEF TypeOK
<1>7. TheHandle(c, i)'
  BY <1>1, <1>3, <1>6, HandleStays DEF Here
<1>8. Step(i, t)
  BY <1>0, <1>1, <1>3, <1>4, <1>5, <1>6, StillReport, LocalParts DEF Step, Here, Lawful
<1>9. Using(i, t, c)'
  BY <1>0, <1>1, <1>4, <1>5, <1>6 DEF Using, Between, Dialing, Joining
<1> QED BY <1>3, <1>4, <1>7, <1>8, <1>9, ToUsing

LEMMA RetryReturnsCalm ==
  ASSUME TypeOK, TypeOK', CalmInv, NEW t \in Threads, RetryReturns(t)
  PROVE  CalmInv' /\ PromiseStep
<1> USE DEF Inside, Outside
<1>0. /\ Ready(t) /\ pc[t] = "r_wait" /\ UNCHANGED <<infoVars, reported>>
  BY DEF RetryReturns, At
<1>1. PICK i \in live, c \in Conns :
        Here(i, t) /\ TheHandle(c, i) /\ Using(i, t, c) /\ param[c] = i
  BY <1>0, HereUsing DEF Held
<1>2. tconn[t] = c
  BY <1>0, <1>1 DEF Using
<1>3. SameInfo(i) /\ OnlyInfo(i) /\ OnlyReport(i) /\ Lawful(i)
  BY <1>0, <1>1, StillInfo, StillReport DEF Here, Lawful, SameInfo
<1>4. CASE /\ DialAnswered(c) /\ UNCHANGED libVars
           /\ Run(t, "r_publish", i, c, left[t], alias)
  <2>1. OnlyThread(i, t) /\ tinfo'[t] = i /\ pc'[t] = "r_publish" /\ tconn'[t] = c
    BY <1>1, <1>4, RunHere DEF Here
  <2>2. HandlesOf(i) /\ TheHandle(c, i)' /\ SameHandle(c)
    BY <1>1, <1>4, StillHandle, Stays, LocalParts
  <2>3. Step(i, t)
    BY <1>0, <1>1, <1>3, <2>1, <2>2 DEF Step
  <2>4. Using(i, t, c)'
    BY <1>0, <1>1, <1>3, <1>4, <2>1, <2>2
       DEF Using, SameInfo, SameHandle, DialAnswered, Answered, Refused, Dialing, Joining
  <2> QED BY <2>1, <2>2, <2>3, <2>4, ToUsing
<1>5. CASE /\ DialRefused(c) /\ BeginDestroy(c)
           /\ Run(t, "r_fail_join", i, c, left[t], alias)
  <2>1. OnlyThread(i, t) /\ tinfo'[t] = i /\ pc'[t] = "r_fail_join" /\ tconn'[t] = c
    BY <1>1, <1>5, RunHere DEF Here
  <2>2. OnlyHandle(i, c) /\ UNCHANGED <<lib, param>> /\ closing'[c]
    BY <1>1, <1>5, BeginDestroyHere DEF Here
  <2>3. TheHandle(c, i)'
    BY <1>1, <2>2, HandleStays DEF Here
  <2>4. Step(i, t)
    BY <1>0, <1>1, <1>3, <2>1, <2>2, LocalParts DEF Step
  <2>5. Using(i, t, c)'
    BY <1>0, <1>1, <1>3, <1>5, <2>1, <2>2
       DEF Using, SameInfo, DialRefused, Answered, Refused, Dialing, Joining
  <2> QED BY <2>1, <2>3, <2>4, <2>5, ToUsing
<1> QED BY <1>1, <1>2, <1>4, <1>5 DEF RetryReturns, Here

LEMMA RetryPublishCalm ==
  ASSUME TypeOK, TypeOK', CalmInv, NEW t \in Threads, RetryPublish(t)
  PROVE  CalmInv' /\ PromiseStep
<1> USE DEF Inside, Outside
<1>0. /\ Ready(t) /\ pc[t] = "r_publish" /\ UNCHANGED <<libVars, reported>>
  BY DEF RetryPublish, Publish, At
<1>1. PICK i \in live, c \in Conns : Here(i, t) /\ TheHandle(c, i) /\ Using(i, t, c)
  BY <1>0, HereUsing DEF Held
<1>2. tconn[t] = c
  BY <1>0, <1>1 DEF Using
<1>3. SetInfo(i, c, "CONNECTED", shouldReconnect[i]) /\ Run(t, "r_done_pub", i, None, 0, alias)
  BY <1>1, <1>2 DEF RetryPublish, Publish, Here
<1>4. OnlyThread(i, t) /\ tinfo'[t] = i /\ pc'[t] = "r_done_pub"
  BY <1>1, <1>3, RunHere DEF Here
<1>5. /\ OnlyInfo(i) /\ connection'[i] = c /\ status'[i] = "CONNECTED"
      /\ shouldReconnect'[i] = shouldReconnect[i]
  BY <1>1, <1>3, SetInfoHere DEF Here
<1>6. HandlesOf(i) /\ TheHandle(c, i)' /\ SameHandle(c)
  BY <1>0, <1>1, StillHandle, Stays, LocalParts
<1>7. Lawful(i)
  BY <1>0, <1>1, <1>5 DEF Lawful, Using, Answered
<1>8. Step(i, t)
  BY <1>0, <1>1, <1>4, <1>5, <1>6, <1>7, StillReport DEF Step, Here
<1>9. Using(i, t, c)'
  BY <1>0, <1>1, <1>4, <1>5, <1>6 DEF Using, SameHandle, Answered, Joining
<1> QED BY <1>4, <1>6, <1>8, <1>9, ToUsing

LEMMA ThreadStepCalm ==
  ASSUME TypeOK, TypeOK', CalmInv, NEW t \in Threads, ThreadStep(t)
  PROVE  CalmInv' /\ PromiseStep
  BY ReportStatusCalm, DestroyReturnsCalm, ConnectCreateCalm, ConnectDialCalm,
     ConnectReturnsCalm, ConnectStartDTCalm, ConnectStatusCalm, ConnectFailCalm,
     ConnectFailNullCalm, ConnectRetryCalm, RetryMovesCalm, RetryStatusCalm,
     RetrySwapCalm, RetryDialCalm, RetryReturnsCalm, RetryPublishCalm DEF ThreadStep
-----------------------------------------------------------------------------
(* The library's thread of a handle                                        *)

(* The situation of a handle: its station, with the station's worker or    *)
(* with none.                                                              *)
Of(c, i) == /\ i \in Infos /\ i # None /\ i = param[c] /\ station[i] \in Stations
            /\ TheHandle(c, i)
LEMMA HandleSituation ==
  ASSUME TypeOK, CalmInv, NEW c \in Conns, lib[c] # "free"
  PROVE  \E i \in live :
            /\ Of(c, i)
            /\ \/ NoWorker(i) /\ Session(i, c)
               \/ \E t \in Threads : TheWorker(t, i) /\ Using(i, t, c) /\ dtor = "none"
<1>1. param[c] \in live /\ param[c] \in Infos /\ param[c] # None
  BY DEF CalmInv, Belongs, TypeOK
<1>2. PICK i \in live : i = param[c] /\ Situation(i) /\ station[i] \in Stations
  BY <1>1 DEF CalmInv, Registered
<1>3. ~NoHandle(i)
  BY <1>2 DEF NoHandle
<1>4. \A d \in Conns : TheHandle(d, i) => d = c
  BY <1>2 DEF TheHandle
<1>5. \A t \in Threads : TheWorker(t, i) => dtor = "none"
  BY <1>1, <1>2 DEF TheWorker, CalmInv, Belongs, Ending
<1> QED BY <1>1, <1>2, <1>3, <1>4, <1>5 DEF Situation, Of

LEMMA LibLocal ==
  ASSUME TypeOK, TypeOK', CalmInv, NEW c \in Conns, NEW i \in live, Of(c, i),
         UNCHANGED <<registry, threadVars, param, dtor, victim, fault>>,
         OnlyInfo(i), OnlyReport(i), OnlyHandle(i, c), Lawful(i), Ending',
         \/ NoWorker(i) /\ Session(i, c)'
         \/ \E t \in Threads : TheWorker(t, i) /\ Using(i, t, c)'
  PROVE  CalmInv' /\ PromiseStep
<1>1. ThreadsOf(i) /\ HandlesOf(i)
  BY StillThread, LocalParts DEF threadVars
<1>2. /\ NoWorker(i) => NoWorker(i)'
      /\ \A t \in Threads : TheWorker(t, i) => TheWorker(t, i)'
  BY StillThread, Stays DEF threadVars
<1>3. TheHandle(c, i)'
  BY HandleStays DEF Of
<1>4. Situation(i)'
  BY <1>2, <1>3 DEF Situation
<1> QED BY <1>1, <1>4, LocalStep

LEMMA LibStepParts ==
  ASSUME TypeOK, CalmInv, NEW c \in Conns, NEW from, NEW to, to # "free",
         NEW i \in live, Of(c, i), LibStep(c, from, to),
         \A d \in Conns \ {c} : closing'[d] = closing[d] /\ took'[d] = took[d] /\ again'[d] = again[d]
  PROVE  /\ OnlyHandle(i, c) /\ lib[c] = from /\ lib'[c] = to
         /\ UNCHANGED <<registry, param, dtor, victim, fault>>
<1>1. lib' = [lib EXCEPT ![c] = to] /\ UNCHANGED param
  BY DEF LibStep
<1> QED BY <1>1, LibHere DEF LibStep, Of

LEMMA DialCalm ==
  ASSUME TypeOK, TypeOK', CalmInv, NEW c \in Conns, DialSucceeds(c) \/ DialFails(c)
  PROVE  CalmInv' /\ PromiseStep
<1> USE DEF Inside, Outside
<1>0. PICK to \in {"opened", "failed"} :
        LibStep(c, "dialing", to) /\ UNCHANGED <<infoVars, closing, took, again, threadVars, reported>>
  BY DEF DialSucceeds, DialFails, LibOnly
<1>1. lib[c] = "dialing"
  BY <1>0 DEF LibStep
<1>2. PICK i \in live, t \in Threads :
        Of(c, i) /\ TheWorker(t, i) /\ Using(i, t, c) /\ dtor = "none"
  BY <1>1, HandleSituation DEF Session
<1>3. /\ OnlyHandle(i, c) /\ lib'[c] = to
      /\ UNCHANGED <<registry, param, dtor, victim, fault>>
  BY <1>0, <1>2, LibStepParts
<1>4. SameInfo(i) /\ OnlyInfo(i) /\ OnlyReport(i) /\ Lawful(i)
  BY <1>0, <1>2, StillInfo, StillReport DEF Of, Lawful, SameInfo
<1>5. SameThread(t)
  BY <1>0, StillThread
<1>6. Using(i, t, c)'
  BY <1>0, <1>1, <1>2, <1>3, <1>4, <1>5
     DEF Using, SameInfo, SameThread, Dialing, Answered, Refused, Joining
<1> QED BY <1>0, <1>2, <1>3, <1>4, <1>6, EndingStays, LibLocal

LEMMA SessionEndsCalm ==
  ASSUME CalmOperator, TypeOK, TypeOK', CalmInv, NEW c \in Conns, SessionEnds(c)
  PROVE  CalmInv' /\ PromiseStep
<1> USE DEF Inside, Outside
<1>0. /\ LibStep(c, "up", "closed") /\ UNCHANGED <<infoVars, closing, took, again, threadVars, reported>>
      /\ closing[c] \/ Quiet
  BY DEF SessionEnds, LibOnly
<1>1. lib[c] = "up"
  BY <1>0 DEF LibStep
<1>2. PICK i \in live :
        /\ Of(c, i)
        /\ \/ NoWorker(i) /\ Session(i, c)
           \/ \E t \in Threads : TheWorker(t, i) /\ Using(i, t, c) /\ dtor = "none"
  BY <1>1, HandleSituation
<1>3. /\ OnlyHandle(i, c) /\ lib'[c] = "closed"
      /\ UNCHANGED <<registry, param, dtor, victim, fault>>
  BY <1>0, <1>2, LibStepParts
<1>4. SameInfo(i) /\ OnlyInfo(i) /\ OnlyReport(i) /\ Lawful(i)
      /\ reported'[station[i]] = reported[station[i]] /\ station'[i] = station[i]
  BY <1>0, <1>2, <1>3, StillInfo, StillReport DEF Of, Lawful, SameInfo, registry
<1>5. Ending'
  <2>1. \A d \in Conns : d # c => lib'[d] = lib[d]
    BY <1>3 DEF OnlyHandle, SameHandle
  <2>2. \A d \in Conns : lib'[d] = lib[d] \/ lib'[d] = "closed"
    BY <1>3, <2>1
  <2>3. \A j \in live : NoHandle(j)' <=> NoHandle(j)
    BY <1>3 DEF NoHandle
  <2>4. UNCHANGED <<todo, live, station, pc>>
    BY <1>0, <1>3 DEF LibStep, registry, threadVars
  <2> QED BY <1>3, <2>2, <2>3, <2>4 DEF CalmInv, Ending
<1>6. CASE NoWorker(i) /\ Session(i, c)
  <2>1. Session(i, c)'
    BY <1>1, <1>3, <1>4, <1>6 DEF Session, SameInfo
  <2> QED BY <1>0, <1>2, <1>3, <1>4, <1>5, <1>6, <2>1, LibLocal
<1>7. ASSUME NEW t \in Threads, TheWorker(t, i), Using(i, t, c)
      PROVE  CalmInv' /\ PromiseStep
  <2>1. ~AtRest(i)
    BY <1>7 DEF AtRest, TheWorker
  <2>2. closing[c]
    BY <1>0, <2>1 DEF Quiet, CalmOperator
  <2>3. pc[t] = "x_join"
    BY <1>1, <1>7, <2>2 DEF Using, Refused, Joining
  <2>4. SameThread(t) /\ closing'[c]
    BY <1>0, <2>2, StillThread
  <2>5. Using(i, t, c)'
    BY <1>3, <1>4, <1>7, <2>3, <2>4 DEF Using, SameInfo, SameThread, Joining
  <2> QED BY <1>0, <1>2, <1>3, <1>4, <1>5, <1>7, <2>5, LibLocal
<1> QED BY <1>2, <1>6, <1>7

LEMMA HandlerCalm ==
  ASSUME TypeOK, TypeOK', CalmInv, NEW c \in Conns, OpenedHandler(c) \/ FailedHandler(c)
  PROVE  CalmInv' /\ PromiseStep
<1> USE DEF Inside, Outside
<1>0. PICK from \in {"opened", "failed"}, to \in {"opened_cb", "failed_cb"},
           s \in {"CONNECTED", "CONN_ERROR"} :
        /\ LibStep(c, from, to) /\ SetStatus(param[c], s)
        /\ UNCHANGED <<closing, took, again, threadVars, reported>>
        /\ \/ from = "opened" /\ to = "opened_cb" /\ s = "CONNECTED"
           \/ from = "failed" /\ to = "failed_cb" /\ s = "CONN_ERROR"
  BY DEF OpenedHandler, FailedHandler, Handler
<1>1. lib[c] = from
  BY <1>0 DEF LibStep
<1>2. PICK i \in live :
        /\ Of(c, i)
        /\ \/ NoWorker(i) /\ Session(i, c)
           \/ \E t \in Threads : TheWorker(t, i) /\ Using(i, t, c) /\ dtor = "none"
  BY <1>0, <1>1, HandleSituation
<1>3. dtor = "none"
  BY <1>0, <1>1 DEF CalmInv, Ending
<1>4. /\ OnlyHandle(i, c) /\ lib'[c] = to
      /\ UNCHANGED <<registry, param, dtor, victim, fault>>
  BY <1>0, <1>2, LibStepParts
<1>5. /\ OnlyInfo(i) /\ connection'[i] = connection[i] /\ status'[i] = s
      /\ shouldReconnect'[i] = shouldReconnect[i]
  BY <1>0, <1>2, SetInfoHere DEF Of, SetStatus
<1>6. /\ OnlyReport(i) /\ Ending' /\ station'[i] = station[i]
      /\ reported'[station[i]] = reported[station[i]]
  BY <1>0, <1>2, <1>3, <1>4, StillReport, EndingStays DEF Of, registry
<1>7. CASE NoWorker(i) /\ Session(i, c)
  <2>1. from = "opened" /\ to = "opened_cb" /\ s = "CONNECTED"
    BY <1>0, <1>1, <1>7 DEF Session
  <2>2. Session(i, c)' /\ Lawful(i)
    BY <1>1, <1>4, <1>5, <1>6, <1>7, <2>1 DEF Session, Lawful
  <2> QED BY <1>0, <1>2, <1>4, <1>5, <1>6, <1>7, <2>2, LibLocal
<1>8. ASSUME NEW t \in Threads, TheWorker(t, i), Using(i, t, c)
      PROVE  CalmInv' /\ PromiseStep
  <2>1. SameThread(t) /\ closing'[c] = closing[c]
    BY <1>0, StillThread
  <2>2. Lawful(i)
    BY <1>0, <1>1, <1>5, <1>8 DEF Lawful, Using, Dialing, Answered, Refused
  <2>3. Using(i, t, c)'
    BY <1>0, <1>1, <1>4, <1>5, <1>8, <2>1
       DEF Using, SameThread, Dialing, Answered, Refused, Joining
  <2> QED BY <1>0, <1>2, <1>4, <1>5, <1>6, <1>8, <2>2, <2>3, LibLocal
<1> QED BY <1>2, <1>7, <1>8

LEMMA HandlerReportCalm ==
  ASSUME TypeOK, TypeOK', CalmInv, NEW c \in Conns, OpenedReport(c) \/ FailedReport(c)
  PROVE  CalmInv' /\ PromiseStep
<1> USE DEF Inside, Outside
<1>0. PICK from \in {"opened_cb", "failed_cb"}, to \in {"up", "gone"},
           s \in {"CONNECTED", "CONN_ERROR"} :
        /\ LibStep(c, from, to) /\ Report(param[c], s)
        /\ UNCHANGED <<infoVars, closing, took, again, threadVars>>
        /\ \/ from = "opened_cb" /\ to = "up" /\ s = "CONNECTED"
           \/ from = "failed_cb" /\ to = "gone" /\ s = "CONN_ERROR"
  BY DEF OpenedReport, FailedReport, HandlerReport
<1>1. lib[c] = from
  BY <1>0 DEF LibStep
<1>2. PICK i \in live :
        /\ Of(c, i)
        /\ \/ NoWorker(i) /\ Session(i, c)
           \/ \E t \in Threads : TheWorker(t, i) /\ Using(i, t, c) /\ dtor = "none"
  BY <1>0, <1>1, HandleSituation
<1>3. dtor = "none"
  BY <1>0, <1>1 DEF CalmInv, Ending
<1>4. /\ OnlyHandle(i, c) /\ lib'[c] = to
      /\ UNCHANGED <<registry, param, dtor, victim, fault>>
  BY <1>0, <1>2, LibStepParts
<1>5. SameInfo(i) /\ OnlyInfo(i) /\ Lawful(i)
  BY <1>0, <1>2, StillInfo DEF Of, Lawful, SameInfo
<1>6. /\ OnlyReport(i) /\ Ending' /\ station'[i] = station[i]
      /\ reported'[station[i]] = s
  BY <1>0, <1>2, <1>3, <1>4, ReportHere, EndingStays DEF Of, registry
<1>7. CASE NoWorker(i) /\ Session(i, c)
  <2>1. Session(i, c)'
    BY <1>0, <1>1, <1>4, <1>5, <1>6, <1>7 DEF Session, SameInfo
  <2> QED BY <1>0, <1>2, <1>4, <1>5, <1>6, <1>7, <2>1, LibLocal
<1>8. ASSUME NEW t \in Threads, TheWorker(t, i), Using(i, t, c)
      PROVE  CalmInv' /\ PromiseStep
  <2>1. SameThread(t) /\ closing'[c] = closing[c]
    BY <1>0, StillThread
  <2>2. Using(i, t, c)'
    BY <1>0, <1>1, <1>4, <1>5, <1>8, <2>1
       DEF Using, SameThread, SameInfo, Dialing, Answered, Refused, Joining
  <2> QED BY <1>0, <1>2, <1>4, <1>5, <1>6, <1>8, <2>2, LibLocal
<1> QED BY <1>2, <1>7, <1>8

LEMMA ClosedHandlerCalm ==
  ASSUME TypeOK, TypeOK', CalmInv, NEW c \in Conns, ClosedHandler(c)
  PROVE  CalmInv' /\ PromiseStep
<1> USE DEF Inside, Outside
<1>0. /\ LibStep(c, "closed", "closed_cb") /\ LockFree /\ lib[c] = "closed"
      /\ UNCHANGED <<closing, threadVars, reported>>
  BY DEF ClosedHandler, Handler, LibStep
<1>1. PICK i \in live :
        /\ Of(c, i)
        /\ \/ NoWorker(i) /\ Session(i, c)
           \/ \E t \in Threads : TheWorker(t, i) /\ Using(i, t, c) /\ dtor = "none"
  BY <1>0, HandleSituation
<1>2. dtor = "none"
  BY <1>0, <1>1 DEF CalmInv, Ending, LockFree, TypeOK
<1>3. /\ took' = [took EXCEPT ![c] = connection[i]]
      /\ again' = [again EXCEPT ![c] = shouldReconnect[i]]
      /\ SetInfo(i, None, "DISCONNECTED", shouldReconnect[i])
  BY <1>1 DEF ClosedHandler, Of
<1>4. took'[c] = connection[i] /\ again'[c] = shouldReconnect[i]
  BY <1>3 DEF TypeOK
<1>5. /\ OnlyHandle(i, c) /\ lib'[c] = "closed_cb"
      /\ UNCHANGED <<registry, param, dtor, victim, fault>>
  <2>1. \A d \in Conns \ {c} : closing'[d] = closing[d] /\ took'[d] = took[d] /\ again'[d] = again[d]
    BY <1>0, <1>3 DEF TypeOK
  <2>2. "closed_cb" # "free"
    OBVIOUS
  <2> QED BY <1>0, <1>1, <2>1, <2>2, LibStepParts
<1>6. /\ OnlyInfo(i) /\ connection'[i] = None /\ status'[i] = "DISCONNECTED"
      /\ shouldReconnect'[i] = shouldReconnect[i]
  BY <1>1, <1>3, SetInfoHere DEF Of
<1>7. OnlyReport(i) /\ Ending'
  BY <1>0, <1>1, <1>2, <1>5, StillReport, EndingStays DEF Of
<1>8. CASE NoWorker(i) /\ Session(i, c)
  <2>1. Session(i, c)' /\ Lawful(i)
    BY <1>0, <1>4, <1>5, <1>6, <1>8 DEF Session, Lawful
  <2> QED BY <1>0, <1>1, <1>5, <1>6, <1>7, <1>8, <2>1, LibLocal
<1>9. ASSUME NEW t \in Threads, TheWorker(t, i), Using(i, t, c)
      PROVE  CalmInv' /\ PromiseStep
  <2>1. pc[t] = "x_join"
    BY <1>0, <1>9 DEF Using, Dialing, Answered, Refused
  <2>2. SameThread(t) /\ closing'[c] = closing[c]
    BY <1>0, StillThread
  <2>3. connection[i] = None /\ ~shouldReconnect[i] /\ status[i] = "DISCONNECTED"
    BY <1>9, <2>1 DEF Using
  <2>4. Using(i, t, c)' /\ Lawful(i)
    BY <1>4, <1>5, <1>6, <1>9, <2>1, <2>2, <2>3 DEF Using, SameThread, Joining, Lawful
  <2> QED BY <1>0, <1>1, <1>5, <1>6, <1>7, <1>9, <2>4, LibLocal
<1> QED BY <1>1, <1>8, <1>9

LEMMA ClosedReportCalm ==
  ASSUME TypeOK, TypeOK', CalmInv, NEW c \in Conns, ClosedReport(c)
  PROVE  CalmInv' /\ PromiseStep
<1> USE DEF Inside, Outside
<1>0. /\ LibStep(c, "closed_cb", "ended") /\ lib[c] = "closed_cb" /\ UNCHANGED infoVars
      /\ Report(param[c], "DISCONNECTED")
      /\ took' = [took EXCEPT ![c] = None] /\ again' = [again EXCEPT ![c] = FALSE]
  BY DEF ClosedReport, HandlerReport, LibStep
<1>1. PICK i \in live :
        /\ Of(c, i)
        /\ \/ NoWorker(i) /\ Session(i, c)
           \/ \E t \in Threads : TheWorker(t, i) /\ Using(i, t, c) /\ dtor = "none"
  BY <1>0, HandleSituation
<1>2. dtor = "none"
  BY <1>0 DEF CalmInv, Ending
<1>3. ASSUME \A d \in Conns \ {c} : closing'[d] = closing[d]
      PROVE  /\ OnlyHandle(i, c) /\ lib'[c] = "ended"
             /\ UNCHANGED <<registry, param, dtor, victim, fault>>
  <2>1. \A d \in Conns \ {c} : closing'[d] = closing[d] /\ took'[d] = took[d] /\ again'[d] = again[d]
    BY <1>0, <1>3 DEF TypeOK
  <2>2. "ended" # "free" /\ Of(c, i) /\ LibStep(c, "closed_cb", "ended")
    BY <1>0, <1>1
  <2> QED BY <2>1, <2>2, LibStepParts
<1>4. SameInfo(i) /\ OnlyInfo(i) /\ Lawful(i) /\ OnlyReport(i)
  BY <1>0, <1>1, StillInfo, ReportHere DEF Of, Lawful, SameInfo
<1>5. Ending'
  BY <1>0, <1>2, EndingStays DEF LibStep
<1>6. CASE NoWorker(i) /\ Session(i, c)
  <2>1. took[c] = c /\ again[c] /\ c # None
    BY <1>0, <1>6, ConstantsAssumption DEF Session
  <2>2. closing' = [closing EXCEPT ![c] = TRUE]
    BY <2>1 DEF ClosedReport
  <2>3. PICK t \in IdleThreads : Run(t, "d_join", i, c, -1, alias)
    BY <1>1, <2>1 DEF ClosedReport, DropRetries, Of
  <2>4. t \in Threads /\ tinfo[t] = None
    BY DEF IdleThreads, CalmInv, Belongs
  <2>5. OnlyThread(i, t) /\ pc'[t] = "d_join" /\ tinfo'[t] = i /\ tconn'[t] = c /\ left'[t] = -1
    BY <1>1, <2>3, <2>4, RunHere DEF Of
  <2>6. /\ OnlyHandle(i, c) /\ lib'[c] = "ended" /\ closing'[c]
        /\ UNCHANGED <<registry, param, dtor, victim, fault>>
    BY <1>3, <2>2 DEF TypeOK
  <2>7. TheWorker(t, i)' /\ TheHandle(c, i)'
    BY <1>1, <1>6, <2>4, <2>5, <2>6, WorkerStays, HandleStays DEF Of
  <2>8. Using(i, t, c)'
    BY <1>0, <1>4, <1>6, <2>5, <2>6 DEF Using, Session, SameInfo, Joining
  <2>9. Situation(i)' /\ ThreadsOf(i) /\ HandlesOf(i)
    BY <2>4, <2>5, <2>6, <2>7, <2>8, LocalParts DEF Situation
  <2> QED BY <1>4, <1>5, <2>6, <2>9, LocalStep
<1>7. ASSUME NEW t \in Threads, TheWorker(t, i), Using(i, t, c)
      PROVE  CalmInv' /\ PromiseStep
  <2>1. pc[t] = "x_join" /\ took[c] = None /\ ~again[c]
    BY <1>0, <1>7 DEF Using, Dialing, Answered, Refused
  <2>2. closing' = closing /\ UNCHANGED threadVars
    BY <2>1 DEF ClosedReport
  <2>3. SameThread(t)
    BY <2>2, StillThread
  <2>4. /\ OnlyHandle(i, c) /\ lib'[c] = "ended"
        /\ UNCHANGED <<registry, param, dtor, victim, fault>>
    BY <1>3, <2>2
  <2>5. Using(i, t, c)'
    BY <1>4, <1>7, <2>1, <2>2, <2>3, <2>4 DEF Using, SameThread, SameInfo, Joining
  <2> QED BY <1>1, <1>4, <1>5, <1>7, <2>2, <2>4, <2>5, LibLocal
<1> QED BY <1>1, <1>6, <1>7

LEMMA LibStepCalm ==
  ASSUME CalmOperator, TypeOK, TypeOK', CalmInv, NEW c \in Conns,
         DialSucceeds(c) \/ DialFails(c) \/ SessionEnds(c) \/ ConnectionHandler(c)
  PROVE  CalmInv' /\ PromiseStep
  BY DialCalm, SessionEndsCalm, HandlerCalm, HandlerReportCalm, ClosedHandlerCalm,
     ClosedReportCalm DEF ConnectionHandler
-----------------------------------------------------------------------------
(* The operator's calls. A station at rest is down or has its session up.  *)

LEMMA AtRestSituation ==
  ASSUME TypeOK, CalmInv, NEW i \in live, AtRest(i)
  PROVE  /\ NoWorker(i)
         /\ \/ NoHandle(i) /\ Down(i)
            \/ \E c \in Conns :
                 /\ TheHandle(c, i) /\ lib[c] = "up" /\ connection[i] = c
                 /\ Session(i, c) /\ param[c] = i /\ c # None
<1>1. NoWorker(i)
  BY DEF AtRest, NoWorker
<1>2. \A t \in Threads : ~TheWorker(t, i)
  BY <1>1 DEF NoWorker, TheWorker
<1>3. Situation(i)
  BY DEF CalmInv
<1>4. ASSUME NEW c \in Conns, TheHandle(c, i), Session(i, c)
      PROVE  lib[c] = "up" /\ connection[i] = c /\ param[c] = i /\ c # None
  BY <1>4, ConstantsAssumption DEF TheHandle, AtRest, Session
<1> QED BY <1>1, <1>2, <1>3, <1>4 DEF Situation

LEMMA CallHere ==
  ASSUME CalmOperator, TypeOK, CalmInv, NEW s \in Stations, NEW op, Call(op)
  PROVE  /\ dtor = "none" /\ Ending'
         /\ UNCHANGED <<dtor, victim, todo, fault>>
         /\ connections[s] # None =>
               /\ connections[s] \in live /\ connections[s] \in Infos
               /\ station[connections[s]] = s /\ AtRest(connections[s])
         /\ \A t \in IdleThreads : t \in Threads /\ tinfo[t] = None
<1>1. dtor = "none" /\ UNCHANGED <<dtor, victim, todo, fault>> /\ \A i \in live : AtRest(i)
  BY DEF Call, Quiet, CalmOperator
<1>2. Ending'
  BY <1>1, EndingStays
<1>3. connections[s] # None =>
        connections[s] \in live /\ connections[s] \in Infos /\ station[connections[s]] = s
  BY DEF CalmInv, Registered, TypeOK
<1> QED BY <1>1, <1>2, <1>3 DEF IdleThreads, CalmInv, Belongs

LEMMA DisconnectCalm ==
  ASSUME CalmOperator, TypeOK, TypeOK', CalmInv, NEW s \in Stations, DisconnectStation(s)
  PROVE  CalmInv' /\ PromiseStep
<1> USE DEF Errors, Dials, Waits, GivesIn, Inside, Outside
<1>0. Call("disconnect") /\ connections[s] # None /\ UNCHANGED <<registry, reported>>
  BY DEF DisconnectStation, TakeDown
<1>1. PICK i \in live : i = connections[s] /\ i \in Infos /\ station[i] = s /\ AtRest(i) /\ i # None
  BY <1>0, CallHere, ConstantsAssumption
<1>2. Ending' /\ UNCHANGED <<dtor, victim, fault>>
  BY <1>0, CallHere
<1>3. PICK t \in IdleThreads :
        /\ SetInfo(i, None, "DISCONNECTED", FALSE) /\ BeginDestroy(connection[i])
        /\ Run(t, IF connection[i] = None THEN "x_pub" ELSE "x_join", i, connection[i], 0, alias)
  BY <1>1 DEF DisconnectStation, TakeDown
<1>4. t \in Threads /\ tinfo[t] = None
  BY <1>0, CallHere
<1>5. /\ OnlyThread(i, t) /\ tinfo'[t] = i /\ tconn'[t] = connection[i]
      /\ pc'[t] = IF connection[i] = None THEN "x_pub" ELSE "x_join"
  BY <1>1, <1>3, <1>4, RunHere
<1>6. /\ OnlyInfo(i) /\ connection'[i] = None /\ status'[i] = "DISCONNECTED"
      /\ ~shouldReconnect'[i]
  BY <1>1, <1>3, SetInfoHere
<1>7. OnlyReport(i) /\ Lawful(i)
  BY <1>0, <1>1, <1>6, StillReport DEF Lawful
<1>8. NoWorker(i) /\ TheWorker(t, i)'
  BY <1>1, <1>4, <1>5, AtRestSituation, WorkerStays
<1>9. CASE NoHandle(i) /\ Down(i)
  <2>1. connection[i] = None
    BY <1>9 DEF Down
  <2>2. UNCHANGED libVars
    BY <1>3, <2>1 DEF BeginDestroy, libVars
  <2>3. HandlesOf(i) /\ NoHandle(i)'
    BY <1>9, <2>2, StillHandle, Stays, LocalParts
  <2>4. Between(i, t)'
    BY <1>5, <1>6, <2>1 DEF Between
  <2>5. Situation(i)'
    BY <1>4, <1>8, <2>3, <2>4 DEF Situation
  <2> QED BY <1>0, <1>2, <1>4, <1>5, <1>6, <1>7, <2>3, <2>5, LocalParts, LocalStep
<1>10. ASSUME NEW c \in Conns, TheHandle(c, i), lib[c] = "up", connection[i] = c,
              param[c] = i, c # None
       PROVE  CalmInv' /\ PromiseStep
  <2>1. BeginDestroy(c)
    BY <1>3, <1>10
  <2>2. OnlyHandle(i, c) /\ UNCHANGED <<lib, param>> /\ closing'[c]
    BY <1>1, <1>10, <2>1, BeginDestroyHere
  <2>3. TheHandle(c, i)'
    BY <1>1, <1>10, <2>2, HandleStays
  <2>4. pc'[t] = "x_join"
    BY <1>5, <1>10
  <2>5. Using(i, t, c)'
    BY <1>5, <1>6, <1>10, <2>2, <2>4 DEF Using, Joining
  <2>6. Situation(i)'
    BY <1>4, <1>8, <2>3, <2>5 DEF Situation
  <2> QED BY <1>0, <1>2, <1>4, <1>5, <1>6, <1>7, <2>2, <2>6, LocalParts, LocalStep
<1> QED BY <1>1, <1>9, <1>10, AtRestSituation

LEMMA ConnectCalm ==
  ASSUME CalmOperator, TypeOK, TypeOK', CalmInv, NEW s \in Stations, ConnectStation(s)
  PROVE  CalmInv' /\ PromiseStep
<1> USE DEF Errors, Dials, Waits, GivesIn
<1>0. Call("connect") /\ connections[s] # None /\ UNCHANGED <<registry, libVars>>
  BY DEF ConnectStation
<1>1. PICK i \in live : i = connections[s] /\ i \in Infos /\ station[i] = s /\ AtRest(i) /\ i # None
  BY <1>0, CallHere, ConstantsAssumption
<1>2. Ending' /\ UNCHANGED <<dtor, victim, fault>>
  BY <1>0, CallHere
<1>3. PICK t \in IdleThreads :
        /\ ~(connection[i] # None /\ status[i] = "CONNECTED")
        /\ SetInfo(i, connection[i], "CONNECTING", TRUE) /\ Report(i, "CONNECTING")
        /\ Run(t, "c_create", i, None, 0, alias)
  BY <1>1 DEF ConnectStation
<1>4. t \in Threads /\ tinfo[t] = None
  BY <1>0, CallHere
<1>5. OnlyThread(i, t) /\ tinfo'[t] = i /\ pc'[t] = "c_create"
  BY <1>1, <1>3, <1>4, RunHere
<1>6. /\ OnlyInfo(i) /\ connection'[i] = connection[i] /\ status'[i] = "CONNECTING"
      /\ shouldReconnect'[i]
  BY <1>1, <1>3, SetInfoHere
<1>7. NoWorker(i) /\ NoHandle(i) /\ Down(i)
  BY <1>1, <1>3, AtRestSituation DEF Session
<1>8. OnlyReport(i)
  BY <1>1, <1>3, ReportHere
<1>9. Lawful(i)
  BY <1>6, <1>7 DEF Lawful, Down
<1>10. HandlesOf(i) /\ NoHandle(i)' /\ TheWorker(t, i)'
  BY <1>0, <1>1, <1>4, <1>5, <1>7, StillHandle, Stays, LocalParts, WorkerStays
<1>11. Between(i, t)'
  BY <1>5, <1>6, <1>7 DEF Between, Down
<1>12. Situation(i)'
  BY <1>4, <1>10, <1>11 DEF Situation
<1> QED BY <1>0, <1>2, <1>4, <1>5, <1>6, <1>8, <1>9, <1>10, <1>12, LocalParts, LocalStep

LEMMA AddCalm ==
  ASSUME CalmOperator, TypeOK, TypeOK', CalmInv, NEW s \in Stations, AddStation(s)
  PROVE  CalmInv' /\ PromiseStep
<1> USE DEF Errors, Dials, Waits, GivesIn
<1>0. Call("add") /\ connections[s] = None /\ UNCHANGED <<libVars, reported>>
  BY DEF AddStation
<1>1. PICK i \in FreshInfos, t \in IdleThreads :
        /\ connections' = [connections EXCEPT ![s] = i]
        /\ live' = live \cup {i}
        /\ station' = [station EXCEPT ![i] = s]
        /\ SetInfo(i, None, "CONNECTING", TRUE)
        /\ Run(t, "c_create", i, None, 0, alias \cup {t})
  BY DEF AddStation
<1>2. /\ i \in Infos /\ i \notin live /\ i # None
      /\ \A u \in Threads : tinfo[u] # i
      /\ \A c \in Conns : param[c] # i
  BY ConstantsAssumption DEF FreshInfos
<1>3. t \in Threads /\ tinfo[t] = None /\ Ending' /\ UNCHANGED <<dtor, victim, todo, fault>>
  BY <1>0, CallHere
<1>4. OnlyThread(i, t) /\ tinfo'[t] = i /\ pc'[t] = "c_create"
  BY <1>1, <1>2, <1>3, RunHere
<1>5. /\ OnlyInfo(i) /\ connection'[i] = None /\ status'[i] = "CONNECTING"
      /\ shouldReconnect'[i]
  BY <1>1, <1>2, SetInfoHere
<1>6. /\ connections'[s] = i /\ \A r \in Stations \ {s} : connections'[r] = connections[r]
      /\ station'[i] = s /\ \A j \in Infos \ {i} : station'[j] = station[j]
  BY <1>1, <1>2 DEF TypeOK
<1>7. live \subseteq Infos /\ reported' = reported /\ Belongs /\ Registered
      /\ \A c \in Conns : SameHandle(c)
  BY <1>0 DEF TypeOK, CalmInv, SameHandle, libVars
<1>8. ASSUME NEW j \in live PROVE Situation(j)'
  <2>1. j # i /\ SameInfo(j) /\ station'[j] = station[j] /\ Situation(j)
    BY <1>2, <1>5, <1>6, <1>7 DEF OnlyInfo, CalmInv
  <2>2. \A u \in Threads : SameThread(u) \/ (tinfo[u] # j /\ tinfo'[u] # j)
    BY <1>2, <1>3, <1>4, <1>7, <2>1, ConstantsAssumption DEF OnlyThread
  <2> QED BY <1>7, <2>1, <2>2, Undisturbed
<1>9. Situation(i)'
  <2>1. NoWorker(i) /\ NoHandle(i)
    BY <1>2 DEF NoWorker, NoHandle
  <2>2. NoHandle(i)'
    BY <1>2, <1>7 DEF NoHandle, SameHandle
  <2>3. TheWorker(t, i)'
    BY <1>2, <1>3, <1>4, <2>1, WorkerStays
  <2>4. Between(i, t)'
    BY <1>4, <1>5 DEF Between
  <2> QED BY <1>3, <2>2, <2>3, <2>4 DEF Situation
<1>10. Belongs'
  <2>1. \A u \in Threads : (tinfo'[u] = None <=> pc'[u] = "idle") /\ tinfo'[u] \in live' \cup {None}
    BY <1>1, <1>2, <1>4, <1>7 DEF Belongs, OnlyThread, SameThread
  <2>2. \A c \in Conns : (param'[c] = None <=> lib'[c] = "free") /\ param'[c] \in live' \cup {None}
    BY <1>1, <1>7 DEF Belongs, SameHandle
  <2> QED BY <2>1, <2>2 DEF Belongs
<1>11. Registered'
  <2>1. \A j \in live' : station'[j] \in Stations /\ connections'[station'[j]] = j
    BY <1>0, <1>1, <1>2, <1>6, <1>7, ConstantsAssumption DEF Registered
  <2>2. \A r \in Stations : connections'[r] # None =>
            connections'[r] \in live' /\ station'[connections'[r]] = r
    BY <1>1, <1>2, <1>6, <1>7 DEF Registered
  <2> QED BY <2>1, <2>2 DEF Registered
<1>12. CalmInv'
  BY <1>1, <1>3, <1>8, <1>9, <1>10, <1>11 DEF CalmInv
<1>13. PromiseStep
  <2>1. Shown(s) = "ABSENT" /\ Shown(s)' = "CONNECTING" /\ Wanted(s)'
    BY <1>0, <1>2, <1>5, <1>6 DEF Shown, Wanted
  <2>2. \A r \in Stations \ {s} : Shown(r)' = Shown(r) /\ (Wanted(r)' <=> Wanted(r))
    BY <1>2, <1>5, <1>6, <1>7 DEF Shown, Wanted, OnlyInfo, SameInfo, Registered
  <2>3. Wanted(s)' <=> TRUE
    BY <2>1
  <2> DEFINE to == "CONNECTING"
             want == TRUE
  <2> HIDE DEF to, want
  <2>4. /\ want \in BOOLEAN /\ Shown(s)' = to /\ (Wanted(s)' <=> want)
        /\ Shown(s) = "ABSENT" /\ to = "CONNECTING" /\ want
    BY <2>1, <2>3 DEF to, want
  <2> QED BY <2>2, <2>4, PromiseMove
<1> QED BY <1>12, <1>13
-----------------------------------------------------------------------------
(* The destructor.  Only the destructor takes several stations away at     *)
(* once; none of its other steps is seen by the operator.                  *)

LEMMA UnseenStep ==
  ASSUME CalmInv, Ending',
         UNCHANGED <<registry, infoVars, libVars, threadVars, reported, fault>>
  PROVE  CalmInv' /\ PromiseStep
<1>1. UNCHANGED <<connections, live, station, lib, param, pc, tinfo, status, shouldReconnect>>
  BY DEF registry, infoVars, libVars, threadVars
<1>2. ASSUME NEW i \in live PROVE Situation(i)'
  BY <1>1, StillThread, StillHandle, Undisturbed DEF infoVars, SameInfo, CalmInv
<1>3. Belongs' /\ Registered'
  BY <1>1 DEF CalmInv, Belongs, Registered
<1>4. PromiseStep
  BY <1>1 DEF PromiseStep, Promise!vars
<1> QED BY <1>1, <1>2, <1>3, <1>4 DEF CalmInv

LEMMA DestructorStartsCalm ==
  ASSUME CalmOperator, TypeOK, CalmInv, DestructorStarts
  PROVE  CalmInv' /\ PromiseStep
<1>1. /\ dtor = "none" /\ dtor' = "locked" /\ todo' = Stations
      /\ \A i \in live : AtRest(i)
      /\ UNCHANGED <<registry, infoVars, libVars, threadVars, reported, victim, fault>>
  BY DEF DestructorStarts, DtorStep, Quiet, CalmOperator, registry
<1>2. \A t \in Threads : pc[t] = "idle"
  BY <1>1 DEF AtRest, CalmInv, Belongs
<1>3. \A c \in Conns : lib[c] \in {"free", "up", "closed"}
  <2> SUFFICES ASSUME NEW c \in Conns, lib[c] # "free" PROVE lib[c] = "up"
    OBVIOUS
  <2>1. PICK i \in live : param[c] = i
    BY DEF CalmInv, Belongs
  <2>2. ~NoHandle(i) /\ \A d \in Conns : TheHandle(d, i) => d = c
    BY <2>1 DEF NoHandle, TheHandle
  <2> QED BY <1>1, <2>2, AtRestSituation
<1>4. victim' = None /\ \A i \in live : station[i] \in todo'
  BY <1>1 DEF CalmInv, Ending, Registered
<1>5. UNCHANGED <<live, station, pc, lib, param>>
  BY <1>1 DEF registry, threadVars, libVars
<1>6. Ending'
  BY <1>1, <1>2, <1>3, <1>4, <1>5 DEF Ending
<1> QED BY <1>1, <1>6, UnseenStep

(* No thread works any more; a station that has a handle has it in its     *)
(* info.                                                                   *)
LEMMA EndingSituation ==
  ASSUME TypeOK, CalmInv, dtor # "none", NEW i \in live
  PROVE  \/ NoHandle(i) /\ connection[i] = None
         \/ \E c \in Conns :
              /\ NoWorker(i) /\ TheHandle(c, i) /\ Session(i, c)
              /\ connection[i] = c /\ param[c] = i /\ c # None
<1>1. NoWorker(i)
  BY ConstantsAssumption DEF CalmInv, Ending, Belongs, NoWorker, TypeOK
<1>2. \A t \in Threads : ~TheWorker(t, i)
  BY <1>1 DEF NoWorker, TheWorker
<1>3. ASSUME NEW c \in Conns, TheHandle(c, i), Session(i, c)
      PROVE  connection[i] = c /\ param[c] = i /\ c # None
  BY <1>3, ConstantsAssumption DEF TheHandle, CalmInv, Ending, Session
<1> QED BY <1>1, <1>2, <1>3 DEF CalmInv, Situation, Down

LEMMA DestructorDestroysCalm ==
  ASSUME TypeOK, TypeOK', CalmInv, NEW s \in Stations, DestructorDestroys(s)
  PROVE  CalmInv' /\ PromiseStep
<1>1. /\ dtor = "locked" /\ victim = None /\ s \in todo /\ todo' = todo \ {s}
      /\ victim' = IF connections[s] = None THEN None ELSE connection[connections[s]]
      /\ BeginDestroy(victim')
      /\ UNCHANGED <<registry, infoVars, threadVars, reported, dtor, fault>>
  BY DEF DestructorDestroys, DtorStep, registry
<1>2. UNCHANGED <<connections, live, station, pc, lib, param>>
  BY <1>1 DEF registry, threadVars, BeginDestroy
<1>3. ASSUME \A j \in live : station[j] = s =>
                 NoHandle(j) \/ (victim' # None /\ param[victim'] = j),
             victim' # None => param[victim'] # None
      PROVE  Ending'
  BY <1>1, <1>2, <1>3 DEF CalmInv, Ending, Registered, NoHandle
<1>4. CASE victim' = None
  <2>1. \A j \in live : station[j] = s => NoHandle(j)
    <3> SUFFICES ASSUME NEW j \in live, station[j] = s PROVE NoHandle(j)
      OBVIOUS
    <3>1. connections[s] = j /\ j # None
      BY ConstantsAssumption DEF CalmInv, Registered, TypeOK
    <3> QED BY <1>1, <1>4, <3>1, EndingSituation
  <2>2. UNCHANGED libVars
    BY <1>1, <1>4 DEF BeginDestroy, libVars
  <2> QED BY <1>1, <1>3, <1>4, <2>1, <2>2, UnseenStep
<1>5. CASE victim' # None
  <2>1. PICK i \in live : i = connections[s] /\ i \in Infos /\ station[i] = s /\ connection[i] = victim'
    BY <1>1, <1>5 DEF CalmInv, Registered, TypeOK
  <2>2. PICK c \in Conns : /\ NoWorker(i) /\ TheHandle(c, i) /\ Session(i, c)
                           /\ victim' = c /\ param[c] = i /\ c # None
    BY <1>1, <1>5, <2>1, EndingSituation
  <2>3. OnlyHandle(i, c) /\ UNCHANGED <<lib, param, took, again>>
    BY <1>1, <2>1, <2>2, BeginDestroyHere
  <2>4. i # None
    BY <2>1, ConstantsAssumption
  <2>5. Ending'
    BY <1>3, <2>1, <2>2, <2>4 DEF CalmInv, Registered
  <2>6. OnlyInfo(i) /\ SameInfo(i) /\ OnlyReport(i) /\ \A t \in Threads : SameThread(t)
    BY <1>1, <2>1, StillInfo, StillReport, StillThread
  <2>7. TheHandle(c, i)' /\ NoWorker(i)'
    BY <2>1, <2>2, <2>3, <2>4, <2>6, HandleStays, Stays
  <2>8. Session(i, c)'
    BY <1>1, <1>2, <2>2, <2>3, <2>6 DEF Session, SameInfo
  <2>9. Situation(i)' /\ Lawful(i)
    BY <2>6, <2>7, <2>8 DEF Situation, Lawful, SameInfo
  <2> QED BY <1>1, <2>3, <2>5, <2>6, <2>9, LocalParts, LocalStep
<1> QED BY <1>4, <1>5

(* The destructor never gets past its first handle that is connected: it   *)
(* waits, with the lock, for a handler that needs the lock (run            *)
(* CMShutdown).                                                            *)
LEMMA DestructorJoinsNever ==
  ASSUME CalmInv, TypeOK PROVE ~DestructorJoins
  BY DEF DestructorJoins, Free, CalmInv, Ending, TypeOK

LEMMA DestructorEndsCalm ==
  ASSUME TypeOK, TypeOK', CalmInv, DestructorEnds
  PROVE  CalmInv'
<1>1. /\ dtor = "locked" /\ victim = None /\ todo = {} /\ live' = {} /\ dtor' = "done"
      /\ connections' = [s \in Stations |-> None]
      /\ UNCHANGED <<threadVars, libVars, victim, fault>>
  BY DEF DestructorEnds, DtorStep
<1>2. \A t \in Threads : pc[t] = "idle" /\ tinfo[t] = None
  BY <1>1 DEF CalmInv, Ending, Belongs
<1>3. \A c \in Conns : param[c] = None /\ lib[c] = "free"
  BY <1>1 DEF CalmInv, Ending, Belongs, NoHandle
<1>4. UNCHANGED <<pc, tinfo, lib, param>>
  BY <1>1 DEF threadVars, libVars
<1>5. Belongs' /\ Registered' /\ Ending'
  BY <1>1, <1>2, <1>3, <1>4 DEF Belongs, Registered, Ending
<1> QED BY <1>1, <1>5 DEF CalmInv
-----------------------------------------------------------------------------
(* No step touches what is not there.                                      *)
LEMMA NothingUndefined ==
  ASSUME CalmOperator, TypeOK, CalmInv
  PROVE  ~UndefinedBehaviour
<1>0. \A c \in Conns : lib[c] = "free" <=> param[c] = None
  BY DEF CalmInv, Belongs
<1>1. ASSUME NEW t \in Threads PROVE ~DanglingInfo(t)
  <2>1. CASE pc[t] = "idle"
    BY <2>1 DEF DanglingInfo, ReadsInfo, ReportPcs
  <2>2. CASE pc[t] # "idle"
    BY <2>2, Working DEF DanglingInfo
  <2> QED BY <2>1, <2>2
<1>2. ASSUME NEW t \in Threads PROVE ~NullHandle(t) /\ ~FreedHandle(t) /\ ~MisusedHandle(t)
  <2>1. CASE UsesHandle(t)
    <3>1. pc[t] # "idle"
      BY <2>1 DEF UsesHandle, ReadsConnection, DestroyPcs, JoinPcs
    <3>2. pc[t] \notin Bare
      BY <2>1 DEF UsesHandle, ReadsConnection, DestroyPcs, JoinPcs, Bare,
                  Errors, Dials, Waits, GivesIn
    <3>3. pc[t] \in Held
      BY <3>1, <3>2, Working DEF Between, Using, Bare, Held
    <3>4. PICK i \in live, c \in Conns :
            Here(i, t) /\ Using(i, t, c) /\ param[c] = i /\ c # None
      BY <3>3, HereUsing
    <3>5. HandleOf(t) = c
      <4>1. CASE ReadsConnection(t)
        BY <3>4, <4>1 DEF HandleOf, ReadsConnection, Here, Using, Inside
      <4>2. CASE ~ReadsConnection(t)
        <5>1. pc[t] \in Outside \cup {"c_wait", "c_fail_join"}
          BY <2>1, <3>3, <4>2 DEF UsesHandle, ReadsConnection, DestroyPcs, JoinPcs,
                                  Held, Inside, Outside
        <5> QED BY <3>4, <4>2, <5>1 DEF HandleOf, Using
      <4> QED BY <4>1, <4>2
    <3>6. lib[c] # "free"
      BY <1>0, <3>4 DEF Here
    <3>7. pc[t] = "c_connect" => lib[c] = "idle" /\ ~closing[c]
      BY <3>4 DEF Using, Joining
    <3> QED BY <3>4, <3>5, <3>6, <3>7 DEF NullHandle, FreedHandle, MisusedHandle
  <2>2. CASE ~UsesHandle(t)
    BY <2>2 DEF NullHandle, FreedHandle, MisusedHandle, UsesHandle, ReadsConnection
  <2> QED BY <2>1, <2>2
<1>3. ASSUME NEW c \in Conns PROVE ~DanglingParam(c)
  BY DEF DanglingParam, CalmInv, Belongs
<1>4. ~DanglingSend
  <2> SUFFICES ASSUME Quiet, NEW i \in live, connection[i] # None PROVE lib[connection[i]] # "free"
    BY DEF DanglingSend
  <2>1. AtRest(i)
    BY DEF Quiet, CalmOperator
  <2> QED BY <2>1, AtRestSituation DEF Down
<1>5. victim # None => lib[victim] # "free"
  BY <1>0 DEF CalmInv, Ending, TypeOK
<1> QED BY <1>1, <1>2, <1>3, <1>4, <1>5 DEF UndefinedBehaviour
-----------------------------------------------------------------------------
(* Every step keeps the invariant, and all but the destructor's last are   *)
(* steps that the operator was promised.                                   *)
LEMMA CalmNext ==
  ASSUME CalmOperator, TypeOK, TypeOK', CalmInv, [Next]_vars
  PROVE  CalmInv' /\ (PromiseStep \/ DestructorEnds)
<1>1. ASSUME NEW s \in Stations, RemoveStation(s) PROVE FALSE
  BY <1>1 DEF RemoveStation, Call, CalmOperator
<1>2. CASE UNCHANGED vars
  <2>1. dtor' = dtor /\ UNCHANGED <<registry, infoVars, libVars, threadVars, reported, fault>>
    BY <1>2 DEF vars, others
  <2>2. UNCHANGED <<live, station, pc, lib, param, victim, todo>>
    BY <1>2 DEF vars, others, registry, threadVars, libVars
  <2>3. Ending'
    BY <2>1, <2>2 DEF CalmInv, Ending, NoHandle
  <2> QED BY <2>1, <2>3, UnseenStep
<1>3. CASE Destructor
  BY <1>3, DestructorDestroysCalm, DestructorJoinsNever, DestructorEndsCalm DEF Destructor
<1> QED BY <1>1, <1>2, <1>3, AddCalm, DisconnectCalm, ConnectCalm, ThreadStepCalm,
           LibStepCalm, DestructorStartsCalm, NothingUndefined DEF Next

(* The invariant holds in every reachable state, for any number of         *)
(* stations, infos, handles and threads.                                   *)
THEOREM CalmInvariant ==
  ASSUME CalmOperator PROVE Spec => [](TypeOK /\ CalmInv)
<1>1. Init => CalmInv
  BY DEF Init, CalmInv, Belongs, Registered, Ending
<1>2. TypeOK /\ TypeOK' /\ CalmInv /\ [Next]_vars => CalmInv'
  BY CalmNext
<1> QED BY <1>1, <1>2, TypeCorrect, PTL DEF Spec

(* What a station at rest shows, and what was last reported of it, is what *)
(* it is.                                                                  *)
THEOREM CalmRestAccurate ==
  ASSUME CalmOperator PROVE Spec => []RestAccurate
<1>1. TypeOK /\ CalmInv => RestAccurate
  <2> SUFFICES ASSUME TypeOK, CalmInv, NEW i \in live, AtRest(i)
               PROVE  /\ status[i] = "CONNECTED" <=> Connected(i)
                      /\ status[i] # "CONNECTING"
                      /\ reported[station[i]] = status[i]
    BY DEF RestAccurate, Connected
  <2>1. CASE Down(i)
    BY <2>1 DEF Down, Connected
  <2>2. ASSUME NEW c \in Conns, lib[c] = "up", connection[i] = c, Session(i, c), c # None
        PROVE  /\ status[i] = "CONNECTED" /\ Connected(i)
               /\ reported[station[i]] = status[i]
    BY <2>2 DEF Session, Connected
  <2> QED BY <2>1, <2>2, AtRestSituation
<1> QED BY <1>1, CalmInvariant, PTL

(* Without a shutdown every step is one that StationPromise allows: the    *)
(* safety part of the refinement PromiseKept.                              *)
PromiseSafety == Promise!Init /\ [][Promise!Next]_(Promise!vars)
NotEnding     == dtor = "none"

LEMMA NeverEnding ==
  ASSUME "shutdown" \notin Commands, NotEnding, [Next]_vars
  PROVE  NotEnding'
<1>1. ASSUME NEW op, Call(op) PROVE NotEnding'
  BY <1>1 DEF Call, NotEnding
<1>2. ASSUME NEW t \in Threads, ThreadStep(t) PROVE NotEnding'
  <2>1. Ready(t)
    BY <1>2 DEF ThreadStep, At, ReportStatus, DestroyReturns, ConnectCreate, ConnectDial,
                ConnectReturns, ConnectStartDT, ConnectStatus, ConnectFail,
                ConnectFailNull, ConnectRetry, RetryLoop, RetryWakes, RetryStatus,
                RetryStatusIs, RetrySwap, SwapOut, RetryDial, DialNew, RetryCreateFails,
                RetryReturns, RetryPublish, Publish, RetryExit, RetryGiveUp, GiveUpWith
  <2> QED BY <2>1 DEF Ready, others, NotEnding
<1>3. ASSUME NEW c \in Conns,
             DialSucceeds(c) \/ DialFails(c) \/ SessionEnds(c) \/ ConnectionHandler(c)
      PROVE  NotEnding'
  BY <1>3 DEF DialSucceeds, DialFails, SessionEnds, LibOnly, LibStep, ConnectionHandler,
              OpenedHandler, OpenedReport, ClosedHandler, ClosedReport, FailedHandler,
              FailedReport, Handler, HandlerReport, NotEnding
<1>4. ~DestructorStarts /\ ~Destructor
  BY DEF DestructorStarts, Destructor, DestructorDestroys, DestructorJoins,
         DestructorEnds, NotEnding
<1>5. UndefinedBehaviour \/ UNCHANGED vars => NotEnding'
  BY DEF UndefinedBehaviour, vars, others, NotEnding
<1>6. ASSUME NEW s \in Stations,
             AddStation(s) \/ RemoveStation(s) \/ DisconnectStation(s) \/ ConnectStation(s)
      PROVE  NotEnding'
  BY <1>1, <1>6 DEF AddStation, RemoveStation, DisconnectStation, TakeDown, ConnectStation
<1> QED BY <1>2, <1>3, <1>4, <1>5, <1>6 DEF Next

(* What the operator sees of a station (its status and whether it is       *)
(* wanted) changes only as StationPromise allows: add, connect,            *)
(* disconnect, the dial's answer, the loss and the retry, each from the    *)
(* states where it may.                                                    *)
THEOREM CalmPromiseKept ==
  ASSUME CalmOperator, "shutdown" \notin Commands PROVE Spec => PromiseSafety
<1>1. Init => Promise!Init /\ NotEnding
  <2> SUFFICES ASSUME Init PROVE Promise!Init /\ NotEnding
    OBVIOUS
  <2>1. \A s \in Stations : connections[s] = None
    BY DEF Init
  <2>2. \A s \in Stations : Shown(s) = "ABSENT" /\ Wanted(s) = FALSE
    BY <2>1 DEF Shown, Wanted
  <2>3. AllShown = [s \in Stations |-> "ABSENT"] /\ AllWanted = [s \in Stations |-> FALSE]
    BY <2>2 DEF AllShown, AllWanted
  <2> QED BY <2>3 DEF Promise!Init, AllShown, AllWanted, Shown, Wanted, Init, NotEnding
<1>2. NotEnding /\ [Next]_vars => NotEnding'
  BY NeverEnding
<1>3. TypeOK /\ TypeOK' /\ CalmInv /\ NotEnding /\ [Next]_vars => [Promise!Next]_(Promise!vars)
  BY CalmNext DEF DestructorEnds, PromiseStep, NotEnding
<1> QED BY <1>1, <1>2, <1>3, CalmInvariant, PTL DEF Spec, PromiseSafety
=============================================================================
