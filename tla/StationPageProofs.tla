-------------------------- MODULE StationPageProofs --------------------------
(***************************************************************************)
(* The page's list follows the application's.                              *)
(*                                                                         *)
(* Between the change of a status in g_stations and the page's reading of  *)
(* the event the two differ.  The invariant says where the news are: with  *)
(* an actor who will send them, or in the last event on its way; and the   *)
(* same of a list that was taken and has not arrived.                      *)
(***************************************************************************)
EXTENDS StationStatusProofs

(* An actor whose event about s is still to be sent; or a connect request  *)
(* of the page, which has changed its own row already.                     *)
Tells(t) ==
    \/ pc[t] = "announce"
    \/ pc[t] \in {"lookUp", "tell"} /\ doing[t].op = "connect" /\ doing[t].own
Unsent(s) ==
    \/ \E t \in Threads : Busy(t, s) /\ Tells(t)
    \/ \E r \in Reporters : Reports(r, s) /\ report[r].at = "announce"

(* The last event about s on its way has this status.                      *)
Latest(s, status) ==
    \E k \in DOMAIN transit :
        /\ transit[k].id = s /\ transit[k].status = status
        /\ \A j \in DOMAIN transit : j > k => transit[j].id # s

Sent(s) ==
    s \in DOMAIN g_stations /\ InTransit(s) => Unsent(s) \/ Latest(s, g_stations[s])
Displayed(s) ==
    s \in DOMAIN g_stations /\ s \in DOMAIN stations /\ ~InTransit(s)
        => Unsent(s) \/ stations[s] = g_stations[s]
Fetched(s) ==
    loading = "taken" /\ s \in DOMAIN g_stations /\ s \in DOMAIN response /\ ~InTransit(s)
        => Unsent(s) \/ response[s] = g_stations[s]

(* What holds while a thread, or a reporter, is at its place.              *)
Claims(t, s) ==
    /\ pc[t] = "store" /\ doing[t].own =>
          /\ ~InTransit(s)
          /\ s \in DOMAIN stations => stations[s] = "connecting"
          /\ loading = "taken" => s \notin DOMAIN response
    /\ pc[t] = "announce" /\ s \in DOMAIN g_stations => g_stations[s] = Told(t)
Asserts(r, s) ==
    report[r].at = "announce" /\ s \in DOMAIN g_stations
        => g_stations[s] = report[r].status

Seen(s) ==
    /\ Sent(s) /\ Displayed(s) /\ Fetched(s)
    /\ \A t \in Threads : Busy(t, s) => Claims(t, s)
    /\ \A r \in Reporters : Reports(r, s) => Asserts(r, s)

PInv == \A s \in Stations \ (muddled \cup missed) : Seen(s)
-----------------------------------------------------------------------------
(* An event joins the queue at its end, and leaves it at its head.         *)
LEMMA Appended ==
    ASSUME transit \in Seq(Report), NEW e \in Report, transit' = Append(transit, e),
           NEW s \in Stations
    PROVE  /\ s # e.id => (InTransit(s)' <=> InTransit(s))
           /\ s # e.id => \A status : Latest(s, status) => Latest(s, status)'
           /\ s = e.id => InTransit(s)' /\ Latest(s, e.status)'
<1>1. /\ Len(transit) \in Nat /\ DOMAIN transit = 1..Len(transit)
      /\ DOMAIN transit' = 1..(Len(transit) + 1)
      /\ transit'[Len(transit) + 1] = e
      /\ \A k \in DOMAIN transit : transit'[k] = transit[k]
  OBVIOUS
<1>2. CASE s # e.id
  <2>1. InTransit(s)' <=> InTransit(s)
    BY <1>1, <1>2 DEF InTransit
  <2>2. ASSUME NEW status, Latest(s, status)
        PROVE  Latest(s, status)'
    BY <1>1, <1>2, <2>2 DEF Latest
  <2> QED BY <1>2, <2>1, <2>2
<1>3. CASE s = e.id
  BY <1>1, <1>3 DEF InTransit, Latest
<1> QED BY <1>2, <1>3

LEMMA Delivered ==
    ASSUME transit \in Seq(Report), transit # <<>>, transit' = Tail(transit),
           NEW s \in Stations
    PROVE  /\ InTransit(s)' => InTransit(s)
           /\ InTransit(s)' => \A status : Latest(s, status) => Latest(s, status)'
           /\ s # Head(transit).id => (InTransit(s) => InTransit(s)')
           /\ ~InTransit(s)' => \A status : Latest(s, status)
                                  => s = Head(transit).id /\ Head(transit).status = status
<1>1. /\ Len(transit) \in Nat \ {0} /\ DOMAIN transit = 1..Len(transit)
      /\ Head(transit) = transit[1]
      /\ DOMAIN transit' = 1..(Len(transit) - 1)
      /\ \A k \in DOMAIN transit' : k + 1 \in DOMAIN transit /\ transit'[k] = transit[k + 1]
      /\ \A k \in DOMAIN transit : k # 1 => k - 1 \in DOMAIN transit'
                                            /\ transit'[k - 1] = transit[k]
  OBVIOUS
<1>2. InTransit(s)' => InTransit(s)
  BY <1>1 DEF InTransit
<1>3. s # Head(transit).id => (InTransit(s) => InTransit(s)')
  BY <1>1 DEF InTransit
<1>4. ASSUME NEW status, Latest(s, status), InTransit(s)'
      PROVE  Latest(s, status)'
  <2>1. PICK k \in DOMAIN transit :
            /\ transit[k].id = s /\ transit[k].status = status
            /\ \A j \in DOMAIN transit : j > k => transit[j].id # s
    BY <1>4 DEF Latest
  <2>2. PICK i \in DOMAIN transit' : transit'[i].id = s
    BY <1>4 DEF InTransit
  <2>3. k # 1
    BY <1>1, <2>1, <2>2
  <2>4. /\ k - 1 \in DOMAIN transit' /\ transit'[k - 1] = transit[k]
        /\ \A j \in DOMAIN transit' : j > k - 1 => transit'[j].id # s
    BY <1>1, <2>1, <2>3
  <2> QED BY <2>1, <2>4 DEF Latest
<1>5. ASSUME NEW status, Latest(s, status), ~InTransit(s)'
      PROVE  s = Head(transit).id /\ Head(transit).status = status
  BY <1>1, <1>5 DEF Latest, InTransit
<1> QED BY <1>2, <1>3, <1>4, <1>5

(* The list's entry of s, the page, and the threads and reporters busy     *)
(* with s are as they were.                                                *)
SameEntry(s) ==
    /\ s \in DOMAIN g_stations' <=> s \in DOMAIN g_stations
    /\ s \in DOMAIN g_stations => g_stations'[s] = g_stations[s]
SamePage(s) ==
    /\ s \in DOMAIN stations' <=> s \in DOMAIN stations
    /\ s \in DOMAIN stations => stations'[s] = stations[s]
    /\ InTransit(s)' <=> InTransit(s)
    /\ \A status : Latest(s, status) => Latest(s, status)'
    /\ loading' = "taken" => loading = "taken" /\ response' = response
SameActors(s) ==
    /\ \A t \in Threads : Busy(t, s)' <=> Busy(t, s)
    /\ \A t \in Threads : Busy(t, s) => pc'[t] = pc[t] /\ doing'[t] = doing[t]
    /\ \A r \in Reporters : Reports(r, s)' <=> Reports(r, s)
    /\ \A r \in Reporters : Reports(r, s) => report'[r] = report[r]

LEMMA SeenElsewhere ==
    ASSUME NEW s \in Stations, Seen(s), SameActors(s), SameEntry(s), SamePage(s)
    PROVE  Seen(s)'
<1>1. Unsent(s) => Unsent(s)'
  BY DEF Unsent, Tells, SameActors
<1>2. Sent(s)'
  BY <1>1 DEF Seen, Sent, SameEntry, SamePage
<1>3. Displayed(s)'
  BY <1>1 DEF Seen, Displayed, SameEntry, SamePage
<1>4. Fetched(s)'
  BY <1>1 DEF Seen, Fetched, SameEntry, SamePage
<1>5. ASSUME NEW t \in Threads, Busy(t, s)'
      PROVE  Claims(t, s)'
  <2>1. Busy(t, s) /\ Claims(t, s) /\ pc'[t] = pc[t] /\ doing'[t] = doing[t]
    BY <1>5 DEF SameActors, Seen
  <2>2. Told(t)' = Told(t)
    BY <2>1 DEF Told
  <2> QED BY <2>1, <2>2 DEF Claims, SameEntry, SamePage
<1>6. ASSUME NEW r \in Reporters, Reports(r, s)'
      PROVE  Asserts(r, s)'
  BY <1>6 DEF SameActors, Seen, Asserts, SameEntry
<1> QED BY <1>2, <1>3, <1>4, <1>5, <1>6 DEF Seen

(* What the one actor of a station owes it.                                *)
LEMMA ThreadSeen ==
    ASSUME NEW t \in Threads, NEW s \in Stations, OnlyThread(t), Busy(t, s), Alone(s),
           Sent(s)', Displayed(s)', Fetched(s)', Claims(t, s)'
    PROVE  Seen(s)'
<1>1. \A u \in Threads \ {t} : ~Busy(u, s)'
  BY DEF Busy, Alone, OnlyThread
<1>2. \A r \in Reporters : ~Reports(r, s)'
  BY DEF Reports, Alone, OnlyThread
<1> QED BY <1>1, <1>2 DEF Seen

LEMMA ReporterSeen ==
    ASSUME NEW r \in Reporters, NEW s \in Stations, OnlyReporter(r), Reports(r, s), Alone(s),
           Sent(s)', Displayed(s)', Fetched(s)', Asserts(r, s)'
    PROVE  Seen(s)'
<1>1. \A q \in Reporters \ {r} : ~Reports(q, s)'
  BY DEF Reports, Alone, OnlyReporter
<1>2. \A t \in Threads : ~Busy(t, s)'
  BY DEF Busy, Reports, Alone, OnlyReporter
<1> QED BY <1>1, <1>2 DEF Seen

(* If the actor of a station owed it no event, the page is right already.  *)
LEMMA NothingUnsent ==
    ASSUME NEW s \in Stations, Seen(s), ~Unsent(s)
    PROVE  /\ s \in DOMAIN g_stations /\ InTransit(s) => Latest(s, g_stations[s])
           /\ s \in DOMAIN g_stations /\ s \in DOMAIN stations /\ ~InTransit(s)
                => stations[s] = g_stations[s]
           /\ loading = "taken" /\ s \in DOMAIN g_stations /\ s \in DOMAIN response
                /\ ~InTransit(s) => response[s] = g_stations[s]
BY DEF Seen, Sent, Displayed, Fetched

LEMMA StillSeen ==
    ASSUME NEW s \in Stations, Seen(s), ~Unsent(s), SamePage(s),
           s \in DOMAIN g_stations' => s \in DOMAIN g_stations /\ g_stations'[s] = g_stations[s]
    PROVE  Sent(s)' /\ Displayed(s)' /\ Fetched(s)'
<1>1. Sent(s)'
  BY NothingUnsent DEF Sent, SamePage
<1>2. Displayed(s)'
  BY NothingUnsent DEF Displayed, SamePage
<1>3. Fetched(s)'
  BY NothingUnsent DEF Fetched, SamePage
<1> QED BY <1>1, <1>2, <1>3

LEMMA SameTransit ==
    ASSUME UNCHANGED transit, NEW s
    PROVE  /\ InTransit(s)' <=> InTransit(s)
           /\ \A status : Latest(s, status) => Latest(s, status)'
BY DEF InTransit, Latest

LEMMA PageUntouched ==
    ASSUME UNCHANGED <<page, transit>>, NEW s \in Stations
    PROVE  SamePage(s)
BY SameTransit DEF SamePage, page

(* The others' stations when a thread, or a reporter, moves.               *)
LEMMA ThreadActors ==
    ASSUME NEW t \in Threads, NEW s \in Stations, OnlyThread(t), ~Busy(t, s), pc[t] # "idle"
    PROVE  SameActors(s)
BY DEF SameActors, OnlyThread, Busy, Reports

LEMMA ReporterActors ==
    ASSUME NEW r \in Reporters, NEW s \in Stations, OnlyReporter(r), ~Reports(r, s),
           report[r].at # "idle"
    PROVE  SameActors(s)
<1>1. /\ \A t \in Threads : Busy(t, s)' <=> Busy(t, s)
      /\ pc' = pc /\ doing' = doing
  BY DEF OnlyReporter, Busy
<1>2. \A q \in Reporters : /\ Reports(q, s)' <=> Reports(q, s)
                           /\ Reports(q, s) => report'[q] = report[q]
  BY DEF OnlyReporter, Reports
<1> QED BY <1>1, <1>2 DEF SameActors
-----------------------------------------------------------------------------
(* One lemma per action, or per kind of action.                            *)
LEMMA QuietSeen ==
    ASSUME RegistryAssumption, IInv, FInv, PInv, NEW t \in Threads,
           Register(t) \/ Erase(t) \/ Forget(t) \/ HangUp(t) \/ Destroy(t) \/ SendCommand(t)
    PROVE  PInv'
<1> DEFINE s0 == doing[t].id
<1>1. /\ OnlyThread(t) /\ UNCHANGED <<page, transit, muddled, missed>>
      /\ pc[t] \in {"register", "erase", "forget", "hangUp", "destroy", "send"}
      /\ pc'[t] \in {"idle", "forget", "destroy", "tell"}
      /\ g_stations' = g_stations \/ (g_stations' = Without(g_stations, s0) /\ pc[t] = "erase")
  BY GotoPlaces, DonePlaces DEF IInv, Here, OnlyThread, Register, Erase, Forget, HangUp,
     Destroy, SendCommand, shared, histories
<1>2. g_stations \in Lists /\ (pc[t] = "erase" => s0 \in Stations) /\ "error" \in Status
  BY <1>1 DEF IInv, TypeOK, Labels, Status
<1> HIDE DEF s0
<1>3. ASSUME NEW s \in Stations \ (muddled \cup missed)
      PROVE  Seen(s)'
  <2>1. Seen(s) /\ Alone(s)
    BY <1>3 DEF PInv, FInv, Follows
  <2>2. SamePage(s)
    BY <1>1, PageUntouched
  <2>3. s # s0 => SameEntry(s)
    BY <1>1, <1>2, ListValues DEF SameEntry
  <2>4. CASE ~Busy(t, s)
    <3>1. SameActors(s) /\ s # s0
      BY <1>1, <2>4, ThreadActors DEF Busy, s0
    <3> QED BY <2>1, <2>2, <2>3, <3>1, SeenElsewhere
  <2>5. CASE Busy(t, s)
    <3>1. ~Unsent(s)
      BY <1>1, <2>1, <2>5 DEF Alone, Unsent, Tells
    <3>2. s \in DOMAIN g_stations' => s \in DOMAIN g_stations /\ g_stations'[s] = g_stations[s]
      <4>1. CASE g_stations' = g_stations
        BY <4>1
      <4>2. CASE g_stations' = Without(g_stations, s0) /\ pc[t] = "erase"
        BY <1>2, <2>5, <4>2, ListValues DEF Busy, s0
      <4> QED BY <1>1, <4>1, <4>2
    <3>3. Sent(s)' /\ Displayed(s)' /\ Fetched(s)'
      BY <2>1, <2>2, <3>1, <3>2, StillSeen
    <3>4. Claims(t, s)'
      BY <1>1 DEF Claims
    <3> QED BY <1>1, <2>1, <2>5, <3>3, <3>4, ThreadSeen
  <2> QED BY <2>4, <2>5
<1> QED BY <1>1, <1>3 DEF PInv

(* The list taken for the page is the application's of that moment.        *)
LEMMA SnapshotSeen ==
    ASSUME RegistryAssumption, IInv, FInv, PInv, NEW t \in Threads, Snapshot(t)
    PROVE  PInv'
<1>1. /\ OnlyThread(t) /\ pc[t] = "snapshot" /\ pc'[t] = "idle"
      /\ UNCHANGED <<g_stations, stations, transit, muddled, missed>>
      /\ response' = g_stations /\ loading' = "taken"
  BY DonePlaces DEF IInv, Here, OnlyThread, Snapshot, shared, histories
<1>2. ASSUME NEW s \in Stations \ (muddled \cup missed)
      PROVE  Seen(s)'
  <2>1. Seen(s) /\ Alone(s) /\ Follows(s)
    BY <1>2 DEF PInv, FInv, Follows
  <2>2. /\ InTransit(s)' <=> InTransit(s)
        /\ \A status : Latest(s, status) => Latest(s, status)'
    BY <1>1, SameTransit
  <2>3. \A u \in Threads : Busy(u, s)' => Busy(u, s) /\ pc'[u] = pc[u] /\ doing'[u] = doing[u]
    BY <1>1 DEF OnlyThread, Busy
  <2>4. Unsent(s) => Unsent(s)'
    BY <1>1 DEF OnlyThread, Unsent, Busy, Tells, Reports
  <2>5. Sent(s)' /\ Displayed(s)' /\ Fetched(s)'
    BY <1>1, <2>1, <2>2, <2>4 DEF Seen, Sent, Displayed, Fetched
  <2>6. ASSUME NEW u \in Threads, Busy(u, s)'
        PROVE  Claims(u, s)'
    <3>1. Busy(u, s) /\ Claims(u, s) /\ Relies(u, s) /\ pc'[u] = pc[u] /\ doing'[u] = doing[u]
      BY <2>1, <2>3, <2>6 DEF Seen, Follows
    <3>2. Told(u)' = Told(u)
      BY <3>1 DEF Told
    <3> QED BY <1>1, <2>2, <3>1, <3>2 DEF Claims, Relies
  <2>7. \A r \in Reporters : Reports(r, s)' => Asserts(r, s)'
    BY <1>1, <2>1 DEF Seen, OnlyThread, Reports, Asserts
  <2> QED BY <2>5, <2>6, <2>7 DEF Seen
<1> QED BY <1>1, <1>2 DEF PInv

LEMMA StoreSeen ==
    ASSUME RegistryAssumption, IInv, FInv, PInv, NEW t \in Threads, Store(t)
    PROVE  PInv'
<1> DEFINE s0 == doing[t].id
<1>1. /\ OnlyThread(t) /\ pc[t] = "store" /\ pc'[t] = "register" /\ doing'[t] = doing[t]
      /\ UNCHANGED <<page, transit, muddled>>
      /\ g_stations' = With(g_stations, s0, "connecting")
      /\ missed' = IF doing[t].own THEN missed ELSE missed \cup News(s0)
  BY GotoPlaces DEF IInv, Here, OnlyThread, Store
<1>2. s0 \in Stations /\ g_stations \in Lists /\ "connecting" \in Status
  BY <1>1 DEF IInv, TypeOK, Labels, Status
<1> HIDE DEF s0
<1>3. ASSUME NEW s \in Stations \ (muddled' \cup missed')
      PROVE  Seen(s)'
  <2>1. Seen(s) /\ Alone(s)
    BY <1>1, <1>3 DEF PInv, FInv, Follows
  <2>2. SamePage(s)
    BY <1>1, PageUntouched
  <2>3. CASE s # s0
    <3>1. SameActors(s) /\ SameEntry(s)
      BY <1>1, <1>2, <2>3, ThreadActors, ListValues DEF SameEntry, Busy, s0
    <3> QED BY <2>1, <2>2, <3>1, SeenElsewhere
  <2>4. CASE s = s0
    <3>1. Busy(t, s) /\ Claims(t, s)
      BY <1>1, <2>1, <2>4 DEF Busy, s0, Seen
    <3>2. g_stations'[s] = "connecting"
      BY <1>1, <1>2, <2>4, ListValues
    <3>3. /\ ~InTransit(s)
          /\ s \in DOMAIN stations => stations[s] = "connecting"
          /\ loading = "taken" => s \notin DOMAIN response
      <4>1. CASE doing[t].own
        BY <1>1, <3>1, <4>1 DEF Claims
      <4>2. CASE ~doing[t].own
        BY <1>1, <1>3, <2>4, <4>2 DEF News
      <4> QED BY <4>1, <4>2
    <3>4. Sent(s)' /\ Displayed(s)' /\ Fetched(s)'
      BY <1>1, <2>2, <3>2, <3>3 DEF Sent, Displayed, Fetched, SamePage, page
    <3>5. Claims(t, s)'
      BY <1>1 DEF Claims
    <3> QED BY <1>1, <2>1, <3>1, <3>4, <3>5, ThreadSeen
  <2> QED BY <2>3, <2>4
<1> QED BY <1>1, <1>3 DEF PInv

LEMMA LookUpSeen ==
    ASSUME RegistryAssumption, IInv, FInv, PInv, NEW t \in Threads, LookUp(t)
    PROVE  PInv'
<1> DEFINE s0 == doing[t].id
<1>1. /\ OnlyThread(t) /\ pc[t] = "lookUp" /\ doing[t].op = "connect"
      /\ UNCHANGED <<g_stations, page, transit, muddled>>
      /\ \/ pc'[t] = "idle" /\ missed' = missed \cup {x \in {s0} : doing[t].own}
         \/ pc'[t] = "tell" /\ doing'[t] = doing[t] /\ missed' = missed
  BY GotoPlaces, DonePlaces DEF IInv, Labels, Here, OnlyThread, LookUp
<1> HIDE DEF s0
<1>3. ASSUME NEW s \in Stations \ (muddled' \cup missed')
      PROVE  Seen(s)'
  <2>1. Seen(s) /\ Alone(s)
    BY <1>1, <1>3 DEF PInv, FInv, Follows
  <2>2. SamePage(s) /\ SameEntry(s)
    BY <1>1, PageUntouched DEF SameEntry
  <2>3. CASE ~Busy(t, s)
    <3>1. SameActors(s)
      BY <1>1, <2>3, ThreadActors
    <3> QED BY <2>1, <2>2, <3>1, SeenElsewhere
  <2>4. CASE Busy(t, s)
    <3>1. s = s0
      BY <2>4 DEF Busy, s0
    <3>2. Claims(t, s)'
      BY <1>1 DEF Claims
    <3>3. CASE ~doing[t].own
      <4>1. ~Unsent(s)
        BY <1>1, <2>1, <2>4, <3>3 DEF Alone, Unsent, Tells
      <4>2. Sent(s)' /\ Displayed(s)' /\ Fetched(s)'
        BY <2>1, <2>2, <4>1, StillSeen DEF SameEntry
      <4> QED BY <1>1, <2>1, <2>4, <3>2, <4>2, ThreadSeen
    <3>4. CASE doing[t].own
      <4>1. pc'[t] = "tell" /\ doing'[t] = doing[t]
        BY <1>1, <1>3, <3>1, <3>4
      <4>2. Unsent(s)'
        BY <1>1, <2>4, <3>4, <4>1 DEF Unsent, Busy, Tells
      <4>3. Sent(s)' /\ Displayed(s)' /\ Fetched(s)'
        BY <4>2 DEF Sent, Displayed, Fetched
      <4> QED BY <1>1, <2>1, <2>4, <3>2, <4>3, ThreadSeen
    <3> QED BY <3>3, <3>4
  <2> QED BY <2>3, <2>4
<1> QED BY <1>1, <1>3 DEF PInv

LEMMA TellSeen ==
    ASSUME RegistryAssumption, IInv, FInv, PInv, NEW t \in Threads, Tell(t)
    PROVE  PInv'
<1> DEFINE s0 == doing[t].id
<1>1. /\ OnlyThread(t) /\ pc[t] = "tell" /\ pc'[t] = "announce" /\ doing'[t] = doing[t]
      /\ UNCHANGED <<page, transit, muddled, missed>>
      /\ g_stations' = Update(g_stations, s0, Told(t))
  BY GotoPlaces DEF IInv, Here, OnlyThread, Tell, ListStatus, Found, histories
<1>2. s0 \in Stations /\ g_stations \in Lists /\ Told(t) \in Status
  BY <1>1 DEF IInv, TypeOK, Labels, Status, Told
<1> HIDE DEF s0
<1>3. ASSUME NEW s \in Stations \ (muddled \cup missed)
      PROVE  Seen(s)'
  <2>1. Seen(s) /\ Alone(s)
    BY <1>3 DEF PInv, FInv, Follows
  <2>2. CASE s # s0
    <3>1. SameActors(s) /\ SameEntry(s) /\ SamePage(s)
      BY <1>1, <1>2, <2>2, ThreadActors, PageUntouched, ListValues DEF SameEntry, Busy, s0
    <3> QED BY <2>1, <3>1, SeenElsewhere
  <2>3. CASE s = s0
    <3>1. Busy(t, s) /\ Busy(t, s)'
      BY <1>1, <2>3 DEF Busy, s0
    <3>2. s \in DOMAIN g_stations' => g_stations'[s] = Told(t)
      BY <1>1, <1>2, <2>3, ListValues
    <3>3. Claims(t, s)'
      BY <1>1, <3>2 DEF Claims, Told
    <3>4. Unsent(s)'
      BY <1>1, <3>1 DEF Unsent, Tells
    <3>5. Sent(s)' /\ Displayed(s)' /\ Fetched(s)'
      BY <3>4 DEF Sent, Displayed, Fetched
    <3> QED BY <1>1, <2>1, <3>1, <3>3, <3>5, ThreadSeen
  <2> QED BY <2>2, <2>3
<1> QED BY <1>1, <1>3 DEF PInv

LEMMA ReportStatusSeen ==
    ASSUME RegistryAssumption, IInv, FInv, PInv, NEW r \in Reporters, ReportStatus(r)
    PROVE  PInv'
<1> DEFINE s0 == report[r].id
<1>1. /\ OnlyReporter(r) /\ UNCHANGED <<page, transit, muddled, missed>>
      /\ report[r].at = "tell" /\ report'[r].at = "announce" /\ report'[r].id = s0
      /\ report'[r].status = report[r].status
      /\ g_stations' = Update(g_stations, s0, report[r].status)
  <2>1. /\ report = [q \in Reporters |-> report[q]]
        /\ report' = [report EXCEPT ![r].at = "announce"] /\ report[r].at = "tell"
        /\ UNCHANGED <<threads, page, transit, histories>>
        /\ g_stations' = Update(g_stations, s0, report[r].status)
    BY DEF ReportStatus, ListStatus, Found, IInv, Shapes
  <2>2. /\ report'[r] = [report[r] EXCEPT !.at = "announce"]
        /\ \A q \in Reporters \ {r} : report'[q] = report[q]
    BY <2>1
  <2>3. report'[r].at = "announce" /\ report'[r].id = s0 /\ report'[r].status = report[r].status
    BY <2>2
  <2> QED BY <2>1, <2>2, <2>3 DEF OnlyReporter, threads, histories
<1>2. s0 \in Stations /\ g_stations \in Lists /\ report[r].status \in Status
  BY <1>1 DEF IInv, TypeOK, Shapes
<1> HIDE DEF s0
<1>3. ASSUME NEW s \in Stations \ (muddled \cup missed)
      PROVE  Seen(s)'
  <2>1. Seen(s) /\ Alone(s)
    BY <1>3 DEF PInv, FInv, Follows
  <2>2. CASE s # s0
    <3>1. SameActors(s) /\ SameEntry(s) /\ SamePage(s)
      BY <1>1, <1>2, <2>2, ReporterActors, PageUntouched, ListValues
      DEF SameEntry, Reports, s0
    <3> QED BY <2>1, <3>1, SeenElsewhere
  <2>3. CASE s = s0
    <3>1. Reports(r, s) /\ Reports(r, s)'
      BY <1>1, <2>3 DEF Reports, s0
    <3>2. s \in DOMAIN g_stations' => g_stations'[s] = report[r].status
      BY <1>1, <1>2, <2>3, ListValues
    <3>3. Asserts(r, s)'
      BY <1>1, <3>2 DEF Asserts
    <3>4. Unsent(s)'
      BY <1>1, <3>1 DEF Unsent
    <3>5. Sent(s)' /\ Displayed(s)' /\ Fetched(s)'
      BY <3>4 DEF Sent, Displayed, Fetched
    <3> QED BY <1>1, <2>1, <3>1, <3>3, <3>5, ReporterSeen
  <2> QED BY <2>2, <2>3
<1> QED BY <1>1, <1>3 DEF PInv

LEMMA WriteSeen ==
    ASSUME RegistryAssumption, IInv, FInv, PInv, NEW r \in Reporters, Write(r)
    PROVE  PInv'
<1>1. /\ OnlyReporter(r) /\ UNCHANGED <<g_stations, page, transit, muddled, missed>>
      /\ report[r].at = "write" /\ report'[r].at = "tell"
  <2>1. /\ report = [q \in Reporters |-> report[q]]
        /\ report' = [report EXCEPT ![r].at = "tell"] /\ report[r].at = "write"
        /\ UNCHANGED <<threads, g_stations, page, transit, histories>>
    BY DEF Write, IInv, Shapes
  <2>2. /\ report'[r] = [report[r] EXCEPT !.at = "tell"]
        /\ \A q \in Reporters \ {r} : report'[q] = report[q]
    BY <2>1
  <2>3. report'[r].at = "tell" /\ report'[r].id = report[r].id
    BY <2>2
  <2> QED BY <2>1, <2>2, <2>3 DEF OnlyReporter, threads, histories
<1>2. ASSUME NEW s \in Stations \ (muddled \cup missed)
      PROVE  Seen(s)'
  <2>1. Seen(s) /\ Alone(s) /\ SameEntry(s) /\ SamePage(s)
    BY <1>1, <1>2, PageUntouched DEF PInv, FInv, Follows, SameEntry
  <2>2. CASE ~Reports(r, s)
    BY <1>1, <2>1, <2>2, ReporterActors, SeenElsewhere
  <2>3. CASE Reports(r, s)
    <3>1. ~Unsent(s)
      BY <1>1, <2>1, <2>3 DEF Alone, Unsent
    <3>2. Sent(s)' /\ Displayed(s)' /\ Fetched(s)'
      BY <2>1, <3>1, StillSeen DEF SameEntry
    <3>3. Asserts(r, s)'
      BY <1>1 DEF Asserts
    <3> QED BY <1>1, <2>1, <2>3, <3>2, <3>3, ReporterSeen
  <2> QED BY <2>2, <2>3
<1> QED BY <1>1, <1>2 DEF PInv

(* An event sent is the page's last news, or the page misses it.           *)
LEMMA Sending ==
    ASSUME IInv, NEW s0 \in Stations, NEW status \in Status, SendEvent(s0, status),
           UNCHANGED <<page, g_stations>>, NEW s \in Stations \ missed'
    PROVE  /\ s # s0 => SamePage(s)
           /\ s = s0 /\ (s \in DOMAIN g_stations => g_stations[s] = status)
                => Sent(s)' /\ Displayed(s)' /\ Fetched(s)'
<1> DEFINE e == [id |-> s0, status |-> status]
<1>1. transit \in Seq(Report) /\ e \in Report /\ e.id = s0 /\ e.status = status
  BY DEF IInv, Shapes, Report
<1>2. CASE listening
  <2>1. transit' = Append(transit, e)
    BY <1>2 DEF SendEvent
  <2> HIDE DEF e
  <2>2. /\ s # s0 => (InTransit(s)' <=> InTransit(s))
        /\ s # s0 => \A st : Latest(s, st) => Latest(s, st)'
        /\ s = s0 => InTransit(s)' /\ Latest(s, status)'
    BY <1>1, <2>1, Appended
  <2> QED BY <2>2 DEF SamePage, page, Sent, Displayed, Fetched
<1>3. CASE ~listening
  <2>1. UNCHANGED transit /\ missed' = missed \cup News(s0)
    BY <1>3 DEF SendEvent
  <2>2. s # s0 => SamePage(s)
    BY <2>1, PageUntouched
  <2>3. s = s0 => /\ s \notin DOMAIN stations /\ ~InTransit(s)
                  /\ loading \notin {"taken", "done"}
    BY <2>1 DEF News
  <2>4. InTransit(s)' <=> InTransit(s)
    BY <2>1, SameTransit
  <2> QED BY <2>2, <2>3, <2>4 DEF Sent, Displayed, Fetched, page
<1> QED BY <1>2, <1>3

LEMMA AnnounceSeen ==
    ASSUME RegistryAssumption, IInv, FInv, PInv, NEW t \in Threads, Announce(t)
    PROVE  PInv'
<1> DEFINE s0 == doing[t].id
<1>1. /\ OnlyThread(t) /\ pc[t] = "announce" /\ pc'[t] = "idle"
      /\ UNCHANGED <<g_stations, page, muddled>> /\ SendEvent(s0, Told(t))
  BY DonePlaces DEF IInv, Here, OnlyThread, Announce
<1>2. s0 \in Stations /\ Told(t) \in Status /\ missed \subseteq missed'
  BY <1>1 DEF IInv, TypeOK, Labels, Status, Told, SendEvent
<1> HIDE DEF s0
<1>3. ASSUME NEW s \in Stations \ (muddled' \cup missed')
      PROVE  Seen(s)'
  <2>1. Seen(s) /\ Alone(s)
    BY <1>1, <1>2, <1>3 DEF PInv, FInv, Follows
  <2>2. CASE s # s0
    <3>1. SameActors(s) /\ SameEntry(s) /\ SamePage(s)
      BY <1>1, <1>2, <2>2, ThreadActors, Sending DEF SameEntry, Busy, s0
    <3> QED BY <2>1, <3>1, SeenElsewhere
  <2>3. CASE s = s0
    <3>1. Busy(t, s) /\ Claims(t, s)
      BY <1>1, <2>1, <2>3 DEF Busy, s0, Seen
    <3>2. s \in DOMAIN g_stations => g_stations[s] = Told(t)
      BY <1>1, <3>1 DEF Claims
    <3>3. Sent(s)' /\ Displayed(s)' /\ Fetched(s)'
      BY <1>1, <1>2, <2>3, <3>2, Sending
    <3>4. Claims(t, s)'
      BY <1>1 DEF Claims
    <3> QED BY <1>1, <2>1, <3>1, <3>3, <3>4, ThreadSeen
  <2> QED BY <2>2, <2>3
<1> QED BY <1>1, <1>3 DEF PInv

LEMMA ReportEventSeen ==
    ASSUME RegistryAssumption, IInv, FInv, PInv, NEW r \in Reporters, ReportEvent(r)
    PROVE  PInv'
<1> DEFINE s0 == report[r].id
<1>1. /\ OnlyReporter(r) /\ UNCHANGED <<g_stations, page, muddled>>
      /\ report[r].at = "announce" /\ report'[r].at = "idle"
      /\ SendEvent(s0, report[r].status)
  BY DEF ReportEvent, NoReport, OnlyReporter, IInv, Shapes, shared, threads
<1>2. s0 \in Stations /\ report[r].status \in Status /\ missed \subseteq missed'
  BY <1>1 DEF IInv, Shapes, SendEvent
<1> HIDE DEF s0
<1>3. ASSUME NEW s \in Stations \ (muddled' \cup missed')
      PROVE  Seen(s)'
  <2>1. Seen(s) /\ Alone(s)
    BY <1>1, <1>2, <1>3 DEF PInv, FInv, Follows
  <2>2. CASE s # s0
    <3>1. SameActors(s) /\ SameEntry(s) /\ SamePage(s)
      BY <1>1, <1>2, <2>2, ReporterActors, Sending DEF SameEntry, Reports, s0
    <3> QED BY <2>1, <3>1, SeenElsewhere
  <2>3. CASE s = s0
    <3>1. Reports(r, s) /\ Asserts(r, s)
      BY <1>1, <2>1, <2>3 DEF Reports, s0, Seen
    <3>2. s \in DOMAIN g_stations => g_stations[s] = report[r].status
      BY <1>1, <3>1 DEF Asserts
    <3>3. Sent(s)' /\ Displayed(s)' /\ Fetched(s)'
      BY <1>1, <1>2, <2>3, <3>2, Sending
    <3>4. Asserts(r, s)'
      BY <1>1 DEF Asserts
    <3> QED BY <1>1, <2>1, <3>1, <3>3, <3>4, ReporterSeen
  <2> QED BY <2>2, <2>3
<1> QED BY <1>1, <1>3 DEF PInv

LEMMA FindSeen ==
    ASSUME RegistryAssumption, IInv, FInv, PInv, NEW r \in Reporters, NEW s0 \in Stations,
           NEW status \in Status, NEW library \in BOOLEAN, Find(r, s0, status, library)
    PROVE  PInv'
<1>1. /\ UNCHANGED <<pc, doing, g_stations, page, transit, missed>>
      /\ report[r].at = "idle" /\ report'[r].at = "write" /\ report'[r].id = s0
      /\ \A q \in Reporters \ {r} : report'[q] = report[q]
      /\ muddled' = muddled \cup (IF Active(s0) # {} THEN {s0} ELSE {})
  BY DEF Find, IInv, Shapes, shared, threads, histories
<1>2. ASSUME NEW s \in Stations \ (muddled' \cup missed')
      PROVE  Seen(s)'
  <2>1. Seen(s) /\ SameEntry(s) /\ SamePage(s)
    BY <1>1, <1>2, PageUntouched DEF PInv, SameEntry
  <2>2. CASE s # s0
    <3>1. SameActors(s)
      BY <1>1, <2>2 DEF SameActors, Busy, Reports
    <3> QED BY <2>1, <3>1, SeenElsewhere
  <2>3. CASE s = s0
    <3>1. Active(s) = {}
      BY <1>1, <1>2, <2>3
    <3>2. /\ \A t \in Threads : ~Busy(t, s)
          /\ \A q \in Reporters : ~Reports(q, s)
      BY <3>1 DEF Active, Busy, Reports
    <3>3. ~Unsent(s)
      BY <3>2 DEF Unsent
    <3>4. Sent(s)' /\ Displayed(s)' /\ Fetched(s)'
      BY <2>1, <3>3, StillSeen DEF SameEntry
    <3>5. /\ \A t \in Threads : ~Busy(t, s)'
          /\ \A q \in Reporters \ {r} : ~Reports(q, s)'
          /\ Asserts(r, s)'
      BY <1>1, <3>2 DEF Busy, Reports, Asserts
    <3> QED BY <3>4, <3>5 DEF Seen
  <2> QED BY <2>2, <2>3
<1> QED BY <1>1, <1>2 DEF PInv

LEMMA ListenSeen ==
    ASSUME PInv, Listen
    PROVE  PInv'
<1>1. /\ UNCHANGED <<pc, doing, report, g_stations, stations, loading, response, transit>>
      /\ UNCHANGED <<muddled, missed>>
  BY DEF Listen, shared, threads, histories
<1>2. ASSUME NEW s \in Stations, Seen(s)
      PROVE  Seen(s)'
  <2>1. SameActors(s) /\ SameEntry(s)
    BY <1>1 DEF SameActors, SameEntry, Busy, Reports
  <2>2. SamePage(s)
    BY <1>1, SameTransit DEF SamePage
  <2> QED BY <1>2, <2>1, <2>2, SeenElsewhere
<1> QED BY <1>1, <1>2 DEF PInv

(* The list that was taken becomes the page's.                             *)
LEMMA LoadStationsSeen ==
    ASSUME PInv, LoadStations
    PROVE  PInv'
<1>1. /\ UNCHANGED <<pc, doing, report, g_stations, response, transit, muddled, missed>>
      /\ loading = "taken" /\ loading' = "done" /\ stations' = response
  BY DEF LoadStations, shared, threads, histories
<1>2. ASSUME NEW s \in Stations, Seen(s)
      PROVE  Seen(s)'
  <2>1. /\ InTransit(s)' <=> InTransit(s)
        /\ \A status : Latest(s, status) => Latest(s, status)'
    BY <1>1, SameTransit
  <2>2. Unsent(s) => Unsent(s)'
    BY <1>1 DEF Unsent, Busy, Reports, Tells
  <2>3. Sent(s)' /\ Displayed(s)' /\ Fetched(s)'
    BY <1>1, <1>2, <2>1, <2>2 DEF Seen, Sent, Displayed, Fetched
  <2>4. ASSUME NEW t \in Threads, Busy(t, s)'
        PROVE  Claims(t, s)'
    <3>1. Busy(t, s) /\ Claims(t, s) /\ Told(t)' = Told(t)
      BY <1>1, <1>2, <2>4 DEF Busy, Seen, Told
    <3> QED BY <1>1, <2>1, <3>1 DEF Claims
  <2>5. \A r \in Reporters : Reports(r, s)' => Asserts(r, s)'
    BY <1>1, <1>2 DEF Seen, Reports, Asserts
  <2> QED BY <2>3, <2>4, <2>5 DEF Seen
<1> QED BY <1>1, <1>2 DEF PInv

LEMMA OnConnectionSeen ==
    ASSUME RegistryAssumption, IInv, PInv, OnConnection
    PROVE  PInv'
<1> DEFINE e == Head(transit)
<1>1. /\ UNCHANGED <<pc, doing, report, g_stations, loading, response, muddled>>
      /\ transit \in Seq(Report) /\ transit # <<>> /\ transit' = Tail(transit)
      /\ stations' = Update(stations, e.id, e.status)
      /\ missed' = IF loading = "done" THEN missed ELSE missed \cup News(e.id)
  BY DEF OnConnection, shared, threads, IInv, Shapes
<1>2. e.id \in Stations /\ e.status \in Status /\ stations \in Lists
  <2>1. e \in Report
    BY <1>1
  <2> QED BY <2>1 DEF Report, IInv, TypeOK
<1>3. \A s \in Stations :
        /\ InTransit(s)' => InTransit(s)
        /\ InTransit(s)' => \A status : Latest(s, status) => Latest(s, status)'
        /\ s # e.id => (InTransit(s) => InTransit(s)')
        /\ ~InTransit(s)' => \A status : Latest(s, status) => s = e.id /\ e.status = status
  BY <1>1, Delivered
<1>4. InTransit(e.id)
  BY <1>1 DEF InTransit
<1> HIDE DEF e
<1>5. ASSUME NEW s \in Stations \ (muddled' \cup missed')
      PROVE  Seen(s)'
  <2>1. Seen(s)
    BY <1>1, <1>5 DEF PInv
  <2>2. Unsent(s) => Unsent(s)'
    BY <1>1 DEF Unsent, Busy, Reports, Tells
  <2>3. /\ s \in DOMAIN stations' <=> s \in DOMAIN stations
        /\ s # e.id /\ s \in DOMAIN stations => stations'[s] = stations[s]
        /\ s = e.id /\ s \in DOMAIN stations => stations'[s] = e.status
    BY <1>1, <1>2, ListValues
  <2>4. s = e.id => loading # "taken"
    BY <1>1, <1>5 DEF News
  <2>5. Sent(s)'
    BY <1>1, <1>3, <2>1, <2>2 DEF Seen, Sent
  <2>6. Displayed(s)'
    <3>1. CASE s = e.id
      BY <1>1, <1>3, <1>4, <2>1, <2>2, <2>3, <3>1 DEF Seen, Sent, Displayed
    <3>2. CASE s # e.id
      BY <1>1, <1>3, <2>1, <2>2, <2>3, <3>2 DEF Seen, Displayed
    <3> QED BY <3>1, <3>2
  <2>7. Fetched(s)'
    BY <1>1, <1>3, <2>1, <2>2, <2>4 DEF Seen, Fetched
  <2>8. ASSUME NEW t \in Threads, Busy(t, s)'
        PROVE  Claims(t, s)'
    <3>1. Busy(t, s) /\ Claims(t, s) /\ Told(t)' = Told(t)
      BY <1>1, <2>1, <2>8 DEF Busy, Seen, Told
    <3> QED BY <1>1, <1>3, <1>4, <2>3, <3>1 DEF Claims
  <2>9. \A r \in Reporters : Reports(r, s)' => Asserts(r, s)'
    BY <1>1, <2>1 DEF Seen, Reports, Asserts
  <2> QED BY <2>5, <2>6, <2>7, <2>8, <2>9 DEF Seen
<1> QED BY <1>1, <1>5 DEF PInv

(* What the page asks for itself is done, whatever the host's name.        *)
LEMMA RouteOfClick ==
    ASSUME RegistryAssumption, NEW op \in {"add", "remove", "connect"}, NEW id \in Stations
    PROVE  Route(Request(op, id)) = op
<1>1. id # NoStation
  BY DEF RegistryAssumption
<1>2. CASE op \in {"add", "remove"}
  BY <1>1, <1>2 DEF Route, Request, IsMethod
<1>3. CASE op = "connect"
  <2> DEFINE r == Request(op, id)
             First(k) == Has(r, Words[k]) /\ \A j \in 1..(k - 1) : ~Has(r, Words[j])
  <2>1. r = [method |-> "POST", id |-> id, word |-> "connect"]
    BY <1>3 DEF Request
  <2>2. Has(r, "connect") /\ ~Has(r, "disconnect")
    BY <2>1 DEF Has, RegistryAssumption
  <2>3. /\ DOMAIN Words = 1..6
        /\ Words[1] = "disconnect" /\ Words[2] = "connect"
    BY DEF Words
  <2>4. First(2) /\ 2 \in DOMAIN Words
    BY <2>2, <2>3
  <2>5. \A k \in DOMAIN Words : First(k) => k = 2
    BY <2>2, <2>3
  <2>6. (CHOOSE k \in DOMAIN Words : First(k)) = 2
    BY <2>4, <2>5
  <2>7. Route(r) = Words[CHOOSE k \in DOMAIN Words : First(k)]
    BY <1>1, <2>1 DEF Route, IsMethod
  <2> QED BY <1>3, <2>3, <2>6, <2>7
<1> QED BY <1>2, <1>3

LEMMA HandleClientSeen ==
    ASSUME RegistryAssumption, IInv, FInv, PInv, NEW t \in Threads, NEW op \in Ops,
           NEW id \in Stations, NEW whole \in BOOLEAN, NEW own \in BOOLEAN,
           HandleClient(t, op, id, whole, own)
    PROVE  PInv'
<1> DEFINE done == Route(Request(op, id))
           s0 == Target(done, id, whole)
<1>1. /\ pc[t] = "idle" /\ pc'[t] = Entry(done)
      /\ doing'[t] = [op |-> done, id |-> s0, own |-> own /\ s0 = id]
      /\ \A u \in Threads \ {t} : pc'[u] = pc[u] /\ doing'[u] = doing[u]
      /\ UNCHANGED <<report, g_stations, response, transit>>
      /\ stations' = IF own THEN Clicked(op, id) ELSE stations
      /\ loading' = IF done = "list" THEN "asked" ELSE loading
  BY DEF HandleClient, IInv, Shapes, shared
<1>2. /\ muddled' = muddled \cup {x \in {s0} \cap Stations : Active(x) # {} \/ Again(done, x)}
      /\ missed' = missed \cup {x \in {id} : own /\ op = "add" /\ Premature(x, s0)}
  BY DEF HandleClient
<1>3. /\ done = "list" => s0 \notin Stations
      /\ own => op \in {"add", "remove", "connect"} /\ done = op
    <2>1. own => op \in {"add", "remove", "connect"}
      BY DEF HandleClient, MayClick
    <2> QED BY <2>1, RouteOfClick DEF Target, RegistryAssumption
<1>4. s0 # id /\ own => op = "add"
  BY <1>3 DEF Target
<1>5. stations \in Lists /\ "connecting" \in Status
  BY DEF IInv, TypeOK, Status
<1> HIDE DEF done, s0
<1>6. /\ Entry(done) \in {"snapshot", "store", "erase", "hangUp", "lookUp", "send"}
      /\ Entry(done) = "store" <=> done = "add"
      /\ done = "connect" => Entry(done) = "lookUp"
  BY DEF Entry
<1>7. doing'[t].op = done /\ (doing'[t].own <=> own /\ s0 = id)
  <2> DEFINE b == own /\ s0 = id
  <2>1. doing'[t] = [op |-> done, id |-> s0, own |-> b] /\ b \in BOOLEAN
    BY <1>1
  <2> HIDE DEF b
  <2>2. doing'[t].op = done /\ doing'[t].own = b
    BY <2>1
  <2> QED BY <2>1, <2>2 DEF b
<1>8. ASSUME NEW s \in Stations \ (muddled' \cup missed')
      PROVE  Seen(s)'
  <2>1. Seen(s) /\ Follows(s)
    BY <1>2, <1>8 DEF PInv, FInv
  <2>2. /\ InTransit(s)' <=> InTransit(s)
        /\ \A status : Latest(s, status) => Latest(s, status)'
    BY <1>1, SameTransit
  <2>3. s # id => /\ s \in DOMAIN stations' <=> s \in DOMAIN stations
                  /\ s \in DOMAIN stations => stations'[s] = stations[s]
    BY <1>1, <1>5, ListValues DEF Clicked
  <2>4. loading' = "taken" => loading = "taken"
    BY <1>1
  <2>5. SameEntry(s)
    BY <1>1 DEF SameEntry
  <2>6. CASE s # s0
    <3>1. s = id => ~own
      BY <1>2, <1>4, <1>8, <2>6 DEF Premature
    <3>2. SamePage(s)
      BY <1>1, <2>2, <2>3, <2>4, <3>1 DEF SamePage
    <3>3. SameActors(s)
      BY <1>1, <2>6 DEF SameActors, Busy, Reports
    <3> QED BY <2>1, <2>5, <3>2, <3>3, SeenElsewhere
  <2>7. CASE s = s0
    <3>1. Active(s) = {} /\ ~Again(done, s)
      BY <1>2, <1>8, <2>7
    <3>2. /\ \A u \in Threads : ~Busy(u, s)
          /\ \A r \in Reporters : ~Reports(r, s)
      BY <3>1 DEF Active, Busy, Reports
    <3>3. /\ \A u \in Threads \ {t} : ~Busy(u, s)'
          /\ \A r \in Reporters : ~Reports(r, s)'
          /\ Busy(t, s)'
      BY <1>1, <1>6, <2>7, <3>2 DEF Busy, Reports
    <3>4. ~Unsent(s)
      BY <3>2 DEF Unsent
    <3>5. done # "list" /\ loading' = loading
      BY <1>1, <1>3, <2>7
    <3>6. CASE ~(own /\ s = id)
      <4>1. SamePage(s)
        BY <1>1, <2>2, <2>3, <2>4, <3>6 DEF SamePage
      <4>2. Sent(s)' /\ Displayed(s)' /\ Fetched(s)'
        BY <2>1, <2>5, <3>4, <4>1, StillSeen DEF SameEntry
      <4>3. pc'[t] # "announce" /\ ~doing'[t].own
        BY <1>1, <1>6, <1>7, <2>7, <3>6
      <4>4. Claims(t, s)'
        BY <4>3 DEF Claims
      <4> QED BY <3>3, <4>2, <4>4 DEF Seen
    <3>7. CASE own /\ s = id /\ op = "add"
      <4>1. /\ s \notin DOMAIN g_stations
            /\ s \notin DOMAIN stations /\ ~InTransit(s) /\ loading # "taken"
        BY <1>2, <1>3, <1>8, <3>1, <3>7 DEF Again, Premature
      <4>2. s \in DOMAIN stations' => stations'[s] = "connecting"
        BY <1>1, <1>5, <3>7, <4>1, ListValues DEF Clicked
      <4>3. Sent(s)' /\ Displayed(s)' /\ Fetched(s)'
        BY <1>1, <4>1 DEF Sent, Displayed, Fetched
      <4>4. Claims(t, s)'
        BY <1>1, <1>6, <2>2, <3>5, <4>1, <4>2 DEF Claims
      <4> QED BY <3>3, <4>3, <4>4 DEF Seen
    <3>8. CASE own /\ s = id /\ op = "remove"
      <4>1. s \notin DOMAIN stations'
        BY <1>1, <1>5, <3>8, ListValues DEF Clicked
      <4>2. Sent(s)' /\ Displayed(s)' /\ Fetched(s)'
        BY <1>1, <2>1, <2>2, <3>4, <3>5, <4>1, NothingUnsent DEF Sent, Displayed, Fetched
      <4>3. Claims(t, s)'
        BY <1>1, <1>3, <1>6, <3>8 DEF Claims
      <4> QED BY <3>3, <4>2, <4>3 DEF Seen
    <3>9. CASE own /\ s = id /\ op = "connect"
      <4>1. Unsent(s)'
        <5>1. pc'[t] = "lookUp" /\ doing'[t].op = "connect" /\ doing'[t].own
          BY <1>1, <1>3, <1>6, <1>7, <2>7, <3>9
        <5> QED BY <3>3, <5>1 DEF Unsent, Tells
      <4>2. Sent(s)' /\ Displayed(s)' /\ Fetched(s)'
        BY <4>1 DEF Sent, Displayed, Fetched
      <4>3. Claims(t, s)'
        BY <1>1, <1>3, <1>6, <3>9 DEF Claims
      <4> QED BY <3>3, <4>2, <4>3 DEF Seen
    <3> QED BY <1>3, <3>6, <3>7, <3>8, <3>9
  <2> QED BY <2>6, <2>7
<1> QED BY <1>8 DEF PInv
-----------------------------------------------------------------------------
LEMMA NextSeen == ASSUME RegistryAssumption, IInv, FInv, PInv, [Next]_vars PROVE PInv'
<1>1. CASE UNCHANGED vars
  <2>1. /\ UNCHANGED <<pc, doing, report, g_stations, page, transit, muddled, missed>>
    BY <1>1 DEF vars, shared, threads, histories
  <2>2. ASSUME NEW s \in Stations, Seen(s)
        PROVE  Seen(s)'
    <3>1. SameActors(s) /\ SameEntry(s) /\ SamePage(s)
      BY <2>1, PageUntouched DEF SameActors, SameEntry, Busy, Reports
    <3> QED BY <2>2, <3>1, SeenElsewhere
  <2> QED BY <2>1, <2>2 DEF PInv
<1>2. ASSUME NEW t \in Threads, ThreadStep(t) PROVE PInv'
  BY <1>2, QuietSeen, SnapshotSeen, StoreSeen, LookUpSeen, TellSeen, AnnounceSeen
  DEF ThreadStep
<1>3. ASSUME NEW r \in Reporters, ReporterStep(r) PROVE PInv'
  BY <1>3, WriteSeen, ReportStatusSeen, ReportEventSeen DEF ReporterStep
<1> QED BY <1>1, <1>2, <1>3, HandleClientSeen, FindSeen, ListenSeen, LoadStationsSeen,
           OnConnectionSeen DEF Next

LEMMA InitSeen == ASSUME RegistryAssumption, Init PROVE PInv
<1>1. /\ \A t \in Threads, s \in Stations : ~Busy(t, s)
      /\ \A r \in Reporters, s \in Stations : ~Reports(r, s)
  BY DEF Init, NoReport, Busy, Reports
<1>2. \A s \in Stations : Sent(s) /\ Displayed(s) /\ Fetched(s)
  BY EmptyList DEF Init, Sent, Displayed, Fetched
<1> QED BY <1>1, <1>2 DEF PInv, Seen

(* A page that missed no news of a station shows the status g_stations has *)
(* for it, whenever nobody is at work on the station and no event about it *)
(* is on its way: in whatever order the events, the list it asked for and  *)
(* its user's requests met (loadStations and the handlers of index.html,   *)
(* the API handler and the connection callback of main.cpp).               *)
THEOREM ThePageFollows == Spec => []PageFollows
<1>1. Init => FInv /\ PInv
  BY InitFollows, InitSeen, RegistryAssumption
<1>2. IInv /\ FInv /\ PInv /\ [Next]_vars => (FInv /\ PInv)'
  BY NextFollows, NextSeen, RegistryAssumption
<1>3. IInv /\ PInv => PageFollows
  <2>1. ASSUME PInv, NEW s \in Stations \ (muddled \cup missed), Active(s) = {},
               ~InTransit(s), s \in DOMAIN g_stations, s \in DOMAIN stations
        PROVE  stations[s] = g_stations[s]
    BY <2>1, NothingUnsent DEF PInv, Unsent, Active, Busy, Reports
  <2>2. IInv => DOMAIN g_stations \subseteq Stations
    BY DEF IInv, TypeOK, Lists
  <2> QED BY <2>1, <2>2 DEF PageFollows
<1> QED BY <1>1, <1>2, <1>3, Invariance, PTL DEF Spec
=============================================================================
