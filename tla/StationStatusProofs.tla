------------------------- MODULE StationStatusProofs -------------------------
(***************************************************************************)
(* The application's list follows the status the manager keeps.            *)
(*                                                                         *)
(* StatusFollows is not inductive: from the moment the manager's map has a *)
(* new status until the callback has written it to the list the two        *)
(* differ.  The invariant names the actor who owes the list that status,   *)
(* and says that no other actor is busy with the station.                  *)
(***************************************************************************)
EXTENDS StationRegistryProofs

Busy(t, s) == pc[t] # "idle" /\ doing[t].id = s
Reports(r, s) == report[r].at # "idle" /\ report[r].id = s

(* The status is in the map and not yet in the list.                       *)
Owes(t) == pc[t] = "tell" \/ (pc[t] = "destroy" /\ doing[t].op = "disconnect")

Alone(s) ==
    /\ \A t, u \in Threads : Busy(t, s) /\ Busy(u, s) => t = u
    /\ \A q, r \in Reporters : Reports(q, s) /\ Reports(r, s) => q = r
    /\ \A t \in Threads, r \in Reporters : ~(Busy(t, s) /\ Reports(r, s))

(* What a thread at its place may rely on.                                 *)
Relies(t, s) ==
    /\ pc[t] = "store" => s \notin DOMAIN g_stations /\ s \notin DOMAIN connections
    /\ pc[t] = "register" => s \in DOMAIN g_stations /\ g_stations[s] = "connecting"
                              /\ s \notin DOMAIN connections
    /\ Owes(t) /\ s \in DOMAIN connections => connections[s] = Told(t)
Relays(r, s) ==
    report[r].at = "tell" /\ s \in DOMAIN connections
        => connections[s] = report[r].status

Equal(s) ==
    s \in DOMAIN g_stations /\ s \in DOMAIN connections
        => g_stations[s] = connections[s]
Owed(s) ==
    \/ \E t \in Threads : Busy(t, s) /\ Owes(t)
    \/ \E r \in Reporters : Reports(r, s) /\ report[r].at = "tell"

Follows(s) ==
    /\ Alone(s)
    /\ \A t \in Threads : Busy(t, s) => Relies(t, s)
    /\ \A r \in Reporters : Reports(r, s) => Relays(r, s)
    /\ Equal(s) \/ Owed(s)

FInv ==
    /\ crossed \subseteq muddled
    /\ \A s \in Stations \ muddled : Follows(s)
-----------------------------------------------------------------------------
(* Both maps hold of s what they held.                                     *)
Same(s) ==
    /\ s \in DOMAIN g_stations' <=> s \in DOMAIN g_stations
    /\ s \in DOMAIN g_stations => g_stations'[s] = g_stations[s]
    /\ s \in DOMAIN connections' <=> s \in DOMAIN connections
    /\ s \in DOMAIN connections => connections'[s] = connections[s]

(* One thread, or one reporter, moved.                                     *)
OnlyThread(t) ==
    /\ report' = report
    /\ pc'[t] = "idle" \/ doing'[t] = doing[t]
    /\ \A u \in Threads \ {t} : pc'[u] = pc[u] /\ doing'[u] = doing[u]
OnlyReporter(r) ==
    /\ pc' = pc /\ doing' = doing
    /\ report'[r].at = "idle" \/ report'[r].id = report[r].id
    /\ \A q \in Reporters \ {r} : report'[q] = report[q]

LEMMA ListValues ==
    ASSUME NEW f \in Lists, NEW s \in Stations, NEW x \in Stations, NEW status \in Status
    PROVE  /\ x # s => (x \in DOMAIN With(f, s, status) <=> x \in DOMAIN f)
           /\ x # s => (x \in DOMAIN Without(f, s) <=> x \in DOMAIN f)
           /\ x # s => (x \in DOMAIN Update(f, s, status) <=> x \in DOMAIN f)
           /\ x # s /\ x \in DOMAIN f => /\ With(f, s, status)[x] = f[x]
                                         /\ Without(f, s)[x] = f[x]
                                         /\ Update(f, s, status)[x] = f[x]
           /\ s \in DOMAIN With(f, s, status) /\ With(f, s, status)[s] = status
           /\ s \notin DOMAIN Without(f, s)
           /\ s \in DOMAIN Update(f, s, status) <=> s \in DOMAIN f
           /\ s \in DOMAIN f => Update(f, s, status)[s] = status
BY ListOps DEF With, Without, Update

(* What one of them does about another station leaves this one alone.      *)
LEMMA ThreadElsewhere ==
    ASSUME NEW t \in Threads, NEW s \in Stations, OnlyThread(t),
           ~Busy(t, s), Same(s), Follows(s), pc[t] # "idle"
    PROVE  Follows(s)'
<1>1. \A u \in Threads : /\ Busy(u, s)' <=> Busy(u, s)
                         /\ Busy(u, s) => /\ Owes(u)' <=> Owes(u)
                                          /\ Told(u)' = Told(u)
                                          /\ pc'[u] = pc[u]
  BY DEF Busy, Owes, Told, OnlyThread
<1>2. \A r \in Reporters : /\ Reports(r, s)' <=> Reports(r, s)
                           /\ report'[r] = report[r]
  BY DEF Reports, OnlyThread
<1>3. Alone(s)'
  BY <1>1, <1>2 DEF Alone, Follows
<1>4. \A u \in Threads : Busy(u, s)' => Relies(u, s)'
  BY <1>1 DEF Follows, Relies, Same
<1>5. \A r \in Reporters : Reports(r, s)' => Relays(r, s)'
  BY <1>2 DEF Follows, Relays, Same
<1>6. Equal(s)' \/ Owed(s)'
  BY <1>1, <1>2 DEF Follows, Equal, Owed, Same
<1> QED BY <1>3, <1>4, <1>5, <1>6 DEF Follows

LEMMA ReporterElsewhere ==
    ASSUME NEW r \in Reporters, NEW s \in Stations, OnlyReporter(r),
           ~Reports(r, s), Same(s), Follows(s), report[r].at # "idle"
    PROVE  Follows(s)'
<1>1. \A u \in Threads : /\ Busy(u, s)' <=> Busy(u, s)
                         /\ Owes(u)' <=> Owes(u)
                         /\ Told(u)' = Told(u)
                         /\ pc'[u] = pc[u]
  BY DEF Busy, Owes, Told, OnlyReporter
<1>2. \A q \in Reporters : /\ Reports(q, s)' <=> Reports(q, s)
                           /\ Reports(q, s) => report'[q] = report[q]
  BY DEF Reports, OnlyReporter
<1>3. Alone(s)'
  BY <1>1, <1>2 DEF Alone, Follows
<1>4. \A u \in Threads : Busy(u, s)' => Relies(u, s)'
  BY <1>1 DEF Follows, Relies, Same
<1>5. \A q \in Reporters : Reports(q, s)' => Relays(q, s)'
  BY <1>2 DEF Follows, Relays, Same
<1>6. Equal(s)' \/ Owed(s)'
  BY <1>1, <1>2 DEF Follows, Equal, Owed, Same
<1> QED BY <1>3, <1>4, <1>5, <1>6 DEF Follows

(* What the one actor of a station does about it needs to be right for it. *)
LEMMA ThreadHere ==
    ASSUME NEW t \in Threads, NEW s \in Stations, OnlyThread(t), Busy(t, s), Follows(s),
           Relies(t, s)', Equal(s)' \/ (Busy(t, s) /\ Owes(t))'
    PROVE  Follows(s)'
<1>1. \A u \in Threads \ {t} : ~Busy(u, s)'
  BY DEF Busy, Follows, Alone, OnlyThread
<1>2. \A r \in Reporters : ~Reports(r, s)'
  BY DEF Reports, Follows, Alone, OnlyThread
<1> QED BY <1>1, <1>2 DEF Follows, Alone, Owed

LEMMA ReporterHere ==
    ASSUME NEW r \in Reporters, NEW s \in Stations, OnlyReporter(r), Reports(r, s), Follows(s),
           Relays(r, s)', Equal(s)' \/ (Reports(r, s) /\ report[r].at = "tell")'
    PROVE  Follows(s)'
<1>1. \A q \in Reporters \ {r} : ~Reports(q, s)'
  BY DEF Reports, Follows, Alone, OnlyReporter
<1>2. \A t \in Threads : ~Busy(t, s)'
  BY DEF Busy, Reports, Follows, Alone, OnlyReporter
<1> QED BY <1>1, <1>2 DEF Follows, Alone, Owed

(* Nobody touches anything of it.                                          *)
LEMMA NothingMoves ==
    ASSUME NEW s \in Stations, Follows(s), UNCHANGED <<pc, doing, report, g_stations, connections>>
    PROVE  Follows(s)'
BY DEF Follows, Alone, Relies, Relays, Equal, Owed, Busy, Reports, Owes, Told
-----------------------------------------------------------------------------
(* One lemma per action.  s0 is the station the action is about.           *)
LEMMA HandleClientFollows ==
    ASSUME RegistryAssumption, IInv, FInv, NEW t \in Threads, NEW op \in Ops,
           NEW id \in Stations, NEW whole \in BOOLEAN, NEW own \in BOOLEAN,
           HandleClient(t, op, id, whole, own)
    PROVE  FInv'
<1> DEFINE done == Route(Request(op, id))
           s0 == Target(done, id, whole)
<1>1. /\ pc[t] = "idle" /\ pc'[t] = Entry(done)
      /\ doing'[t] = [op |-> done, id |-> s0, own |-> own /\ s0 = id]
      /\ \A u \in Threads \ {t} : pc'[u] = pc[u] /\ doing'[u] = doing[u]
      /\ UNCHANGED <<report, g_stations, connections>>
  BY DEF HandleClient, IInv, Shapes, shared
<1>2. /\ crossed' = crossed \cup {x \in {s0} : Opposite(done, x)}
      /\ muddled' = muddled \cup {x \in {s0} \cap Stations : Active(x) # {} \/ Again(done, x)}
  BY DEF HandleClient
<1>3. done # "list" => s0 \in Stations
  BY DEF Target, RegistryAssumption
<1> HIDE DEF done, s0
<1>4. Entry(done) \in {"snapshot", "store", "erase", "hangUp", "lookUp", "send"}
      /\ (Entry(done) = "store" <=> done = "add")
  BY DEF Entry
<1>5. crossed' \subseteq muddled'
  <2>1. Opposite(done, s0) => s0 \in Stations /\ Active(s0) # {}
    BY <1>3 DEF Opposite, Active
  <2> QED BY <1>2, <2>1 DEF FInv
<1>6. ASSUME NEW s \in Stations \ muddled'
      PROVE  Follows(s)'
  <2>1. Follows(s)
    BY <1>2, <1>6 DEF FInv
  <2>2. \A r \in Reporters : /\ Reports(r, s)' <=> Reports(r, s)
                             /\ Relays(r, s) => Relays(r, s)'
    BY <1>1 DEF Reports, Relays
  <2>3. ~Owes(t) /\ ~Owes(t)' /\ ~Busy(t, s)
    BY <1>1, <1>4 DEF Owes, Busy
  <2>4. ASSUME Busy(t, s)'
        PROVE  /\ Equal(s) /\ (pc'[t] = "store" => s \notin DOMAIN g_stations
                                              /\ s \notin DOMAIN connections)
               /\ \A u \in Threads : ~Busy(u, s)
               /\ \A r \in Reporters : ~Reports(r, s)
    <3>1. s = s0 /\ Active(s) = {} /\ ~Again(done, s)
      BY <1>1, <1>2, <1>6, <2>4 DEF Busy
    <3>2. /\ \A u \in Threads : ~Busy(u, s)
          /\ \A r \in Reporters : ~Reports(r, s)
      BY <3>1 DEF Active, Busy, Reports
    <3>3. Equal(s)
      BY <2>1, <3>2 DEF Follows, Owed
    <3>4. s \notin crossed
      BY <1>6, <1>5, <1>2
    <3>5. s \in DOMAIN connections => s \in DOMAIN g_stations
      <4>1. ~At("forget", s)
        BY <3>2 DEF At, Busy
      <4> QED BY <3>4, <4>1 DEF IInv, Halves, HalvesOf
    <3> QED BY <1>1, <1>4, <3>1, <3>2, <3>3, <3>5 DEF Again
  <2>5. CASE Busy(t, s)'
    <3>1. /\ \A u \in Threads \ {t} : ~Busy(u, s)'
          /\ \A r \in Reporters : ~Reports(r, s)'
      BY <1>1, <2>4, <2>5 DEF Busy, Reports
    <3>2. Equal(s)' /\ Relies(t, s)'
      BY <1>1, <1>4, <2>3, <2>4, <2>5 DEF Equal, Relies
    <3> QED BY <3>1, <3>2 DEF Follows, Alone
  <2>6. CASE ~Busy(t, s)'
    <3>1. /\ \A u \in Threads : Busy(u, s)' <=> Busy(u, s)
          /\ \A u \in Threads : Busy(u, s) => (Owes(u)' <=> Owes(u))
      BY <1>1, <2>3, <2>6 DEF Busy, Owes
    <3>2. \A u \in Threads : Busy(u, s) /\ Relies(u, s) => Relies(u, s)'
      BY <1>1, <2>3, <2>6 DEF Busy, Relies, Owes, Told
    <3>3. Alone(s)'
      BY <2>1, <2>2, <3>1 DEF Follows, Alone
    <3>4. /\ \A u \in Threads : Busy(u, s)' => Relies(u, s)'
          /\ \A r \in Reporters : Reports(r, s)' => Relays(r, s)'
      BY <2>1, <2>2, <3>1, <3>2 DEF Follows
    <3>5. Equal(s)' \/ Owed(s)'
      BY <1>1, <2>1, <2>2, <3>1 DEF Follows, Equal, Owed
    <3> QED BY <3>3, <3>4, <3>5 DEF Follows
  <2> QED BY <2>5, <2>6
<1> QED BY <1>5, <1>6 DEF FInv

(* The list of a request, and a command, touch neither map.                *)
LEMMA ReadingFollows ==
    ASSUME RegistryAssumption, IInv, FInv, NEW t \in Threads,
           Snapshot(t) \/ SendCommand(t) \/ Announce(t)
    PROVE  FInv'
<1>1. /\ OnlyThread(t) /\ pc'[t] = "idle" /\ pc[t] \in {"snapshot", "send", "announce"}
      /\ UNCHANGED <<g_stations, connections, crossed, muddled>>
  BY DonePlaces DEF IInv, Here, OnlyThread, Snapshot, SendCommand, Announce, SendEvent,
                    shared, histories
<1>2. ASSUME NEW s \in Stations \ muddled
      PROVE  Follows(s)'
  <2>1. Follows(s) /\ Same(s)
    BY <1>1, <1>2 DEF FInv, Same
  <2>2. CASE ~Busy(t, s)
    BY <1>1, <2>1, <2>2, ThreadElsewhere
  <2>3. CASE Busy(t, s)
    <3>1. ~Owed(s)
      BY <1>1, <2>1, <2>3 DEF Follows, Alone, Owed, Owes
    <3>2. Equal(s)'
      BY <1>1, <2>1, <3>1 DEF Follows, Equal
    <3>3. Relies(t, s)'
      BY <1>1 DEF Relies, Owes
    <3> QED BY <1>1, <2>1, <2>3, <3>2, <3>3, ThreadHere
  <2> QED BY <2>2, <2>3
<1> QED BY <1>1, <1>2 DEF FInv

LEMMA StoreFollows ==
    ASSUME RegistryAssumption, IInv, FInv, NEW t \in Threads, Store(t)
    PROVE  FInv'
<1> DEFINE s0 == doing[t].id
<1>1. /\ OnlyThread(t) /\ pc'[t] = "register" /\ pc[t] = "store" /\ doing'[t] = doing[t]
      /\ UNCHANGED <<connections, crossed, muddled>>
      /\ g_stations' = With(g_stations, s0, "connecting")
  BY GotoPlaces DEF IInv, Here, OnlyThread, Store, page
<1>2. s0 \in Stations /\ g_stations \in Lists /\ "connecting" \in Status
  BY <1>1 DEF IInv, TypeOK, Labels, Status
<1> HIDE DEF s0
<1>3. ASSUME NEW s \in Stations \ muddled
      PROVE  Follows(s)'
  <2>1. Follows(s)
    BY <1>3 DEF FInv
  <2>2. CASE s # s0
    <3>1. Same(s) /\ ~Busy(t, s)
      BY <1>1, <1>2, <2>2, ListValues DEF Same, Busy, s0
    <3> QED BY <1>1, <2>1, <3>1, ThreadElsewhere
  <2>3. CASE s = s0
    <3>1. Busy(t, s) /\ Relies(t, s)
      BY <1>1, <2>1, <2>3 DEF Busy, s0, Follows
    <3>2. s \in DOMAIN g_stations' /\ g_stations'[s] = "connecting" /\ s \notin DOMAIN connections'
      BY <1>1, <1>2, <2>3, <3>1, ListValues DEF Relies
    <3>3. Relies(t, s)' /\ Equal(s)'
      BY <1>1, <3>2 DEF Relies, Equal, Owes
    <3> QED BY <1>1, <2>1, <3>1, <3>3, ThreadHere
  <2> QED BY <2>2, <2>3
<1> QED BY <1>1, <1>3 DEF FInv

LEMMA RegisterFollows ==
    ASSUME RegistryAssumption, IInv, FInv, NEW t \in Threads, Register(t)
    PROVE  FInv'
<1> DEFINE s0 == doing[t].id
<1>1. /\ OnlyThread(t) /\ pc'[t] = "idle" /\ pc[t] = "register"
      /\ UNCHANGED <<g_stations, crossed, muddled>>
      /\ connections' = IF s0 \in DOMAIN connections THEN connections
                        ELSE With(connections, s0, "connecting")
  BY DonePlaces DEF IInv, Here, OnlyThread, Register, histories
<1>2. s0 \in Stations /\ connections \in Lists /\ "connecting" \in Status
  BY <1>1 DEF IInv, TypeOK, Labels, Status
<1> HIDE DEF s0
<1>3. ASSUME NEW s \in Stations \ muddled
      PROVE  Follows(s)'
  <2>1. Follows(s)
    BY <1>3 DEF FInv
  <2>2. CASE s # s0
    <3>1. Same(s) /\ ~Busy(t, s)
      BY <1>1, <1>2, <2>2, ListValues DEF Same, Busy, s0
    <3> QED BY <1>1, <2>1, <3>1, ThreadElsewhere
  <2>3. CASE s = s0
    <3>1. Busy(t, s) /\ Relies(t, s)
      BY <1>1, <2>1, <2>3 DEF Busy, s0, Follows
    <3>2. g_stations'[s] = "connecting" /\ connections'[s] = "connecting"
      BY <1>1, <1>2, <2>3, <3>1, ListValues DEF Relies
    <3>3. Relies(t, s)' /\ Equal(s)'
      BY <1>1, <3>2 DEF Relies, Equal, Owes
    <3> QED BY <1>1, <2>1, <3>1, <3>3, ThreadHere
  <2> QED BY <2>2, <2>3
<1> QED BY <1>1, <1>3 DEF FInv

LEMMA EraseFollows ==
    ASSUME RegistryAssumption, IInv, FInv, NEW t \in Threads, Erase(t)
    PROVE  FInv'
<1> DEFINE s0 == doing[t].id
<1>1. /\ OnlyThread(t) /\ pc'[t] = "forget" /\ pc[t] = "erase" /\ doing'[t] = doing[t]
      /\ UNCHANGED <<connections, crossed, muddled>>
      /\ g_stations' = Without(g_stations, s0)
  BY GotoPlaces DEF IInv, Here, OnlyThread, Erase, histories
<1>2. s0 \in Stations /\ g_stations \in Lists /\ "error" \in Status
  BY <1>1 DEF IInv, TypeOK, Labels, Status
<1> HIDE DEF s0
<1>3. ASSUME NEW s \in Stations \ muddled
      PROVE  Follows(s)'
  <2>1. Follows(s)
    BY <1>3 DEF FInv
  <2>2. CASE s # s0
    <3>1. Same(s) /\ ~Busy(t, s)
      BY <1>1, <1>2, <2>2, ListValues DEF Same, Busy, s0
    <3> QED BY <1>1, <2>1, <3>1, ThreadElsewhere
  <2>3. CASE s = s0
    <3>1. Busy(t, s)
      BY <1>1, <2>3 DEF Busy, s0
    <3>2. s \notin DOMAIN g_stations'
      BY <1>1, <1>2, <2>3, ListValues
    <3>3. Relies(t, s)' /\ Equal(s)'
      BY <1>1, <3>2 DEF Relies, Equal, Owes
    <3> QED BY <1>1, <2>1, <3>1, <3>3, ThreadHere
  <2> QED BY <2>2, <2>3
<1> QED BY <1>1, <1>3 DEF FInv

LEMMA ForgetFollows ==
    ASSUME RegistryAssumption, IInv, FInv, NEW t \in Threads, Forget(t)
    PROVE  FInv'
<1> DEFINE s0 == doing[t].id
<1>1. /\ OnlyThread(t) /\ pc[t] = "forget"
      /\ pc'[t] = "idle" \/ (pc'[t] = "destroy" /\ doing'[t] = doing[t])
      /\ UNCHANGED <<g_stations, crossed, muddled>>
      /\ connections' = Without(connections, s0)
  BY GotoPlaces, DonePlaces DEF IInv, Here, OnlyThread, Forget, histories
<1>2. s0 \in Stations /\ connections \in Lists /\ "error" \in Status
  BY <1>1 DEF IInv, TypeOK, Labels, Status
<1> HIDE DEF s0
<1>3. ASSUME NEW s \in Stations \ muddled
      PROVE  Follows(s)'
  <2>1. Follows(s)
    BY <1>3 DEF FInv
  <2>2. CASE s # s0
    <3>1. Same(s) /\ ~Busy(t, s)
      BY <1>1, <1>2, <2>2, ListValues DEF Same, Busy, s0
    <3> QED BY <1>1, <2>1, <3>1, ThreadElsewhere
  <2>3. CASE s = s0
    <3>1. Busy(t, s) /\ doing[t].op = "remove"
      BY <1>1, <2>3 DEF Busy, s0, IInv, Labels
    <3>2. s \notin DOMAIN connections'
      BY <1>1, <1>2, <2>3, ListValues
    <3>3. Relies(t, s)' /\ Equal(s)'
      BY <1>1, <3>1, <3>2 DEF Relies, Equal, Owes
    <3> QED BY <1>1, <2>1, <3>1, <3>3, ThreadHere
  <2> QED BY <2>2, <2>3
<1> QED BY <1>1, <1>3 DEF FInv

LEMMA HangUpFollows ==
    ASSUME RegistryAssumption, IInv, FInv, NEW t \in Threads, HangUp(t)
    PROVE  FInv'
<1> DEFINE s0 == doing[t].id
<1>1. /\ OnlyThread(t) /\ pc[t] = "hangUp"
      /\ \/ s0 \notin DOMAIN connections /\ pc'[t] = "idle"
         \/ pc'[t] = "destroy" /\ doing'[t] = doing[t]
      /\ UNCHANGED <<g_stations, crossed, muddled>>
      /\ connections' = Update(connections, s0, "disconnected")
  BY GotoPlaces, DonePlaces DEF IInv, Here, OnlyThread, HangUp, histories
<1>2. s0 \in Stations /\ connections \in Lists /\ "disconnected" \in Status
  BY <1>1 DEF IInv, TypeOK, Labels, Status
<1> HIDE DEF s0
<1>3. ASSUME NEW s \in Stations \ muddled
      PROVE  Follows(s)'
  <2>1. Follows(s)
    BY <1>3 DEF FInv
  <2>2. CASE s # s0
    <3>1. Same(s) /\ ~Busy(t, s)
      BY <1>1, <1>2, <2>2, ListValues DEF Same, Busy, s0
    <3> QED BY <1>1, <2>1, <3>1, ThreadElsewhere
  <2>3. CASE s = s0
    <3>1. Busy(t, s) /\ doing[t].op = "disconnect"
      BY <1>1, <2>3 DEF Busy, s0, IInv, Labels
    <3>2. /\ s \in DOMAIN connections' <=> s \in DOMAIN connections
          /\ s \in DOMAIN connections => connections'[s] = "disconnected"
      BY <1>1, <1>2, <2>3, ListValues
    <3>3. Relies(t, s)'
      BY <1>1, <3>1, <3>2 DEF Relies, Owes, Told
    <3>4. Equal(s)' \/ (Busy(t, s) /\ Owes(t))'
      BY <1>1, <2>3, <3>1, <3>2 DEF Equal, Busy, Owes
    <3> QED BY <1>1, <2>1, <3>1, <3>3, <3>4, ThreadHere
  <2> QED BY <2>2, <2>3
<1> QED BY <1>1, <1>3 DEF FInv

LEMMA DestroyFollows ==
    ASSUME RegistryAssumption, IInv, FInv, NEW t \in Threads, Destroy(t)
    PROVE  FInv'
<1>1. /\ OnlyThread(t) /\ pc[t] = "destroy"
      /\ \/ doing[t].op = "remove" /\ pc'[t] = "idle"
         \/ doing[t].op = "disconnect" /\ pc'[t] = "tell" /\ doing'[t] = doing[t]
      /\ UNCHANGED <<g_stations, connections, crossed, muddled>>
  BY GotoPlaces, DonePlaces DEF IInv, Labels, Here, OnlyThread, Destroy, histories
<1>2. ASSUME NEW s \in Stations \ muddled
      PROVE  Follows(s)'
  <2>1. Follows(s) /\ Same(s)
    BY <1>1, <1>2 DEF FInv, Same
  <2>2. CASE ~Busy(t, s)
    BY <1>1, <2>1, <2>2, ThreadElsewhere
  <2>3. CASE Busy(t, s)
    <3>1. Relies(t, s)
      BY <2>1, <2>3 DEF Follows
    <3>2. Relies(t, s)'
      BY <1>1, <3>1 DEF Relies, Owes, Told
    <3>3. CASE doing[t].op = "remove"
      <4>1. ~Owed(s)
        BY <1>1, <2>1, <2>3, <3>3 DEF Follows, Alone, Owed, Owes
      <4>2. Equal(s)'
        BY <1>1, <2>1, <4>1 DEF Follows, Equal
      <4> QED BY <1>1, <2>1, <2>3, <3>2, <4>2, ThreadHere
    <3>4. CASE doing[t].op = "disconnect"
      <4>1. (Busy(t, s) /\ Owes(t))'
        BY <1>1, <2>3, <3>4 DEF Busy, Owes
      <4> QED BY <1>1, <2>1, <2>3, <3>2, <4>1, ThreadHere
    <3> QED BY <1>1, <3>3, <3>4
  <2> QED BY <2>2, <2>3
<1> QED BY <1>1, <1>2 DEF FInv

LEMMA LookUpFollows ==
    ASSUME RegistryAssumption, IInv, FInv, NEW t \in Threads, LookUp(t)
    PROVE  FInv'
<1> DEFINE s0 == doing[t].id
<1>1. /\ OnlyThread(t) /\ pc[t] = "lookUp"
      /\ \/ pc'[t] = "idle" /\ connections' = connections
         \/ /\ pc'[t] = "tell" /\ doing'[t] = doing[t] /\ s0 \in DOMAIN connections
            /\ connections' = With(connections, s0, "connecting")
      /\ UNCHANGED <<g_stations, crossed, muddled>>
  BY GotoPlaces, DonePlaces DEF IInv, Here, OnlyThread, LookUp
<1>2. s0 \in Stations /\ connections \in Lists /\ "connecting" \in Status
  BY <1>1 DEF IInv, TypeOK, Labels, Status
<1> HIDE DEF s0
<1>3. ASSUME NEW s \in Stations \ muddled
      PROVE  Follows(s)'
  <2>1. Follows(s)
    BY <1>3 DEF FInv
  <2>2. CASE s # s0
    <3>1. Same(s) /\ ~Busy(t, s)
      BY <1>1, <1>2, <2>2, ListValues DEF Same, Busy, s0
    <3> QED BY <1>1, <2>1, <3>1, ThreadElsewhere
  <2>3. CASE s = s0
    <3>1. Busy(t, s) /\ doing[t].op = "connect"
      BY <1>1, <2>3 DEF Busy, s0, IInv, Labels
    <3>2. CASE pc'[t] = "idle" /\ connections' = connections
      <4>1. ~Owed(s)
        BY <1>1, <2>1, <3>1 DEF Follows, Alone, Owed, Owes
      <4>2. Equal(s)' /\ Relies(t, s)'
        BY <1>1, <2>1, <3>2, <4>1 DEF Follows, Equal, Relies, Owes
      <4> QED BY <1>1, <2>1, <3>1, <4>2, ThreadHere
    <3>3. CASE /\ pc'[t] = "tell" /\ doing'[t] = doing[t]
               /\ connections' = With(connections, s0, "connecting")
      <4>1. connections'[s] = "connecting"
        BY <1>2, <2>3, <3>3, ListValues
      <4>2. Relies(t, s)' /\ (Busy(t, s) /\ Owes(t))'
        BY <3>1, <3>3, <4>1 DEF Relies, Owes, Told, Busy
      <4> QED BY <1>1, <2>1, <3>1, <4>2, ThreadHere
    <3> QED BY <1>1, <3>2, <3>3
  <2> QED BY <2>2, <2>3
<1> QED BY <1>1, <1>3 DEF FInv

LEMMA TellFollows ==
    ASSUME RegistryAssumption, IInv, FInv, NEW t \in Threads, Tell(t)
    PROVE  FInv'
<1> DEFINE s0 == doing[t].id
<1>1. /\ OnlyThread(t) /\ pc[t] = "tell" /\ pc'[t] = "announce" /\ doing'[t] = doing[t]
      /\ UNCHANGED <<connections, crossed, muddled>>
      /\ g_stations' = Update(g_stations, s0, Told(t))
  BY GotoPlaces DEF IInv, Here, OnlyThread, Tell, ListStatus, Found, histories
<1>2. s0 \in Stations /\ g_stations \in Lists /\ Told(t) \in Status
  BY <1>1 DEF IInv, TypeOK, Labels, Status, Told
<1> HIDE DEF s0
<1>3. ASSUME NEW s \in Stations \ muddled
      PROVE  Follows(s)'
  <2>1. Follows(s)
    BY <1>3 DEF FInv
  <2>2. CASE s # s0
    <3>1. Same(s) /\ ~Busy(t, s)
      BY <1>1, <1>2, <2>2, ListValues DEF Same, Busy, s0
    <3> QED BY <1>1, <2>1, <3>1, ThreadElsewhere
  <2>3. CASE s = s0
    <3>1. Busy(t, s) /\ Relies(t, s)
      BY <1>1, <2>1, <2>3 DEF Busy, s0, Follows
    <3>2. s \in DOMAIN connections => connections'[s] = Told(t)
      BY <1>1, <3>1 DEF Relies, Owes
    <3>3. /\ s \in DOMAIN g_stations' <=> s \in DOMAIN g_stations
          /\ s \in DOMAIN g_stations => g_stations'[s] = Told(t)
      BY <1>1, <1>2, <2>3, ListValues
    <3>4. Equal(s)' /\ Relies(t, s)'
      BY <1>1, <3>2, <3>3 DEF Equal, Relies, Owes
    <3> QED BY <1>1, <2>1, <3>1, <3>4, ThreadHere
  <2> QED BY <2>2, <2>3
<1> QED BY <1>1, <1>3 DEF FInv

LEMMA FindFollows ==
    ASSUME RegistryAssumption, IInv, FInv, NEW r \in Reporters, NEW s0 \in Stations,
           NEW status \in Status, NEW library \in BOOLEAN, Find(r, s0, status, library)
    PROVE  FInv'
<1>1. /\ UNCHANGED <<pc, doing, g_stations, connections, crossed>>
      /\ report[r].at = "idle" /\ report'[r].at = "write" /\ report'[r].id = s0
      /\ \A q \in Reporters \ {r} : report'[q] = report[q]
      /\ muddled' = muddled \cup (IF Active(s0) # {} THEN {s0} ELSE {})
  BY DEF Find, IInv, Shapes, shared, threads
<1>2. ASSUME NEW s \in Stations \ muddled'
      PROVE  Follows(s)'
  <2>1. Follows(s)
    BY <1>1, <1>2 DEF FInv
  <2>2. CASE s # s0
    <3>1. \A t \in Threads : /\ Busy(t, s)' <=> Busy(t, s)
                             /\ Owes(t)' <=> Owes(t)
                             /\ Relies(t, s) => Relies(t, s)'
      BY <1>1 DEF Busy, Owes, Told, Relies
    <3>2. \A q \in Reporters : /\ Reports(q, s)' <=> Reports(q, s)
                               /\ Reports(q, s) => report'[q] = report[q]
      BY <1>1, <2>2 DEF Reports
    <3>3. Alone(s)'
      BY <2>1, <3>1, <3>2 DEF Alone, Follows
    <3>4. /\ \A t \in Threads : Busy(t, s)' => Relies(t, s)'
          /\ \A q \in Reporters : Reports(q, s)' => Relays(q, s)'
      BY <1>1, <2>1, <3>1, <3>2 DEF Follows, Relays
    <3>5. Equal(s)' \/ Owed(s)'
      BY <1>1, <2>1, <3>1, <3>2 DEF Follows, Equal, Owed
    <3> QED BY <3>3, <3>4, <3>5 DEF Follows
  <2>3. CASE s = s0
    <3>1. Active(s) = {}
      BY <1>1, <1>2, <2>3
    <3>2. /\ \A t \in Threads : ~Busy(t, s)
          /\ \A q \in Reporters : ~Reports(q, s)
      BY <3>1 DEF Active, Busy, Reports
    <3>3. Equal(s)
      BY <2>1, <3>2 DEF Follows, Owed
    <3>4. /\ \A t \in Threads : ~Busy(t, s)'
          /\ \A q \in Reporters \ {r} : ~Reports(q, s)'
          /\ Equal(s)' /\ Relays(r, s)'
      BY <1>1, <3>2, <3>3 DEF Busy, Reports, Equal, Relays
    <3> QED BY <3>4 DEF Follows, Alone
  <2> QED BY <2>2, <2>3
<1> QED BY <1>1, <1>2 DEF FInv

LEMMA WriteFollows ==
    ASSUME RegistryAssumption, IInv, FInv, NEW r \in Reporters, Write(r)
    PROVE  FInv'
<1> DEFINE s0 == report[r].id
<1>1. /\ OnlyReporter(r) /\ UNCHANGED <<g_stations, crossed, muddled>>
      /\ report[r].at = "write" /\ report'[r].at = "tell" /\ report'[r].id = s0
      /\ report'[r].status = report[r].status
      /\ connections' = Update(connections, s0, report[r].status)
  <2>1. /\ report = [q \in Reporters |-> report[q]]
        /\ report' = [report EXCEPT ![r].at = "tell"] /\ report[r].at = "write"
        /\ UNCHANGED <<threads, g_stations, histories>>
        /\ connections' = Update(connections, s0, report[r].status)
    BY DEF Write, IInv, Shapes
  <2>2. /\ report'[r] = [report[r] EXCEPT !.at = "tell"]
        /\ \A q \in Reporters \ {r} : report'[q] = report[q]
    BY <2>1
  <2>3. report'[r].at = "tell" /\ report'[r].id = s0 /\ report'[r].status = report[r].status
    BY <2>2
  <2> QED BY <2>1, <2>2, <2>3 DEF OnlyReporter, threads, histories
<1>2. s0 \in Stations /\ connections \in Lists /\ report[r].status \in Status
  BY <1>1 DEF IInv, TypeOK, Shapes
<1> HIDE DEF s0
<1>3. ASSUME NEW s \in Stations \ muddled
      PROVE  Follows(s)'
  <2>1. Follows(s)
    BY <1>3 DEF FInv
  <2>2. CASE s # s0
    <3>1. Same(s) /\ ~Reports(r, s)
      BY <1>1, <1>2, <2>2, ListValues DEF Same, Reports, s0
    <3> QED BY <1>1, <2>1, <3>1, ReporterElsewhere
  <2>3. CASE s = s0
    <3>1. Reports(r, s)
      BY <1>1, <2>3 DEF Reports, s0
    <3>2. /\ s \in DOMAIN connections' <=> s \in DOMAIN connections
          /\ s \in DOMAIN connections => connections'[s] = report[r].status
      BY <1>1, <1>2, <2>3, ListValues
    <3>3. Relays(r, s)' /\ (Reports(r, s) /\ report[r].at = "tell")'
      BY <1>1, <2>3, <3>2 DEF Relays, Reports
    <3> QED BY <1>1, <2>1, <3>1, <3>3, ReporterHere
  <2> QED BY <2>2, <2>3
<1> QED BY <1>1, <1>3 DEF FInv

LEMMA ReportStatusFollows ==
    ASSUME RegistryAssumption, IInv, FInv, NEW r \in Reporters, ReportStatus(r)
    PROVE  FInv'
<1> DEFINE s0 == report[r].id
<1>1. /\ OnlyReporter(r) /\ UNCHANGED <<connections, crossed, muddled>>
      /\ report[r].at = "tell" /\ report'[r].at = "announce"
      /\ g_stations' = Update(g_stations, s0, report[r].status)
  <2>1. /\ report = [q \in Reporters |-> report[q]]
        /\ report' = [report EXCEPT ![r].at = "announce"] /\ report[r].at = "tell"
        /\ UNCHANGED <<threads, connections, histories>>
        /\ g_stations' = Update(g_stations, s0, report[r].status)
    BY DEF ReportStatus, ListStatus, Found, IInv, Shapes
  <2>2. /\ report'[r] = [report[r] EXCEPT !.at = "announce"]
        /\ \A q \in Reporters \ {r} : report'[q] = report[q]
    BY <2>1
  <2>3. report'[r].at = "announce" /\ report'[r].id = s0
    BY <2>2
  <2> QED BY <2>1, <2>2, <2>3 DEF OnlyReporter, threads, histories
<1>2. s0 \in Stations /\ g_stations \in Lists /\ report[r].status \in Status
  BY <1>1 DEF IInv, TypeOK, Shapes
<1> HIDE DEF s0
<1>3. ASSUME NEW s \in Stations \ muddled
      PROVE  Follows(s)'
  <2>1. Follows(s)
    BY <1>3 DEF FInv
  <2>2. CASE s # s0
    <3>1. Same(s) /\ ~Reports(r, s)
      BY <1>1, <1>2, <2>2, ListValues DEF Same, Reports, s0
    <3> QED BY <1>1, <2>1, <3>1, ReporterElsewhere
  <2>3. CASE s = s0
    <3>1. Reports(r, s)
      BY <1>1, <2>3 DEF Reports, s0
    <3>2. s \in DOMAIN connections => connections'[s] = report[r].status
      BY <1>1, <2>1, <3>1 DEF Follows, Relays
    <3>3. /\ s \in DOMAIN g_stations' <=> s \in DOMAIN g_stations
          /\ s \in DOMAIN g_stations => g_stations'[s] = report[r].status
      BY <1>1, <1>2, <2>3, ListValues
    <3>4. Relays(r, s)' /\ Equal(s)'
      BY <1>1, <3>2, <3>3 DEF Relays, Equal
    <3> QED BY <1>1, <2>1, <3>1, <3>4, ReporterHere
  <2> QED BY <2>2, <2>3
<1> QED BY <1>1, <1>3 DEF FInv

LEMMA ReportEventFollows ==
    ASSUME RegistryAssumption, IInv, FInv, NEW r \in Reporters, ReportEvent(r)
    PROVE  FInv'
<1>1. /\ OnlyReporter(r) /\ UNCHANGED <<g_stations, connections, crossed, muddled>>
      /\ report[r].at = "announce" /\ report'[r].at = "idle"
  BY DEF ReportEvent, NoReport, OnlyReporter, IInv, Shapes, shared, threads
<1>2. ASSUME NEW s \in Stations \ muddled
      PROVE  Follows(s)'
  <2>1. Follows(s) /\ Same(s)
    BY <1>1, <1>2 DEF FInv, Same
  <2>2. CASE ~Reports(r, s)
    BY <1>1, <2>1, <2>2, ReporterElsewhere
  <2>3. CASE Reports(r, s)
    <3>1. ~Owed(s)
      BY <1>1, <2>1, <2>3 DEF Follows, Alone, Owed
    <3>2. Relays(r, s)' /\ Equal(s)'
      BY <1>1, <2>1, <3>1 DEF Follows, Relays, Equal
    <3> QED BY <1>1, <2>1, <2>3, <3>2, ReporterHere
  <2> QED BY <2>2, <2>3
<1> QED BY <1>1, <1>2 DEF FInv

(* The page changes neither map.                                           *)
LEMMA PageFollowsOn ==
    ASSUME FInv, UNCHANGED <<pc, doing, report, g_stations, connections, crossed, muddled>>
    PROVE  FInv'
BY NothingMoves DEF FInv
-----------------------------------------------------------------------------
LEMMA NextFollows == ASSUME RegistryAssumption, IInv, FInv, [Next]_vars PROVE FInv'
<1>1. CASE UNCHANGED vars \/ Listen \/ LoadStations \/ OnConnection
  BY <1>1, PageFollowsOn DEF vars, Listen, LoadStations, OnConnection, shared, threads,
                             histories
<1>2. ASSUME NEW t \in Threads, ThreadStep(t) PROVE FInv'
  BY <1>2, ReadingFollows, StoreFollows, RegisterFollows, EraseFollows, ForgetFollows,
     HangUpFollows, DestroyFollows, LookUpFollows, TellFollows DEF ThreadStep
<1>3. ASSUME NEW r \in Reporters, ReporterStep(r) PROVE FInv'
  BY <1>3, WriteFollows, ReportStatusFollows, ReportEventFollows DEF ReporterStep
<1> QED BY <1>1, <1>2, <1>3, HandleClientFollows, FindFollows DEF Next

LEMMA InitFollows == ASSUME RegistryAssumption, Init PROVE FInv
<1>1. /\ \A t \in Threads, s \in Stations : ~Busy(t, s)
      /\ \A r \in Reporters, s \in Stations : ~Reports(r, s)
  BY DEF Init, NoReport, Busy, Reports
<1>2. \A s \in Stations : Equal(s)
  BY EmptyList DEF Init, Equal
<1> QED BY <1>1, <1>2 DEF Init, FInv, Follows, Alone

(* The status shown in g_stations is the one the manager keeps, whenever   *)
(* nobody is at work on the station, unless two actors were at work on it  *)
(* at once or it was added while present (onAddStation, the connection     *)
(* callback of main, disconnectStation, connectStation and the threads of  *)
(* the manager that report after they let go of its mutex).                *)
THEOREM TheListFollows == Spec => []StatusFollows
<1>1. Init => FInv
  BY InitFollows, RegistryAssumption
<1>2. IInv /\ FInv /\ [Next]_vars => FInv'
  BY NextFollows, RegistryAssumption
<1>3. IInv /\ FInv => StatusFollows
  <2>1. ASSUME FInv, NEW s \in Stations \ muddled, Active(s) = {}
        PROVE  Equal(s)
    BY <2>1 DEF FInv, Follows, Owed, Active, Busy, Reports
  <2>2. IInv => DOMAIN g_stations \subseteq Stations
    BY DEF IInv, TypeOK, Lists
  <2> QED BY <2>1, <2>2 DEF StatusFollows, Equal
<1> QED BY <1>1, <1>2, <1>3, Invariance, PTL DEF Spec
=============================================================================
