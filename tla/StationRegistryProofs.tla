------------------------ MODULE StationRegistryProofs ------------------------
(***************************************************************************)
(* The types, the holding of the mutexes, and that the application's list  *)
(* and the manager's map name the same stations, for every number of       *)
(* stations, threads, requests and reports.                                *)
(*                                                                         *)
(* MapsAgree is not inductive: between the two halves of an addition or a  *)
(* removal the maps differ.  Halves says who is between them, and that is  *)
(* enough because a thread at such a place knows what the list holds as    *)
(* long as no opposite request runs beside it (Apart).                     *)
(***************************************************************************)
EXTENDS StationRegistry, TLAPS

Report == [id : Stations, status : Status]

(* The variables that are functions are so; what is reported has its type. *)
Shapes ==
    /\ pc = [t \in Threads |-> pc[t]]
    /\ doing = [t \in Threads |-> doing[t]]
    /\ report = [r \in Reporters |-> report[r]]
    /\ transit \in Seq(Report)
    /\ \A r \in Reporters : report[r].at # "idle" =>
          report[r].id \in Stations /\ report[r].status \in Status

(* The place of a thread tells what it is doing.                           *)
Labels ==
    \A t \in Threads :
        /\ pc[t] \in {"store", "register"} => doing[t].op = "add"
        /\ pc[t] \in {"erase", "forget"} => doing[t].op = "remove"
        /\ pc[t] = "hangUp" => doing[t].op = "disconnect"
        /\ pc[t] = "lookUp" => doing[t].op = "connect"
        /\ pc[t] = "snapshot" => doing[t].op = "list"
        /\ pc[t] = "destroy" => doing[t].op \in {"remove", "disconnect"}
        /\ pc[t] \in {"tell", "announce"} => doing[t].op \in {"connect", "disconnect"}

(* Additions and removals of a station that is not in crossed run apart.   *)
Apart ==
    \A s \in Stations \ crossed, t, u \in Threads :
        /\ pc[t] # "idle" /\ doing[t].id = s /\ doing[t].op = "add"
        /\ pc[u] # "idle" /\ doing[u].id = s
        => doing[u].op # "remove"

(* Where the maps differ about a station, a thread is between its halves.  *)
At(label, s) == \E t \in Threads : pc[t] = label /\ doing[t].id = s
HalvesOf(s) ==
    /\ At("register", s) => s \in DOMAIN g_stations
    /\ At("forget", s) => s \notin DOMAIN g_stations
    /\ s \in DOMAIN g_stations => s \in DOMAIN connections \/ At("register", s)
    /\ s \in DOMAIN connections => s \in DOMAIN g_stations \/ At("forget", s)
Halves == \A s \in Stations \ crossed : HalvesOf(s)

IInv == TypeOK /\ Shapes /\ Labels /\ Apart /\ Halves
-----------------------------------------------------------------------------
(* Writing one entry of a list.                                            *)
LEMMA ListOps ==
    ASSUME NEW f \in Lists, NEW s \in Stations, NEW status \in Status
    PROVE  /\ With(f, s, status) \in Lists
           /\ DOMAIN With(f, s, status) = DOMAIN f \cup {s}
           /\ Without(f, s) \in Lists
           /\ DOMAIN Without(f, s) = DOMAIN f \ {s}
           /\ Update(f, s, status) \in Lists
           /\ DOMAIN Update(f, s, status) = DOMAIN f
<1>1. PICK S \in SUBSET Stations : f \in [S -> Status]
  BY DEF Lists
<1>2. With(f, s, status) \in [S \cup {s} -> Status]
  BY <1>1 DEF With
<1>3. Without(f, s) \in [S \ {s} -> Status]
  BY <1>1 DEF Without
<1>4. S \cup {s} \in SUBSET Stations /\ S \ {s} \in SUBSET Stations
  BY <1>1
<1>5. With(f, s, status) \in Lists /\ Without(f, s) \in Lists
  BY <1>2, <1>3, <1>4 DEF Lists
<1>6. DOMAIN With(f, s, status) = DOMAIN f \cup {s} /\ DOMAIN Without(f, s) = DOMAIN f \ {s}
  BY DEF With, Without
<1>7. s \in DOMAIN f => DOMAIN f \cup {s} = DOMAIN f
  OBVIOUS
<1>8. Update(f, s, status) \in Lists /\ DOMAIN Update(f, s, status) = DOMAIN f
  BY <1>5, <1>6, <1>7 DEF Update
<1> QED BY <1>5, <1>6, <1>8

LEMMA EmptyList == <<>> \in Lists /\ DOMAIN <<>> = {}
<1>1. <<>> \in [{} -> Status]
  OBVIOUS
<1> QED BY <1>1 DEF Lists

LEMMA InitInv == ASSUME RegistryAssumption, Init PROVE IInv
<1>1. TypeOK
  BY EmptyList DEF RegistryAssumption, Init, TypeOK, NoRequest
<1>2. Shapes
  BY DEF Init, Shapes, NoReport, NoRequest
<1>3. Labels /\ Apart
  BY DEF Init, Labels, Apart
<1>4. Halves
  BY EmptyList DEF Init, Halves, HalvesOf, At
<1> QED BY <1>1, <1>2, <1>3, <1>4 DEF IInv

-----------------------------------------------------------------------------
(* Where the threads are after one of them moved on or ended.              *)
LEMMA GotoPlaces ==
    ASSUME Shapes, NEW t \in Threads, NEW l, Goto(t, l)
    PROVE  /\ pc' = [u \in Threads |-> pc'[u]] /\ doing' = [u \in Threads |-> doing'[u]]
           /\ pc'[t] = l
           /\ \A u \in Threads : doing'[u] = doing[u]
           /\ \A u \in Threads \ {t} : pc'[u] = pc[u]
BY DEF Shapes, Goto

LEMMA DonePlaces ==
    ASSUME Shapes, NEW t \in Threads, Done(t)
    PROVE  /\ pc' = [u \in Threads |-> pc'[u]] /\ doing' = [u \in Threads |-> doing'[u]]
           /\ pc'[t] = "idle"
           /\ \A u \in Threads \ {t} : pc'[u] = pc[u] /\ doing'[u] = doing[u]
BY DEF Shapes, Done

(* One lemma per action.                                                   *)
LEMMA HandleClientInv ==
    ASSUME RegistryAssumption, IInv, NEW t \in Threads, NEW op \in Ops,
           NEW id \in Stations, NEW whole \in BOOLEAN, NEW own \in BOOLEAN,
           HandleClient(t, op, id, whole, own)
    PROVE  IInv'
<1> USE DEF IInv
<1> DEFINE done == Route(Request(op, id))
           s0 == Target(done, id, whole)
<1>1. /\ pc' = [u \in Threads |-> pc'[u]] /\ doing' = [u \in Threads |-> doing'[u]]
      /\ pc[t] = "idle" /\ pc'[t] = Entry(done)
      /\ doing'[t] = [op |-> done, id |-> s0, own |-> own /\ s0 = id]
      /\ \A u \in Threads \ {t} : pc'[u] = pc[u] /\ doing'[u] = doing[u]
  BY DEF HandleClient, Shapes
<1>2. done # "list" => s0 \in Stations
  BY DEF Target, RegistryAssumption
<1>3. /\ crossed' = crossed \cup {x \in {s0} : Opposite(done, x)}
      /\ muddled' \subseteq muddled \cup Stations
      /\ missed' \subseteq missed \cup Stations
  BY DEF HandleClient
<1>4. /\ UNCHANGED <<shared, report, response, transit>>
      /\ stations' \in Lists
  <2>1. stations \in Lists /\ "connecting" \in Status
    BY DEF TypeOK, Status
  <2>2. Clicked(op, id) \in Lists
    BY <2>1, ListOps DEF Clicked
  <2> QED BY <2>1, <2>2 DEF HandleClient
<1> HIDE DEF done, s0
<1>5. /\ Entry(done) \in {"snapshot", "store", "erase", "hangUp", "lookUp", "send"}
      /\ Entry(done) = "snapshot" <=> done = "list"
      /\ Entry(done) = "store" <=> done = "add"
      /\ Entry(done) = "erase" <=> done = "remove"
      /\ Entry(done) = "hangUp" <=> done = "disconnect"
      /\ Entry(done) = "lookUp" <=> done = "connect"
  BY DEF Entry
<1>6. crossed' \subseteq Stations
  BY <1>2, <1>3 DEF Opposite, TypeOK
<1>7. TypeOK'
  BY <1>1, <1>2, <1>3, <1>4, <1>5, <1>6 DEF TypeOK, shared
<1>8. Shapes'
  BY <1>1, <1>4 DEF Shapes
<1>9. Labels'
  BY <1>1, <1>5 DEF Labels
<1>10. Apart'
  BY <1>1, <1>3 DEF Apart, Opposite
<1>11. Halves'
  <2>1. SUFFICES ASSUME NEW s \in Stations \ crossed
        PROVE  HalvesOf(s)'
    BY <1>3 DEF Halves
  <2>2. HalvesOf(s)
    BY DEF Halves
  <2> QED BY <1>1, <1>4, <1>5, <2>2 DEF HalvesOf, At, shared
<1> QED BY <1>7, <1>8, <1>9, <1>10, <1>11

LEMMA SnapshotInv ==
    ASSUME RegistryAssumption, IInv, NEW t \in Threads, Snapshot(t)
    PROVE  IInv'
<1> USE DEF IInv, Here
<1>1. /\ pc' = [u \in Threads |-> pc'[u]] /\ doing' = [u \in Threads |-> doing'[u]]
      /\ pc'[t] = "idle"
      /\ \A u \in Threads \ {t} : pc'[u] = pc[u] /\ doing'[u] = doing[u]
  BY GotoPlaces, DonePlaces DEF Snapshot
<1>2. TypeOK'
  BY <1>1 DEF TypeOK, Labels, Snapshot, shared, threads, page, histories
<1>3. Shapes'
  BY <1>1 DEF Shapes, Snapshot, shared, threads, page, histories
<1>4. Labels'
  BY <1>1 DEF Labels, Snapshot, shared, threads, page, histories
<1>5. Apart'
  BY <1>1 DEF Apart, Snapshot, shared, threads, page, histories
<1>6. Halves'
  <2>1. SUFFICES ASSUME NEW s \in Stations \ crossed
        PROVE  HalvesOf(s)'
    BY DEF Halves, Snapshot, shared, threads, page, histories
  <2>2. HalvesOf(s)
    BY DEF Halves
  <2> QED BY <1>1, <2>2 DEF HalvesOf, At, Apart, Labels, Snapshot, shared, threads,
                            page, histories
<1> QED BY <1>2, <1>3, <1>4, <1>5, <1>6

LEMMA StoreInv ==
    ASSUME RegistryAssumption, IInv, NEW t \in Threads, Store(t)
    PROVE  IInv'
<1> USE DEF IInv, Here
<1> DEFINE s0 == doing[t].id
<1>1. /\ pc' = [u \in Threads |-> pc'[u]] /\ doing' = [u \in Threads |-> doing'[u]]
      /\ doing'[t] = doing[t] /\ pc'[t] = "register"
      /\ \A u \in Threads \ {t} : pc'[u] = pc[u] /\ doing'[u] = doing[u]
  BY GotoPlaces, DonePlaces DEF Store
<1>2. s0 \in Stations
  BY DEF Store, TypeOK, Labels
<1>3. /\ g_stations' \in Lists /\ DOMAIN g_stations' = DOMAIN g_stations \cup {s0}
      /\ connections' = connections
  <2>1. g_stations \in Lists /\ "connecting" \in Status
    BY DEF TypeOK, Status
  <2>2. /\ With(g_stations, s0, "connecting") \in Lists
        /\ DOMAIN With(g_stations, s0, "connecting") = DOMAIN g_stations \cup {s0}
    BY <1>2, <2>1, ListOps
  <2>3. s0 \in DOMAIN g_stations => DOMAIN g_stations \cup {s0} = DOMAIN g_stations
    OBVIOUS
  <2> QED BY <2>1, <2>2, <2>3 DEF Store, Released, News, shared, threads, page,
                                  histories, TypeOK
<1> HIDE DEF s0
<1>4. TypeOK'
  BY <1>1, <1>2, <1>3 DEF TypeOK, Store, Released, News, shared, threads, page,
                          histories, s0
<1>5. Shapes'
  BY <1>1 DEF Shapes, Store, Released, News, shared, threads, page, histories
<1>6. Labels'
  BY <1>1 DEF Labels, Store, Released, News, shared, threads, page, histories
<1>7. Apart'
  BY <1>1 DEF Apart, Store, Released, News, shared, threads, page, histories
<1>8. Halves'
  <2>1. SUFFICES ASSUME NEW s \in Stations \ crossed
        PROVE  HalvesOf(s)'
    BY DEF Halves, Store, Released, News, shared, threads, page, histories
  <2>2. HalvesOf(s)
    BY DEF Halves
  <2> QED BY <1>1, <1>3, <2>2 DEF HalvesOf, At, s0, Apart, Labels, Store, Released,
                                  News, shared, threads, page, histories
<1> QED BY <1>4, <1>5, <1>6, <1>7, <1>8

LEMMA RegisterInv ==
    ASSUME RegistryAssumption, IInv, NEW t \in Threads, Register(t)
    PROVE  IInv'
<1> USE DEF IInv, Here
<1> DEFINE s0 == doing[t].id
<1>1. /\ pc' = [u \in Threads |-> pc'[u]] /\ doing' = [u \in Threads |-> doing'[u]]
      /\ pc'[t] = "idle"
      /\ \A u \in Threads \ {t} : pc'[u] = pc[u] /\ doing'[u] = doing[u]
  BY GotoPlaces, DonePlaces DEF Register
<1>2. s0 \in Stations
  BY DEF Register, TypeOK, Labels
<1>3. /\ g_stations' = g_stations
      /\ connections' \in Lists /\ DOMAIN connections' = DOMAIN connections \cup {s0}
  <2>1. connections \in Lists /\ "connecting" \in Status
    BY DEF TypeOK, Status
  <2>2. /\ With(connections, s0, "connecting") \in Lists
        /\ DOMAIN With(connections, s0, "connecting") = DOMAIN connections \cup {s0}
    BY <1>2, <2>1, ListOps
  <2>3. s0 \in DOMAIN connections => DOMAIN connections \cup {s0} = DOMAIN connections
    OBVIOUS
  <2> QED BY <2>1, <2>2, <2>3 DEF Register, shared, threads, page, histories, TypeOK
<1> HIDE DEF s0
<1>4. TypeOK'
  BY <1>1, <1>2, <1>3 DEF TypeOK, Register, shared, threads, page, histories, s0
<1>5. Shapes'
  BY <1>1 DEF Shapes, Register, shared, threads, page, histories
<1>6. Labels'
  BY <1>1 DEF Labels, Register, shared, threads, page, histories
<1>7. Apart'
  BY <1>1 DEF Apart, Register, shared, threads, page, histories
<1>8. Halves'
  <2>1. SUFFICES ASSUME NEW s \in Stations \ crossed
        PROVE  HalvesOf(s)'
    BY DEF Halves, Register, shared, threads, page, histories
  <2>2. HalvesOf(s)
    BY DEF Halves
  <2> QED BY <1>1, <1>3, <2>2 DEF HalvesOf, At, s0, Apart, Labels, Register, shared,
                                  threads, page, histories
<1> QED BY <1>4, <1>5, <1>6, <1>7, <1>8

LEMMA EraseInv ==
    ASSUME RegistryAssumption, IInv, NEW t \in Threads, Erase(t)
    PROVE  IInv'
<1> USE DEF IInv, Here
<1> DEFINE s0 == doing[t].id
<1>1. /\ pc' = [u \in Threads |-> pc'[u]] /\ doing' = [u \in Threads |-> doing'[u]]
      /\ doing'[t] = doing[t] /\ pc'[t] = "forget"
      /\ \A u \in Threads \ {t} : pc'[u] = pc[u] /\ doing'[u] = doing[u]
  BY GotoPlaces, DonePlaces DEF Erase
<1>2. s0 \in Stations
  BY DEF Erase, TypeOK, Labels
<1>3. /\ g_stations' \in Lists /\ DOMAIN g_stations' = DOMAIN g_stations \ {s0}
      /\ connections' = connections
  <2>1. g_stations \in Lists /\ "error" \in Status
    BY DEF TypeOK, Status
  <2>2. /\ Without(g_stations, s0) \in Lists
        /\ DOMAIN Without(g_stations, s0) = DOMAIN g_stations \ {s0}
    BY <1>2, <2>1, ListOps
  <2> QED BY <2>1, <2>2 DEF Erase, shared, threads, page, histories, TypeOK
<1> HIDE DEF s0
<1>4. TypeOK'
  BY <1>1, <1>2, <1>3 DEF TypeOK, Erase, shared, threads, page, histories, s0
<1>5. Shapes'
  BY <1>1 DEF Shapes, Erase, shared, threads, page, histories
<1>6. Labels'
  BY <1>1 DEF Labels, Erase, shared, threads, page, histories
<1>7. Apart'
  BY <1>1 DEF Apart, Erase, shared, threads, page, histories
<1>8. Halves'
  <2>1. SUFFICES ASSUME NEW s \in Stations \ crossed
        PROVE  HalvesOf(s)'
    BY DEF Halves, Erase, shared, threads, page, histories
  <2>2. HalvesOf(s)
    BY DEF Halves
  <2> QED BY <1>1, <1>3, <2>2 DEF HalvesOf, At, s0, Apart, Labels, Erase, shared,
                                  threads, page, histories
<1> QED BY <1>4, <1>5, <1>6, <1>7, <1>8

LEMMA ForgetInv ==
    ASSUME RegistryAssumption, IInv, NEW t \in Threads, Forget(t)
    PROVE  IInv'
<1> USE DEF IInv, Here
<1> DEFINE s0 == doing[t].id
<1>1. /\ pc' = [u \in Threads |-> pc'[u]] /\ doing' = [u \in Threads |-> doing'[u]]
      /\ \/ s0 \in DOMAIN connections /\ doing'[t] = doing[t] /\ pc'[t] = "destroy"
         \/ s0 \notin DOMAIN connections /\ pc'[t] = "idle"
      /\ \A u \in Threads \ {t} : pc'[u] = pc[u] /\ doing'[u] = doing[u]
  BY GotoPlaces, DonePlaces DEF Forget
<1>2. s0 \in Stations
  BY DEF Forget, TypeOK, Labels
<1>3. /\ g_stations' = g_stations
      /\ connections' \in Lists /\ DOMAIN connections' = DOMAIN connections \ {s0}
  <2>1. connections \in Lists /\ "error" \in Status
    BY DEF TypeOK, Status
  <2>2. /\ Without(connections, s0) \in Lists
        /\ DOMAIN Without(connections, s0) = DOMAIN connections \ {s0}
    BY <1>2, <2>1, ListOps
  <2> QED BY <2>1, <2>2 DEF Forget, shared, threads, page, histories, TypeOK
<1> HIDE DEF s0
<1>4. TypeOK'
  BY <1>1, <1>2, <1>3 DEF TypeOK, Forget, shared, threads, page, histories, s0
<1>5. Shapes'
  BY <1>1 DEF Shapes, Forget, shared, threads, page, histories
<1>6. Labels'
  BY <1>1 DEF Labels, Forget, shared, threads, page, histories
<1>7. Apart'
  BY <1>1 DEF Apart, Forget, shared, threads, page, histories
<1>8. Halves'
  <2>1. SUFFICES ASSUME NEW s \in Stations \ crossed
        PROVE  HalvesOf(s)'
    BY DEF Halves, Forget, shared, threads, page, histories
  <2>2. HalvesOf(s)
    BY DEF Halves
  <2> QED BY <1>1, <1>3, <2>2 DEF HalvesOf, At, s0, Apart, Labels, Forget, shared,
                                  threads, page, histories
<1> QED BY <1>4, <1>5, <1>6, <1>7, <1>8

LEMMA HangUpInv ==
    ASSUME RegistryAssumption, IInv, NEW t \in Threads, HangUp(t)
    PROVE  IInv'
<1> USE DEF IInv, Here
<1> DEFINE s0 == doing[t].id
<1>1. /\ pc' = [u \in Threads |-> pc'[u]] /\ doing' = [u \in Threads |-> doing'[u]]
      /\ \/ s0 \in DOMAIN connections /\ doing'[t] = doing[t] /\ pc'[t] = "destroy"
         \/ s0 \notin DOMAIN connections /\ pc'[t] = "idle"
      /\ \A u \in Threads \ {t} : pc'[u] = pc[u] /\ doing'[u] = doing[u]
  BY GotoPlaces, DonePlaces DEF HangUp
<1>2. s0 \in Stations
  BY DEF HangUp, TypeOK, Labels
<1>3. /\ g_stations' = g_stations
      /\ connections' \in Lists /\ DOMAIN connections' = DOMAIN connections
  <2>1. connections \in Lists /\ "disconnected" \in Status
    BY DEF TypeOK, Status
  <2>2. /\ Update(connections, s0, "disconnected") \in Lists
        /\ DOMAIN Update(connections, s0, "disconnected") = DOMAIN connections
    BY <1>2, <2>1, ListOps
  <2> QED BY <2>1, <2>2 DEF HangUp, Released, shared, threads, page, histories, TypeOK
<1> HIDE DEF s0
<1>4. TypeOK'
  BY <1>1, <1>2, <1>3 DEF TypeOK, HangUp, Released, shared, threads, page, histories, s0
<1>5. Shapes'
  BY <1>1 DEF Shapes, HangUp, Released, shared, threads, page, histories
<1>6. Labels'
  BY <1>1 DEF Labels, HangUp, Released, shared, threads, page, histories
<1>7. Apart'
  BY <1>1 DEF Apart, HangUp, Released, shared, threads, page, histories
<1>8. Halves'
  <2>1. SUFFICES ASSUME NEW s \in Stations \ crossed
        PROVE  HalvesOf(s)'
    BY DEF Halves, HangUp, Released, shared, threads, page, histories
  <2>2. HalvesOf(s)
    BY DEF Halves
  <2> QED BY <1>1, <1>3, <2>2 DEF HalvesOf, At, s0, Apart, Labels, HangUp, Released,
                                  shared, threads, page, histories
<1> QED BY <1>4, <1>5, <1>6, <1>7, <1>8

LEMMA DestroyInv ==
    ASSUME RegistryAssumption, IInv, NEW t \in Threads, Destroy(t)
    PROVE  IInv'
<1> USE DEF IInv, Here
<1>1. /\ pc' = [u \in Threads |-> pc'[u]] /\ doing' = [u \in Threads |-> doing'[u]]
      /\ \/ doing'[t] = doing[t] /\ pc'[t] = "tell" /\ doing[t].op = "disconnect"
         \/ pc'[t] = "idle"
      /\ \A u \in Threads \ {t} : pc'[u] = pc[u] /\ doing'[u] = doing[u]
  BY GotoPlaces, DonePlaces DEF Destroy
<1>2. TypeOK'
  BY <1>1 DEF TypeOK, Labels, Destroy, shared, threads, page, histories
<1>3. Shapes'
  BY <1>1 DEF Shapes, Destroy, shared, threads, page, histories
<1>4. Labels'
  BY <1>1 DEF Labels, Destroy, shared, threads, page, histories
<1>5. Apart'
  BY <1>1 DEF Apart, Destroy, shared, threads, page, histories
<1>6. Halves'
  <2>1. SUFFICES ASSUME NEW s \in Stations \ crossed
        PROVE  HalvesOf(s)'
    BY DEF Halves, Destroy, shared, threads, page, histories
  <2>2. HalvesOf(s)
    BY DEF Halves
  <2> QED BY <1>1, <2>2 DEF HalvesOf, At, Apart, Labels, Destroy, shared, threads,
                            page, histories
<1> QED BY <1>2, <1>3, <1>4, <1>5, <1>6

LEMMA LookUpInv ==
    ASSUME RegistryAssumption, IInv, NEW t \in Threads, LookUp(t)
    PROVE  IInv'
<1> USE DEF IInv, Here
<1> DEFINE s0 == doing[t].id
<1>1. /\ pc' = [u \in Threads |-> pc'[u]] /\ doing' = [u \in Threads |-> doing'[u]]
      /\ \/ doing'[t] = doing[t] /\ pc'[t] = "tell" /\ connectionsMutex' = t
         \/ pc'[t] = "idle" /\ connectionsMutex' = None
      /\ \A u \in Threads \ {t} : pc'[u] = pc[u] /\ doing'[u] = doing[u]
  BY GotoPlaces, DonePlaces DEF LookUp
<1>2. s0 \in Stations
  BY DEF LookUp, TypeOK, Labels
<1>3. /\ g_stations' = g_stations
      /\ connections' \in Lists /\ DOMAIN connections' = DOMAIN connections
  <2>1. connections \in Lists /\ "connecting" \in Status
    BY DEF TypeOK, Status
  <2>2. /\ With(connections, s0, "connecting") \in Lists
        /\ DOMAIN With(connections, s0, "connecting") = DOMAIN connections \cup {s0}
    BY <1>2, <2>1, ListOps
  <2>3. s0 \in DOMAIN connections => DOMAIN connections \cup {s0} = DOMAIN connections
    OBVIOUS
  <2> QED BY <2>1, <2>2, <2>3 DEF LookUp, shared, threads, page, histories, TypeOK
<1> HIDE DEF s0
<1>4. TypeOK'
  BY <1>1, <1>2, <1>3 DEF TypeOK, LookUp, shared, threads, page, histories, s0, Labels
<1>5. Shapes'
  BY <1>1 DEF Shapes, LookUp, shared, threads, page, histories
<1>6. Labels'
  BY <1>1 DEF Labels, LookUp, shared, threads, page, histories
<1>7. Apart'
  BY <1>1 DEF Apart, LookUp, shared, threads, page, histories
<1>8. Halves'
  <2>1. SUFFICES ASSUME NEW s \in Stations \ crossed
        PROVE  HalvesOf(s)'
    BY DEF Halves, LookUp, shared, threads, page, histories
  <2>2. HalvesOf(s)
    BY DEF Halves
  <2> QED BY <1>1, <1>3, <2>2 DEF HalvesOf, At, s0, Apart, Labels, LookUp, shared,
                                  threads, page, histories
<1> QED BY <1>4, <1>5, <1>6, <1>7, <1>8

LEMMA SendCommandInv ==
    ASSUME RegistryAssumption, IInv, NEW t \in Threads, SendCommand(t)
    PROVE  IInv'
<1> USE DEF IInv, Here
<1>1. /\ pc' = [u \in Threads |-> pc'[u]] /\ doing' = [u \in Threads |-> doing'[u]]
      /\ pc'[t] = "idle"
      /\ \A u \in Threads \ {t} : pc'[u] = pc[u] /\ doing'[u] = doing[u]
  BY GotoPlaces, DonePlaces DEF SendCommand
<1>2. TypeOK'
  BY <1>1 DEF TypeOK, Labels, SendCommand, shared, threads, page, histories
<1>3. Shapes'
  BY <1>1 DEF Shapes, SendCommand, shared, threads, page, histories
<1>4. Labels'
  BY <1>1 DEF Labels, SendCommand, shared, threads, page, histories
<1>5. Apart'
  BY <1>1 DEF Apart, SendCommand, shared, threads, page, histories
<1>6. Halves'
  <2>1. SUFFICES ASSUME NEW s \in Stations \ crossed
        PROVE  HalvesOf(s)'
    BY DEF Halves, SendCommand, shared, threads, page, histories
  <2>2. HalvesOf(s)
    BY DEF Halves
  <2> QED BY <1>1, <2>2 DEF HalvesOf, At, Apart, Labels, SendCommand, shared,
                            threads, page, histories
<1> QED BY <1>2, <1>3, <1>4, <1>5, <1>6

LEMMA TellInv ==
    ASSUME RegistryAssumption, IInv, NEW t \in Threads, Tell(t)
    PROVE  IInv'
<1> USE DEF IInv, Here
<1> DEFINE s0 == doing[t].id
<1>1. /\ pc' = [u \in Threads |-> pc'[u]] /\ doing' = [u \in Threads |-> doing'[u]]
      /\ doing'[t] = doing[t] /\ pc'[t] = "announce"
      /\ \A u \in Threads \ {t} : pc'[u] = pc[u] /\ doing'[u] = doing[u]
  BY GotoPlaces, DonePlaces DEF Tell
<1>2. s0 \in Stations
  BY DEF Tell, TypeOK, Labels
<1>3. /\ g_stations' \in Lists /\ DOMAIN g_stations' = DOMAIN g_stations
      /\ connections' = connections
  <2>1. g_stations \in Lists /\ Told(t) \in Status
    BY DEF TypeOK, Status, Told
  <2>2. /\ Update(g_stations, s0, Told(t)) \in Lists
        /\ DOMAIN Update(g_stations, s0, Told(t)) = DOMAIN g_stations
    BY <1>2, <2>1, ListOps
  <2> QED BY <2>1, <2>2 DEF Tell, ListStatus, Found, shared, threads, page,
                            histories, TypeOK
<1> HIDE DEF s0
<1>4. TypeOK'
  BY <1>1, <1>2, <1>3 DEF TypeOK, Tell, ListStatus, Found, shared, threads, page,
                          histories, s0
<1>5. Shapes'
  BY <1>1 DEF Shapes, Tell, ListStatus, Found, shared, threads, page, histories
<1>6. Labels'
  BY <1>1 DEF Labels, Tell, ListStatus, Found, shared, threads, page, histories
<1>7. Apart'
  BY <1>1 DEF Apart, Tell, ListStatus, Found, shared, threads, page, histories
<1>8. Halves'
  <2>1. SUFFICES ASSUME NEW s \in Stations \ crossed
        PROVE  HalvesOf(s)'
    BY DEF Halves, Tell, ListStatus, Found, shared, threads, page, histories
  <2>2. HalvesOf(s)
    BY DEF Halves
  <2> QED BY <1>1, <1>3, <2>2 DEF HalvesOf, At, s0, Apart, Labels, Tell, ListStatus,
                                  Found, shared, threads, page, histories
<1> QED BY <1>4, <1>5, <1>6, <1>7, <1>8

LEMMA AnnounceInv ==
    ASSUME RegistryAssumption, IInv, NEW t \in Threads, Announce(t)
    PROVE  IInv'
<1> USE DEF IInv, Here
<1>1. /\ pc' = [u \in Threads |-> pc'[u]] /\ doing' = [u \in Threads |-> doing'[u]]
      /\ pc'[t] = "idle"
      /\ \A u \in Threads \ {t} : pc'[u] = pc[u] /\ doing'[u] = doing[u]
  BY GotoPlaces, DonePlaces DEF Announce
<1>2. TypeOK'
  BY <1>1 DEF TypeOK, Labels, Announce, SendEvent, News, shared, threads, page,
              histories
<1>3. Shapes'
  <2>1. [id |-> doing[t].id, status |-> Told(t)] \in Report
    BY DEF Announce, TypeOK, Labels, Report, Status, Told
  <2>2. transit' \in Seq(Report)
    BY <2>1 DEF Announce, SendEvent, Shapes
  <2> QED BY <1>1, <2>2 DEF Shapes, Announce, SendEvent, News, shared, threads,
                            page, histories
<1>4. Labels'
  BY <1>1 DEF Labels, Announce, SendEvent, News, shared, threads, page, histories
<1>5. Apart'
  BY <1>1 DEF Apart, Announce, SendEvent, News, shared, threads, page, histories
<1>6. Halves'
  <2>1. SUFFICES ASSUME NEW s \in Stations \ crossed
        PROVE  HalvesOf(s)'
    BY DEF Halves, Announce, SendEvent, News, shared, threads, page, histories
  <2>2. HalvesOf(s)
    BY DEF Halves
  <2> QED BY <1>1, <2>2 DEF HalvesOf, At, Apart, Labels, Announce, SendEvent, News,
                            shared, threads, page, histories
<1> QED BY <1>2, <1>3, <1>4, <1>5, <1>6

LEMMA FindInv ==
    ASSUME RegistryAssumption, IInv, NEW r \in Reporters, NEW s \in Stations,
           NEW status \in Status, NEW library \in BOOLEAN, Find(r, s, status, library)
    PROVE  IInv'
<1> USE DEF IInv
<1>2. TypeOK'
  BY DEF TypeOK, Find, shared, threads, page, histories
<1>3. Shapes'
  BY DEF Shapes, Find, shared, threads, page, histories
<1>4. Labels' /\ Apart'
  BY DEF Labels, Apart, Find, shared, threads, page, histories
<1>5. Halves'
  BY DEF Halves, HalvesOf, At, Find, shared, threads, page, histories
<1> QED BY <1>2, <1>3, <1>4, <1>5

LEMMA WriteInv ==
    ASSUME RegistryAssumption, IInv, NEW r \in Reporters, Write(r)
    PROVE  IInv'
<1> USE DEF IInv
<1>1. connections' \in Lists /\ DOMAIN connections' = DOMAIN connections
  <2>1. report[r].id \in Stations /\ report[r].status \in Status /\ connections \in Lists
    BY DEF Write, Shapes, TypeOK
  <2>2. /\ Update(connections, report[r].id, report[r].status) \in Lists
        /\ DOMAIN Update(connections, report[r].id, report[r].status) = DOMAIN connections
    BY <2>1, ListOps
  <2> QED BY <2>2 DEF Write
<1>2. TypeOK'
  BY <1>1 DEF TypeOK, Write, shared, threads, page, histories
<1>3. Shapes'
  <2>1. /\ report = [q \in Reporters |-> report[q]]
        /\ report' = [report EXCEPT ![r].at = "tell"] /\ report[r].at # "idle"
        /\ UNCHANGED <<threads, transit>>
    BY DEF Write, Shapes
  <2>2. /\ report'[r] = [report[r] EXCEPT !.at = "tell"]
        /\ \A q \in Reporters \ {r} : report'[q] = report[q]
        /\ report' = [q \in Reporters |-> report'[q]]
    BY <2>1
  <2>3. report'[r].id = report[r].id /\ report'[r].status = report[r].status
    BY <2>2
  <2> QED BY <2>1, <2>2, <2>3 DEF Shapes, threads
<1>4. Labels' /\ Apart'
  BY DEF Labels, Apart, Write, shared, threads, page, histories
<1>5. Halves'
  BY <1>1 DEF Halves, HalvesOf, At, Write, shared, threads, page, histories
<1> QED BY <1>2, <1>3, <1>4, <1>5

LEMMA ReportStatusInv ==
    ASSUME RegistryAssumption, IInv, NEW r \in Reporters, ReportStatus(r)
    PROVE  IInv'
<1> USE DEF IInv
<1>1. g_stations' \in Lists /\ DOMAIN g_stations' = DOMAIN g_stations
  <2>1. report[r].id \in Stations /\ report[r].status \in Status /\ g_stations \in Lists
    BY DEF ReportStatus, Shapes, TypeOK
  <2>2. /\ Update(g_stations, report[r].id, report[r].status) \in Lists
        /\ DOMAIN Update(g_stations, report[r].id, report[r].status) = DOMAIN g_stations
    BY <2>1, ListOps
  <2> QED BY <2>2 DEF ReportStatus, ListStatus, Found
<1>2. TypeOK'
  BY <1>1 DEF TypeOK, ReportStatus, ListStatus, shared, threads, page, histories
<1>3. Shapes'
  <2>1. /\ report = [q \in Reporters |-> report[q]]
        /\ report' = [report EXCEPT ![r].at = "announce"] /\ report[r].at # "idle"
        /\ UNCHANGED <<threads, transit>>
    BY DEF ReportStatus, Shapes
  <2>2. /\ report'[r] = [report[r] EXCEPT !.at = "announce"]
        /\ \A q \in Reporters \ {r} : report'[q] = report[q]
        /\ report' = [q \in Reporters |-> report'[q]]
    BY <2>1
  <2>3. report'[r].id = report[r].id /\ report'[r].status = report[r].status
    BY <2>2
  <2> QED BY <2>1, <2>2, <2>3 DEF Shapes, threads
<1>4. Labels' /\ Apart'
  BY DEF Labels, Apart, ReportStatus, ListStatus, shared, threads, page, histories
<1>5. Halves'
  BY <1>1 DEF Halves, HalvesOf, At, ReportStatus, ListStatus, shared, threads, page,
              histories
<1> QED BY <1>2, <1>3, <1>4, <1>5

LEMMA ReportEventInv ==
    ASSUME RegistryAssumption, IInv, NEW r \in Reporters, ReportEvent(r)
    PROVE  IInv'
<1> USE DEF IInv
<1>1. /\ [id |-> report[r].id, status |-> report[r].status] \in Report
      /\ report[r].id \in Stations
  BY DEF ReportEvent, Shapes, Report
<1>0. transit' \in Seq(Report)
  BY <1>1 DEF ReportEvent, SendEvent, Shapes
<1>2. TypeOK'
  BY <1>1 DEF TypeOK, ReportEvent, SendEvent, News, NoReport, shared, threads, page,
              histories
<1>3. Shapes'
  BY <1>0 DEF Shapes, ReportEvent, SendEvent, News, NoReport, shared, threads, page,
              histories
<1>4. Labels' /\ Apart'
  BY DEF Labels, Apart, ReportEvent, SendEvent, News, NoReport, shared, threads,
         page, histories
<1>5. Halves'
  BY <1>1 DEF Halves, HalvesOf, At, ReportEvent, SendEvent, News, NoReport, shared,
              threads, page, histories
<1> QED BY <1>2, <1>3, <1>4, <1>5

LEMMA ListenInv ==
    ASSUME RegistryAssumption, IInv, Listen
    PROVE  IInv'
<1> USE DEF IInv
<1>2. TypeOK'
  BY DEF TypeOK, Listen, shared, threads, page, histories
<1>3. Shapes'
  BY DEF Shapes, Listen, shared, threads, page, histories
<1>4. Labels' /\ Apart'
  BY DEF Labels, Apart, Listen, shared, threads, page, histories
<1>5. Halves'
  BY DEF Halves, HalvesOf, At, Listen, shared, threads, page, histories
<1> QED BY <1>2, <1>3, <1>4, <1>5

LEMMA LoadStationsInv ==
    ASSUME RegistryAssumption, IInv, LoadStations
    PROVE  IInv'
<1> USE DEF IInv
<1>2. TypeOK'
  BY DEF TypeOK, LoadStations, shared, threads, page, histories
<1>3. Shapes'
  BY DEF Shapes, LoadStations, shared, threads, page, histories
<1>4. Labels' /\ Apart'
  BY DEF Labels, Apart, LoadStations, shared, threads, page, histories
<1>5. Halves'
  BY DEF Halves, HalvesOf, At, LoadStations, shared, threads, page, histories
<1> QED BY <1>2, <1>3, <1>4, <1>5

LEMMA OnConnectionInv ==
    ASSUME RegistryAssumption, IInv, OnConnection
    PROVE  IInv'
<1> USE DEF IInv
<1> DEFINE e == Head(transit)
<1>1. e \in Report /\ e.id \in Stations /\ e.status \in Status /\ Tail(transit) \in Seq(Report)
  <2>1. transit \in Seq(Report) /\ transit # <<>>
    BY DEF OnConnection, Shapes
  <2>2. e \in Report /\ Tail(transit) \in Seq(Report)
    BY <2>1
  <2> QED BY <2>2 DEF Report
<1>0. Update(stations, e.id, e.status) \in Lists
  BY <1>1, ListOps DEF TypeOK
<1>6. stations' \in Lists /\ missed' \subseteq missed \cup Stations
  BY <1>0, <1>1 DEF OnConnection, News
<1> HIDE DEF e
<1>2. TypeOK'
  BY <1>6 DEF TypeOK, OnConnection, News, shared, threads, page, histories
<1>3. Shapes'
  BY <1>1 DEF Shapes, e, OnConnection, News, shared, threads, page, histories
<1>4. Labels' /\ Apart'
  BY DEF Labels, Apart, OnConnection, News, shared, threads, page, histories
<1>5. Halves'
  BY <1>6 DEF Halves, HalvesOf, At, OnConnection, News, shared, threads, page, histories
<1> QED BY <1>2, <1>3, <1>4, <1>5
-----------------------------------------------------------------------------
LEMMA NextInv == ASSUME RegistryAssumption, IInv, [Next]_vars PROVE IInv'
<1>1. CASE UNCHANGED vars
  BY <1>1 DEF IInv, TypeOK, Shapes, Labels, Apart, Halves, HalvesOf, At, vars,
              shared, threads, page, histories
<1>2. ASSUME NEW t \in Threads, ThreadStep(t) PROVE IInv'
  BY <1>2, SnapshotInv, StoreInv, RegisterInv, EraseInv, ForgetInv, HangUpInv,
     DestroyInv, LookUpInv, SendCommandInv, TellInv, AnnounceInv DEF ThreadStep
<1>3. ASSUME NEW r \in Reporters, ReporterStep(r) PROVE IInv'
  BY <1>3, WriteInv, ReportStatusInv, ReportEventInv DEF ReporterStep
<1> QED BY <1>1, <1>2, <1>3, HandleClientInv, FindInv, ListenInv, LoadStationsInv,
           OnConnectionInv DEF Next

(* IInv holds in every reachable state: between the two critical sections  *)
(* of an addition or a removal somebody is there to finish it.             *)
THEOREM Invariance == Spec => []IInv
<1>1. Init => IInv
  BY InitInv, RegistryAssumption
<1>2. IInv /\ [Next]_vars => IInv'
  BY NextInv, RegistryAssumption
<1> QED BY <1>1, <1>2, PTL DEF Spec

(* The types of the two maps, and who holds a mutex: main's is never held  *)
(* from one step to the next, the manager's only by a connect request      *)
(* while it runs the callback of main (connectStation).                    *)
THEOREM TypesAndMutexes == Spec => []TypeOK
<1>1. IInv => TypeOK
  BY DEF IInv
<1> QED BY <1>1, Invariance, PTL

(* g_stations and connections_ name the same stations whenever no request  *)
(* about the station is under way, unless an addition and a removal of it  *)
(* overlapped (onAddStation, onRemoveStation, addStation, removeStation).  *)
THEOREM TheMapsAgree == Spec => []MapsAgree
<1>1. IInv => MapsAgree
  BY DEF IInv, Halves, HalvesOf, At, MapsAgree, InProgress
<1> QED BY <1>1, Invariance, PTL

(* The word of a command selects the branch of handleAPIRequest for it.    *)
LEMMA RouteIsAsked ==
    ASSUME RegistryAssumption, NEW op \in Ops, NEW id \in Stations \ LikeARoute
    PROVE  Route(Request(op, id)) = op
<1>1. id # NoStation /\ {"list", "add", "remove"} \cap Commands = {}
  BY DEF RegistryAssumption
<1>2. CASE op \in {"list", "add", "remove"}
  BY <1>1, <1>2 DEF Route, Request, IsMethod
<1>3. CASE op \notin {"list", "add", "remove"}
  <2>1. Request(op, id) = [method |-> "POST", id |-> id, word |-> op]
    BY <1>3 DEF Request
  <2> DEFINE r == Request(op, id)
  <2>2. \A word : Has(r, word) <=> word = op
    BY <2>1 DEF Has
  <2>3. /\ DOMAIN Words = 1..6
        /\ Words[1] = "disconnect" /\ Words[2] = "connect" /\ Words[3] = "interrogation"
        /\ Words[4] = "clock-sync" /\ Words[5] = "counter" /\ Words[6] = "control"
    BY DEF Words
  <2> DEFINE First(k) == Has(r, Words[k]) /\ \A j \in 1..(k - 1) : ~Has(r, Words[j])
  <2>4. \E k \in DOMAIN Words : First(k)
    <3>1. PICK k \in 1..6 : Words[k] = op
      BY <1>3, <2>3, RegistryAssumption DEF Ops, RegistryAssumption
    <3>2. \A j \in 1..(k - 1) : Words[j] # Words[k]
      BY <2>3
    <3> QED BY <2>2, <2>3, <3>1, <3>2
  <2>5. Has(r, Words[CHOOSE k \in DOMAIN Words : First(k)])
    BY <2>4
  <2>6. Route(r) = Words[CHOOSE k \in DOMAIN Words : First(k)]
    BY <1>1, <2>1 DEF Route, IsMethod
  <2> QED BY <2>2, <2>5, <2>6
<1> QED BY <1>2, <1>3

(* handleAPIRequest takes the branch the page asked for, on the station it *)
(* named, for every request whose body came with its head and whose host   *)
(* does not begin with a word of the API.                                  *)
THEOREM WhatIsAskedIsDone == Spec => AskedIsDone
<1>1. ASSUME IInv, [Next]_vars, NEW t \in Threads, NEW op \in Ops,
             NEW id \in Stations \ LikeARoute, NEW own \in BOOLEAN,
             HandleClient(t, op, id, TRUE, own)
      PROVE  doing'[t] = [op |-> op, id |-> IF op = "list" THEN NoStation ELSE id,
                          own |-> own]
  <2> DEFINE s0 == Target(op, id, TRUE)
  <2>1. doing'[t] = [op |-> op, id |-> s0, own |-> own /\ s0 = id]
    BY <1>1, RouteIsAsked, RegistryAssumption DEF HandleClient, IInv, Shapes
  <2>2. op = "list" => own = FALSE
    BY <1>1 DEF HandleClient, MayClick
  <2>3. s0 = IF op = "list" THEN NoStation ELSE id
    BY DEF Target
  <2> QED BY <2>1, <2>2, <2>3
<1>2. IInv /\ [Next]_vars => [AskedDone]_vars
  BY <1>1 DEF AskedDone
<1> QED BY <1>2, Invariance, PTL DEF Spec, AskedIsDone, AskedDone
=============================================================================
