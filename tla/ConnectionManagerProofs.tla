----------------------- MODULE ConnectionManagerProofs -----------------------
(***************************************************************************)
(* Theorems about ConnectionManager for every number of stations, infos,   *)
(* handles and threads, every retry limit and every set of calls; and that *)
(* it implements HandleLifecycle.                                          *)
(***************************************************************************)
EXTENDS ConnectionManager, TLAPS

(* TypeOK by groups of variables: a step is typed group by group.          *)
RegistryType == /\ connections \in [Stations -> Infos \cup {None}]
                /\ live \subseteq Infos
                /\ station \in [Infos -> Stations \cup {None}]
InfoType == /\ connection \in [Infos -> Conns \cup {None}]
            /\ status \in [Infos -> Status]
            /\ shouldReconnect \in [Infos -> BOOLEAN]
LibType == /\ lib \in [Conns -> LibStates]
           /\ param \in [Conns -> Infos \cup {None}]
           /\ closing \in [Conns -> BOOLEAN]
           /\ took \in [Conns -> Conns \cup {None}]
           /\ again \in [Conns -> BOOLEAN]
ThreadType == /\ pc \in [Threads -> Pcs]
              /\ tinfo \in [Threads -> Infos \cup {None}]
              /\ tconn \in [Threads -> Conns \cup {None}]
              /\ left \in [Threads -> -1..MaxRetries]
              /\ alias \subseteq Threads
ReportType == reported \in [Stations -> Status]
OtherType == /\ dtor \in {"none", "locked", "done"}
             /\ victim \in Conns \cup {None}
             /\ todo \subseteq Stations
             /\ commands \in 0..MaxCommands /\ drops \in 0..MaxDrops
             /\ fault \in Faults \cup {"none"}

LEMMA TypeParts == TypeOK <=> /\ RegistryType /\ InfoType /\ LibType
                              /\ ThreadType /\ ReportType /\ OtherType
  BY DEF TypeOK, RegistryType, InfoType, LibType, ThreadType, ReportType, OtherType

LEMMA TypePartsNext == /\ RegistryType' /\ InfoType' /\ LibType'
                       /\ ThreadType' /\ ReportType' /\ OtherType'
                       => TypeOK'
  BY DEF TypeOK, RegistryType, InfoType, LibType, ThreadType, ReportType, OtherType

(* What each helper leaves well typed.                                     *)
LEMMA RunTyped ==
  ASSUME ThreadType, NEW t \in Threads, NEW p \in Pcs, NEW i \in Infos \cup {None},
         NEW c \in Conns \cup {None}, NEW n \in -1..MaxRetries,
         NEW refs \in SUBSET Threads, Run(t, p, i, c, n, refs)
  PROVE  ThreadType'
  BY DEF ThreadType, Run

LEMMA ContinueTyped ==
  ASSUME ThreadType, NEW t \in Threads, NEW p \in Pcs, Continue(t, p)
  PROVE  ThreadType'
  <1>1. CASE p = "idle"
    <2>1. Run(t, "idle", None, None, 0, alias \ {t})
      BY <1>1 DEF Continue, End
    <2> QED BY <2>1, RunTyped, ConstantsAssumption DEF Pcs, ThreadType
  <1>2. CASE p # "idle"
    <2>1. Run(t, p, tinfo[t], None, left[t], alias)
      BY <1>2 DEF Continue
    <2> QED BY <2>1, RunTyped DEF ThreadType
  <1> QED BY <1>1, <1>2

LEMMA EndTyped ==
  ASSUME ThreadType, NEW t \in Threads, End(t)
  PROVE  ThreadType'
  BY RunTyped, ConstantsAssumption DEF End, Pcs, ThreadType

LEMMA SetInfoTyped ==
  ASSUME InfoType, NEW i \in Infos, NEW c \in Conns \cup {None}, NEW s \in Status,
         NEW r \in BOOLEAN, SetInfo(i, c, s, r)
  PROVE  InfoType'
  BY DEF InfoType, SetInfo

LEMMA BeginDestroyTyped ==
  ASSUME LibType, NEW c \in Conns \cup {None}, BeginDestroy(c)
  PROVE  LibType'
  BY DEF LibType, BeginDestroy

LEMMA CreateTyped ==
  ASSUME LibType, NEW c \in Conns, NEW i \in Infos \cup {None}, NEW l \in LibStates,
         Create(c, i, l)
  PROVE  LibType'
  BY DEF LibType, Create

LEMMA FreeTyped ==
  ASSUME LibType, NEW c, Free(c)
  PROVE  LibType'
  BY DEF LibType, Free, LibStates

LEMMA ReportTyped ==
  ASSUME ReportType, NEW i, NEW s \in Status, Report(i, s)
  PROVE  ReportType'
  BY DEF ReportType, Report
-----------------------------------------------------------------------------
(* A thread that reads its info in a well-defined step has a live one.     *)
LEMMA ReadyInfo ==
  ASSUME TypeOK, NEW t \in Threads, Ready(t), ReadsInfo(t)
  PROVE  tinfo[t] \in Infos /\ tinfo[t] \in live
  BY DEF TypeOK, Ready, ThreadOK, DanglingInfo

LEMMA CallTyped ==
  ASSUME OtherType, NEW op, Call(op)
  PROVE  OtherType'
  BY ConstantsAssumption DEF OtherType, Call

LEMMA OperationsTyped ==
  ASSUME TypeOK, NEW s \in Stations,
         AddStation(s) \/ RemoveStation(s) \/ DisconnectStation(s) \/ ConnectStation(s)
  PROVE  TypeOK'
<1> USE ConstantsAssumption
<1>0. /\ RegistryType /\ InfoType /\ LibType /\ ThreadType /\ ReportType /\ OtherType
  BY TypeParts
<1>1. CASE AddStation(s)
  <2>1. PICK i \in FreshInfos, t \in IdleThreads :
          /\ connections' = [connections EXCEPT ![s] = i]
          /\ live' = live \cup {i}
          /\ station' = [station EXCEPT ![i] = s]
          /\ SetInfo(i, None, "CONNECTING", TRUE)
          /\ Run(t, "c_create", i, None, 0, alias \cup {t})
    BY <1>1 DEF AddStation
  <2>2. i \in Infos /\ t \in Threads
    BY DEF FreshInfos, IdleThreads
  <2>3. RegistryType'
    BY <1>0, <2>1, <2>2 DEF RegistryType
  <2>4. InfoType'
    BY <1>0, <2>1, <2>2, SetInfoTyped DEF Status
  <2>5. ThreadType'
    BY <1>0, <2>1, <2>2, RunTyped DEF Pcs, ThreadType
  <2>6. LibType' /\ ReportType'
    BY <1>0, <1>1 DEF AddStation, LibType, ReportType, libVars
  <2> QED BY <1>0, <1>1, <2>3, <2>4, <2>5, <2>6, CallTyped, TypePartsNext DEF AddStation
<1>2. CASE RemoveStation(s)
  <2> DEFINE i == connections[s]
             old == connection[i]
  <2>1. i \in Infos /\ old \in Conns \cup {None} /\ status[i] \in Status
    BY <1>0, <1>2 DEF RemoveStation, RegistryType, InfoType
  <2>2. RegistryType'
    BY <1>0, <1>2, <2>1 DEF RemoveStation, RegistryType
  <2>3. InfoType'
    BY <1>0, <1>2, <2>1, SetInfoTyped DEF RemoveStation
  <2>4. LibType'
    BY <1>0, <1>2, <2>1, BeginDestroyTyped DEF RemoveStation
  <2>5. ThreadType'
    <3>1. CASE old = None
      BY <1>0, <1>2, <3>1 DEF RemoveStation, threadVars, ThreadType
    <3>2. CASE old # None
      <4>1. PICK t \in IdleThreads : Run(t, "rm_join", None, old, 0, alias)
        BY <1>2, <3>2 DEF RemoveStation
      <4> QED BY <1>0, <2>1, <4>1, RunTyped
              DEF IdleThreads, Pcs, DestroyPcs, JoinPcs, ThreadType
    <3> QED BY <3>1, <3>2
  <2> QED BY <1>0, <1>2, <2>2, <2>3, <2>4, <2>5, CallTyped, TypePartsNext
          DEF RemoveStation, ReportType
<1>3. CASE DisconnectStation(s)
  <2> DEFINE i == connections[s]
             old == connection[i]
  <2>1. i \in Infos /\ old \in Conns \cup {None}
    BY <1>0, <1>3 DEF DisconnectStation, TakeDown, RegistryType, InfoType
  <2>2. InfoType'
    BY <1>0, <1>3, <2>1, SetInfoTyped DEF DisconnectStation, TakeDown, Status
  <2>3. LibType'
    BY <1>0, <1>3, <2>1, BeginDestroyTyped DEF DisconnectStation, TakeDown
  <2>4. ThreadType'
    <3>1. PICK t \in IdleThreads :
            Run(t, IF old = None THEN "x_pub" ELSE "x_join", i, old, 0, alias)
      BY <1>3 DEF DisconnectStation, TakeDown
    <3> QED BY <1>0, <2>1, <3>1, RunTyped
            DEF IdleThreads, Pcs, DestroyPcs, JoinPcs, ReportPcs, ThreadType
  <2> QED BY <1>0, <1>3, <2>2, <2>3, <2>4, CallTyped, TypePartsNext
          DEF DisconnectStation, TakeDown, ReportType, RegistryType, registry
<1>4. CASE ConnectStation(s)
  <2> DEFINE i == connections[s]
  <2>1. i \in Infos /\ connection[i] \in Conns \cup {None}
    BY <1>0, <1>4 DEF ConnectStation, RegistryType, InfoType
  <2>2. InfoType'
    BY <1>0, <1>4, <2>1, SetInfoTyped DEF ConnectStation, Status
  <2>3. ThreadType'
    <3>1. PICK t \in IdleThreads : Run(t, "c_create", i, None, 0, alias)
      BY <1>4 DEF ConnectStation
    <3>2. None \in Conns \cup {None} /\ i \in Infos \cup {None} /\ 0 \in -1..MaxRetries
      BY <2>1
    <3> QED BY <1>0, <3>1, <3>2, RunTyped DEF IdleThreads, Pcs, ThreadType
  <2>4. ReportType'
    BY <1>0, <1>4, ReportTyped DEF ConnectStation, Status
  <2> QED BY <1>0, <1>4, <2>2, <2>3, <2>4, CallTyped, TypePartsNext
          DEF ConnectStation, LibType, libVars, RegistryType, registry
<1> QED BY <1>1, <1>2, <1>3, <1>4
-----------------------------------------------------------------------------
LEMMA SetStatusTyped ==
  ASSUME InfoType, NEW i \in Infos, NEW s \in Status, SetStatus(i, s)
  PROVE  InfoType'
  BY SetInfoTyped DEF SetStatus, InfoType

LEMMA ReadyTyped ==
  ASSUME RegistryType, OtherType, NEW t, Ready(t)
  PROVE  RegistryType' /\ OtherType'
  BY DEF RegistryType, OtherType, Ready, registry, others

LEMMA KeptTyped ==
  /\ InfoType /\ UNCHANGED infoVars => InfoType'
  /\ LibType /\ UNCHANGED libVars => LibType'
  /\ ThreadType /\ UNCHANGED threadVars => ThreadType'
  /\ ReportType /\ UNCHANGED reported => ReportType'
  BY DEF InfoType, infoVars, LibType, libVars, ThreadType, threadVars, ReportType

LEMMA CommonStepsTyped ==
  ASSUME TypeOK, NEW t \in Threads, ReportStatus(t) \/ DestroyReturns(t)
  PROVE  TypeOK'
<1> USE ConstantsAssumption
<1>0. /\ RegistryType /\ InfoType /\ LibType /\ ThreadType /\ ReportType /\ OtherType
  BY TypeParts
<1>1. CASE ReportStatus(t)
  <2>1. Announced(pc[t]) \in Status /\ AfterReport(pc[t]) \in Pcs
    BY DEF Announced, AfterReport, Status, Pcs
  <2>2. ReportType' /\ ThreadType'
    BY <1>0, <1>1, <2>1, ReportTyped, ContinueTyped DEF ReportStatus
  <2>3. InfoType' /\ LibType'
    BY <1>0, <1>1, KeptTyped DEF ReportStatus, infoVars, libVars
  <2> QED BY <1>0, <1>1, <2>2, <2>3, ReadyTyped, TypePartsNext DEF ReportStatus
<1>2. CASE DestroyReturns(t)
  <2> DEFINE p == AfterDestroy(pc[t], left[t])
             n == IF pc[t] = "r_fail_join" THEN OneLess(left[t]) ELSE left[t]
  <2>1. p \in Pcs
    BY DEF AfterDestroy, Pcs, ReportPcs
  <2>2. left[t] \in -1..MaxRetries
    BY <1>0 DEF ThreadType
  <2>3. n \in -1..MaxRetries
    BY <2>2 DEF OneLess
  <2>4. tinfo[t] \in Infos \cup {None} /\ alias \in SUBSET Threads
    BY <1>0 DEF ThreadType
  <2>5. ThreadType'
    <3>1. CASE p = "idle"
      BY <1>0, <1>2, <3>1, EndTyped DEF DestroyReturns
    <3>2. CASE p # "idle"
      <4>1. Run(t, p, tinfo[t], None, n, alias)
        BY <1>2, <3>2 DEF DestroyReturns
      <4> QED BY <1>0, <2>1, <2>3, <2>4, <4>1, RunTyped
    <3> QED BY <3>1, <3>2
  <2>6. LibType'
    BY <1>0, <1>2, FreeTyped DEF DestroyReturns
  <2>7. InfoType' /\ ReportType'
    BY <1>0, <1>2, KeptTyped DEF DestroyReturns, infoVars
  <2> QED BY <1>0, <1>2, <2>5, <2>6, <2>7, ReadyTyped, TypePartsNext DEF DestroyReturns
<1> QED BY <1>1, <1>2

(* A step of connectThreadFunc.                                            *)
LEMMA ConnectStepsTyped ==
  ASSUME TypeOK, NEW t \in Threads,
         \/ ConnectCreate(t) \/ ConnectDial(t) \/ ConnectReturns(t)
         \/ ConnectStartDT(t) \/ ConnectStatus(t) \/ ConnectFail(t)
         \/ ConnectFailNull(t) \/ ConnectRetry(t)
  PROVE  TypeOK'
<1> USE ConstantsAssumption
<1> DEFINE i == tinfo[t]
<1>0. /\ RegistryType /\ InfoType /\ LibType /\ ThreadType /\ ReportType /\ OtherType
  BY TypeParts
<1>a. i \in Infos \cup {None} /\ alias \in SUBSET Threads /\ 0 \in -1..MaxRetries
  BY <1>0 DEF ThreadType
<1>b. i \in Infos => /\ connection[i] \in Conns \cup {None}
                     /\ status[i] \in Status /\ shouldReconnect[i] \in BOOLEAN
  BY <1>0 DEF InfoType
<1>c. Ready(t) => RegistryType' /\ OtherType'
  BY <1>0, ReadyTyped
<1>1. CASE ConnectCreate(t)
  <2>1. i \in Infos /\ Ready(t)
    BY <1>1, ReadyInfo DEF ConnectCreate, At, ReadsInfo
  <2>2. CASE \E c \in FreshConns : /\ Create(c, i, "idle")
                                   /\ SetInfo(i, c, status[i], shouldReconnect[i])
                                   /\ Continue(t, "c_connect")
    <3>1. PICK c \in FreshConns : /\ Create(c, i, "idle")
                                  /\ SetInfo(i, c, status[i], shouldReconnect[i])
                                  /\ Continue(t, "c_connect")
      BY <2>2
    <3>2. c \in Conns
      BY DEF FreshConns
    <3>3. LibType'
      BY <1>0, <2>1, <3>1, <3>2, CreateTyped DEF LibStates
    <3>4. InfoType'
      BY <1>0, <1>b, <2>1, <3>1, <3>2, SetInfoTyped
    <3>5. ThreadType'
      BY <1>0, <3>1, ContinueTyped DEF Pcs
    <3> QED BY <1>0, <1>1, <1>c, <2>1, <3>3, <3>4, <3>5, KeptTyped, TypePartsNext
            DEF ConnectCreate
  <2>3. CASE /\ SetInfo(i, None, "CONN_ERROR", shouldReconnect[i])
             /\ Continue(t, "c_err_pub")
             /\ UNCHANGED libVars
    <3>1. InfoType'
      BY <1>0, <1>b, <2>1, <2>3, SetInfoTyped DEF Status
    <3>2. ThreadType'
      BY <1>0, <2>3, ContinueTyped DEF Pcs, ReportPcs
    <3> QED BY <1>0, <1>1, <1>c, <2>1, <2>3, <3>1, <3>2, KeptTyped, TypePartsNext
            DEF ConnectCreate
  <2> QED BY <1>1, <2>2, <2>3 DEF ConnectCreate
<1>2. CASE ConnectDial(t)
  <2> DEFINE c == connection[i]
  <2>1. i \in Infos /\ Ready(t)
    BY <1>2, ReadyInfo DEF ConnectDial, At, ReadsInfo
  <2>2. ThreadType'
    <3>1. Run(t, "c_wait", i, c, 0, alias)
      BY <1>2 DEF ConnectDial
    <3> QED BY <1>0, <1>a, <1>b, <2>1, <3>1, RunTyped DEF Pcs
  <2>3. LibType'
    BY <1>0, <1>2 DEF ConnectDial, LibType, LibStates
  <2> QED BY <1>0, <1>2, <1>c, <2>1, <2>2, <2>3, KeptTyped, TypePartsNext
          DEF ConnectDial, infoVars
<1>3. CASE ConnectReturns(t)
  <2>1. ThreadType'
    BY <1>0, <1>3, ContinueTyped DEF ConnectReturns, Pcs
  <2> QED BY <1>0, <1>3, <1>c, <2>1, KeptTyped, TypePartsNext
          DEF ConnectReturns, At, infoVars, libVars
<1>4. CASE ConnectStartDT(t)
  <2>1. ThreadType'
    BY <1>0, <1>4, ContinueTyped DEF ConnectStartDT, Pcs
  <2> QED BY <1>0, <1>4, <1>c, <2>1, KeptTyped, TypePartsNext
          DEF ConnectStartDT, At, infoVars, libVars
<1>5. CASE ConnectStatus(t)
  <2>1. i \in Infos /\ Ready(t)
    BY <1>5, ReadyInfo DEF ConnectStatus, At, ReadsInfo
  <2>2. InfoType'
    BY <1>0, <1>5, <2>1, SetStatusTyped DEF ConnectStatus, Status
  <2>3. ThreadType'
    BY <1>0, <1>5, ContinueTyped DEF ConnectStatus, Pcs, ReportPcs
  <2> QED BY <1>0, <1>5, <1>c, <2>1, <2>2, <2>3, KeptTyped, TypePartsNext
          DEF ConnectStatus, libVars
<1>6. CASE ConnectFail(t)
  <2> DEFINE c == connection[i]
  <2>1. i \in Infos /\ Ready(t)
    BY <1>6, ReadyInfo DEF ConnectFail, At, ReadsInfo
  <2>2. InfoType'
    BY <1>0, <1>6, <2>1, SetStatusTyped DEF ConnectFail, Status
  <2>3. LibType'
    BY <1>0, <1>6, <1>b, <2>1, BeginDestroyTyped DEF ConnectFail
  <2>4. ThreadType'
    <3>1. Run(t, "c_fail_join", i, c, 0, alias)
      BY <1>6 DEF ConnectFail
    <3> QED BY <1>0, <1>a, <1>b, <2>1, <3>1, RunTyped DEF Pcs, DestroyPcs
  <2> QED BY <1>0, <1>6, <1>c, <2>1, <2>2, <2>3, <2>4, KeptTyped, TypePartsNext
          DEF ConnectFail
<1>7. CASE ConnectFailNull(t)
  <2>1. i \in Infos /\ Ready(t)
    BY <1>7, ReadyInfo DEF ConnectFailNull, At, ReadsInfo
  <2>2. InfoType'
    BY <1>0, <1>7, <1>b, <2>1, SetInfoTyped DEF ConnectFailNull
  <2>3. ThreadType'
    BY <1>0, <1>7, ContinueTyped DEF ConnectFailNull, Pcs, ReportPcs
  <2> QED BY <1>0, <1>7, <1>c, <2>1, <2>2, <2>3, KeptTyped, TypePartsNext
          DEF ConnectFailNull, libVars
<1>8. CASE ConnectRetry(t)
  <2>1. ThreadType'
    <3>1. CASE shouldReconnect[i]
      <4>1. Run(t, "r_loop", i, None, MaxRetries, alias \ {t})
        BY <1>8, <3>1 DEF ConnectRetry
      <4>2. MaxRetries \in -1..MaxRetries
        OBVIOUS
      <4> QED BY <1>0, <1>a, <4>1, <4>2, RunTyped DEF Pcs
    <3>2. CASE ~shouldReconnect[i]
      BY <1>0, <1>8, <3>2, EndTyped DEF ConnectRetry
    <3> QED BY <3>1, <3>2
  <2> QED BY <1>0, <1>8, <1>c, <2>1, KeptTyped, TypePartsNext
          DEF ConnectRetry, At, infoVars, libVars
<1> QED BY <1>1, <1>2, <1>3, <1>4, <1>5, <1>6, <1>7, <1>8

(* A step of reconnectThreadFunc.                                          *)
LEMMA RetryStepsTyped ==
  ASSUME TypeOK, NEW t \in Threads,
         \/ RetryLoop(t) \/ RetryWakes(t) \/ RetryStatus(t) \/ RetrySwap(t)
         \/ RetryDial(t) \/ RetryCreateFails(t) \/ RetryReturns(t)
         \/ RetryPublish(t) \/ RetryExit(t) \/ RetryGiveUp(t)
  PROVE  TypeOK'
<1> USE ConstantsAssumption
<1> DEFINE i == tinfo[t]
<1>0. /\ RegistryType /\ InfoType /\ LibType /\ ThreadType /\ ReportType /\ OtherType
  BY TypeParts
<1>a. /\ i \in Infos \cup {None} /\ alias \in SUBSET Threads
      /\ tconn[t] \in Conns \cup {None}
      /\ left[t] \in -1..MaxRetries /\ 0 \in -1..MaxRetries
  BY <1>0 DEF ThreadType
<1>b. i \in Infos => /\ connection[i] \in Conns \cup {None}
                     /\ status[i] \in Status /\ shouldReconnect[i] \in BOOLEAN
  BY <1>0 DEF InfoType
<1>c. Ready(t) => RegistryType' /\ OtherType'
  BY <1>0, ReadyTyped
<1>1. CASE RetryLoop(t)
  <2>1. ThreadType'
    BY <1>0, <1>1, ContinueTyped DEF RetryLoop, Pcs
  <2> QED BY <1>0, <1>1, <1>c, <2>1, KeptTyped, TypePartsNext
          DEF RetryLoop, At, infoVars, libVars
<1>2. CASE RetryWakes(t)
  <2>1. ThreadType'
    BY <1>0, <1>2, ContinueTyped DEF RetryWakes, Pcs
  <2> QED BY <1>0, <1>2, <1>c, <2>1, KeptTyped, TypePartsNext
          DEF RetryWakes, At, infoVars, libVars
<1>3. CASE RetryStatus(t)
  <2>1. i \in Infos /\ Ready(t)
    BY <1>3, ReadyInfo DEF RetryStatus, RetryStatusIs, At, ReadsInfo
  <2>2. InfoType'
    BY <1>0, <1>3, <2>1, SetStatusTyped DEF RetryStatus, RetryStatusIs, Status
  <2>3. ThreadType'
    BY <1>0, <1>3, ContinueTyped DEF RetryStatus, RetryStatusIs, Pcs, ReportPcs
  <2> QED BY <1>0, <1>3, <1>c, <2>1, <2>2, <2>3, KeptTyped, TypePartsNext
          DEF RetryStatus, RetryStatusIs, libVars
<1>4. CASE RetrySwap(t)
  <2> DEFINE old == connection[i]
  <2>1. i \in Infos /\ Ready(t)
    BY <1>4, ReadyInfo DEF RetrySwap, SwapOut, At, ReadsInfo
  <2>2. InfoType'
    BY <1>0, <1>4, <1>b, <2>1, SetInfoTyped DEF RetrySwap, SwapOut
  <2>3. LibType'
    BY <1>0, <1>4, <1>b, <2>1, BeginDestroyTyped DEF RetrySwap, SwapOut
  <2>4. ThreadType'
    <3>1. Run(t, IF old = None THEN "r_create" ELSE "r_join", i, old, left[t], alias)
      BY <1>4 DEF RetrySwap, SwapOut
    <3> QED BY <1>0, <1>a, <1>b, <2>1, <3>1, RunTyped DEF Pcs, DestroyPcs, JoinPcs
  <2> QED BY <1>0, <1>4, <1>c, <2>1, <2>2, <2>3, <2>4, KeptTyped, TypePartsNext
          DEF RetrySwap, SwapOut
<1>5. CASE RetryDial(t)
  <2>1. i \in Infos /\ Ready(t)
    BY <1>5, ReadyInfo DEF RetryDial, DialNew, At, ReadsInfo
  <2>2. PICK c \in FreshConns :
          /\ Create(c, i, "dialing")
          /\ Run(t, "r_wait", i, c, left[t], alias)
          /\ SetInfo(i, connection[i], status[i], shouldReconnect[i])
    BY <1>5 DEF RetryDial, DialNew
  <2>3. c \in Conns
    BY DEF FreshConns
  <2>4. LibType'
    BY <1>0, <2>1, <2>2, <2>3, CreateTyped DEF LibStates
  <2>5. ThreadType'
    BY <1>0, <1>a, <2>2, <2>3, RunTyped DEF Pcs
  <2>6. InfoType'
    BY <1>0, <1>b, <2>1, <2>2, SetInfoTyped
  <2> QED BY <1>0, <1>5, <1>c, <2>1, <2>4, <2>5, <2>6, KeptTyped, TypePartsNext
          DEF RetryDial, DialNew
<1>6. CASE RetryCreateFails(t)
  <2>1. OneLess(left[t]) \in -1..MaxRetries
    BY <1>a DEF OneLess
  <2>2. ThreadType'
    BY <1>0, <1>6, <1>a, <2>1, RunTyped DEF RetryCreateFails, Pcs
  <2> QED BY <1>0, <1>6, <1>c, <2>2, KeptTyped, TypePartsNext
          DEF RetryCreateFails, At, infoVars, libVars
<1>7. CASE RetryReturns(t)
  <2>1. ThreadType'
    BY <1>0, <1>7, <1>a, RunTyped DEF RetryReturns, Pcs, DestroyPcs, JoinPcs
  <2>2. LibType'
    BY <1>0, <1>7, <1>a, BeginDestroyTyped, KeptTyped DEF RetryReturns
  <2> QED BY <1>0, <1>7, <1>c, <2>1, <2>2, KeptTyped, TypePartsNext
          DEF RetryReturns, At, infoVars
<1>8. CASE RetryPublish(t)
  <2>1. i \in Infos /\ Ready(t)
    BY <1>8, ReadyInfo DEF RetryPublish, Publish, At, ReadsInfo
  <2>2. InfoType'
    BY <1>0, <1>8, <1>a, <1>b, <2>1, SetInfoTyped DEF RetryPublish, Publish, Status
  <2>3. ThreadType'
    BY <1>0, <1>8, <1>a, RunTyped DEF RetryPublish, Publish, Pcs, ReportPcs
  <2> QED BY <1>0, <1>8, <1>c, <2>1, <2>2, <2>3, KeptTyped, TypePartsNext
          DEF RetryPublish, Publish, libVars
<1>9. CASE RetryExit(t)
  <2>1. ThreadType'
    BY <1>0, <1>9, ContinueTyped DEF RetryExit, Pcs
  <2> QED BY <1>0, <1>9, <1>c, <2>1, KeptTyped, TypePartsNext
          DEF RetryExit, At, infoVars, libVars
<1>10. CASE RetryGiveUp(t)
  <2>1. i \in Infos /\ Ready(t)
    BY <1>10, ReadyInfo DEF RetryGiveUp, GiveUpWith, At, ReadsInfo
  <2>2. InfoType'
    BY <1>0, <1>10, <2>1, SetStatusTyped DEF RetryGiveUp, GiveUpWith, Status
  <2>3. ThreadType'
    BY <1>0, <1>10, ContinueTyped DEF RetryGiveUp, GiveUpWith, Pcs, ReportPcs
  <2> QED BY <1>0, <1>10, <1>c, <2>1, <2>2, <2>3, KeptTyped, TypePartsNext
          DEF RetryGiveUp, GiveUpWith, libVars
<1> QED BY <1>1, <1>2, <1>3, <1>4, <1>5, <1>6, <1>7, <1>8, <1>9, <1>10

(* A step of a handle's own thread.                                        *)
LEMMA LibStepsTyped ==
  ASSUME TypeOK, NEW c \in Conns,
         DialSucceeds(c) \/ DialFails(c) \/ SessionEnds(c) \/ ConnectionHandler(c)
  PROVE  TypeOK'
<1> USE ConstantsAssumption
<1> DEFINE i == param[c]
<1>0. /\ RegistryType /\ InfoType /\ LibType /\ ThreadType /\ ReportType /\ OtherType
  BY TypeParts
<1>a. i \in Infos \cup {None} /\ took[c] \in Conns \cup {None} /\ again[c] \in BOOLEAN
  BY <1>0 DEF LibType
<1>b. i \in Infos => /\ connection[i] \in Conns \cup {None}
                     /\ status[i] \in Status /\ shouldReconnect[i] \in BOOLEAN
  BY <1>0 DEF InfoType
<1>c. ASSUME NEW from \in LibStates, NEW to \in LibStates, LibStep(c, from, to)
      PROVE  /\ RegistryType'
             /\ lib' \in [Conns -> LibStates] /\ param' \in [Conns -> Infos \cup {None}]
             /\ UNCHANGED <<dtor, victim, todo, commands, fault>>
  BY <1>0, <1>c DEF LibStep, RegistryType, LibType, registry
<1>d. ASSUME UNCHANGED <<dtor, victim, todo, commands, fault>>, drops' \in 0..MaxDrops
      PROVE  OtherType'
  BY <1>0, <1>d DEF OtherType
<1>e. drops \in 0..MaxDrops
  BY <1>0 DEF OtherType
<1>f. live \subseteq Infos
  BY <1>0 DEF RegistryType
<1>1. CASE DialSucceeds(c) \/ DialFails(c) \/ SessionEnds(c)
  <2>1. PICK from \in LibStates, to \in LibStates : LibOnly(c, from, to)
    BY <1>1 DEF DialSucceeds, DialFails, SessionEnds, LibStates
  <2>2. drops' \in 0..MaxDrops
    BY <1>1, <1>e DEF DialSucceeds, DialFails, SessionEnds
  <2>3. LibType'
    BY <1>0, <1>c, <2>1 DEF LibOnly, LibType
  <2> QED BY <1>0, <1>c, <1>d, <2>1, <2>2, <2>3, KeptTyped, TypePartsNext DEF LibOnly
<1>2. CASE OpenedHandler(c)
  <2>1. i \in Infos /\ Handler(c, "opened", "opened_cb")
    BY <1>2, <1>f DEF OpenedHandler, Handler
  <2>2. InfoType'
    BY <1>0, <1>2, <2>1, SetStatusTyped DEF OpenedHandler, Status
  <2>3. RegistryType' /\ OtherType' /\ LibType'
    BY <1>0, <1>2, <1>c, <1>d, <1>e, <2>1 DEF OpenedHandler, Handler, LibStates, LibType
  <2> QED BY <1>0, <2>1, <2>2, <2>3, KeptTyped, TypePartsNext DEF Handler
<1>3. CASE FailedHandler(c)
  <2>1. i \in Infos /\ Handler(c, "failed", "failed_cb")
    BY <1>3, <1>f DEF FailedHandler, Handler
  <2>2. InfoType'
    BY <1>0, <1>3, <2>1, SetStatusTyped DEF FailedHandler, Status
  <2>3. RegistryType' /\ OtherType' /\ LibType'
    BY <1>0, <1>3, <1>c, <1>d, <1>e, <2>1 DEF FailedHandler, Handler, LibStates, LibType
  <2> QED BY <1>0, <2>1, <2>2, <2>3, KeptTyped, TypePartsNext DEF Handler
<1>4. CASE ClosedHandler(c)
  <2>1. i \in Infos /\ Handler(c, "closed", "closed_cb")
    BY <1>4, <1>f DEF ClosedHandler, Handler
  <2>2. InfoType'
    BY <1>0, <1>4, <1>b, <2>1, SetInfoTyped DEF ClosedHandler, Status
  <2>3. took' \in [Conns -> Conns \cup {None}] /\ again' \in [Conns -> BOOLEAN]
    BY <1>0, <1>4, <1>b, <2>1 DEF ClosedHandler, LibType
  <2>4. RegistryType' /\ OtherType' /\ LibType'
    BY <1>0, <1>c, <1>d, <1>e, <2>1, <2>3 DEF Handler, LibStates, LibType
  <2> QED BY <1>0, <2>1, <2>2, <2>4, KeptTyped, TypePartsNext DEF Handler
<1>5. CASE OpenedReport(c)
  <2>1. HandlerReport(c, "opened_cb", "up", "CONNECTED")
    BY <1>5 DEF OpenedReport
  <2>2. RegistryType' /\ OtherType' /\ LibType'
    BY <1>0, <1>5, <1>c, <1>d, <1>e, <2>1 DEF OpenedReport, HandlerReport, LibStates, LibType
  <2>3. ReportType'
    BY <1>0, <2>1, ReportTyped DEF HandlerReport, Status
  <2> QED BY <1>0, <1>5, <2>1, <2>2, <2>3, KeptTyped, TypePartsNext DEF OpenedReport, HandlerReport
<1>6. CASE FailedReport(c)
  <2>1. HandlerReport(c, "failed_cb", "gone", "CONN_ERROR")
    BY <1>6 DEF FailedReport
  <2>2. RegistryType' /\ OtherType' /\ LibType'
    BY <1>0, <1>6, <1>c, <1>d, <1>e, <2>1 DEF FailedReport, HandlerReport, LibStates, LibType
  <2>3. ReportType'
    BY <1>0, <2>1, ReportTyped DEF HandlerReport, Status
  <2> QED BY <1>0, <1>6, <2>1, <2>2, <2>3, KeptTyped, TypePartsNext DEF FailedReport, HandlerReport
<1>7. CASE ClosedReport(c)
  <2> DEFINE old == took[c]
             n == IF again[c] THEN DropRetries ELSE 0
  <2>1. HandlerReport(c, "closed_cb", "ended", "DISCONNECTED")
    BY <1>7 DEF ClosedReport
  <2>2. closing' \in [Conns -> BOOLEAN]
    BY <1>0, <1>7, <1>a DEF ClosedReport, LibType
  <2>3. took' \in [Conns -> Conns \cup {None}] /\ again' \in [Conns -> BOOLEAN]
    BY <1>0, <1>7 DEF ClosedReport, LibType
  <2>4. RegistryType' /\ OtherType' /\ LibType'
    BY <1>0, <1>c, <1>d, <1>e, <2>1, <2>2, <2>3 DEF HandlerReport, LibStates, LibType
  <2>5. ReportType'
    BY <1>0, <2>1, ReportTyped DEF HandlerReport, Status
  <2>6. ThreadType'
    <3>1. CASE old = None /\ n = 0
      BY <1>0, <1>7, <3>1, KeptTyped DEF ClosedReport
    <3>2. CASE ~(old = None /\ n = 0)
      <4>1. PICK t \in IdleThreads :
              Run(t, IF old = None THEN "r_loop" ELSE "d_join", i, old, n, alias)
        BY <1>7, <3>2 DEF ClosedReport
      <4>2. n \in -1..MaxRetries /\ alias \in SUBSET Threads
        BY <1>0 DEF DropRetries, ThreadType
      <4> QED BY <1>0, <1>a, <4>1, <4>2, RunTyped
              DEF IdleThreads, Pcs, DestroyPcs, JoinPcs
    <3> QED BY <3>1, <3>2
  <2> QED BY <1>0, <2>1, <2>4, <2>5, <2>6, KeptTyped, TypePartsNext DEF HandlerReport
<1> QED BY <1>1, <1>2, <1>3, <1>4, <1>5, <1>6, <1>7 DEF ConnectionHandler

LEMMA DestructorTyped ==
  ASSUME TypeOK, DestructorStarts \/ Destructor
  PROVE  TypeOK'
<1> USE ConstantsAssumption
<1>0. /\ RegistryType /\ InfoType /\ LibType /\ ThreadType /\ ReportType /\ OtherType
  BY TypeParts
<1>a. DtorStep => InfoType' /\ ThreadType' /\ ReportType'
  BY <1>0, KeptTyped DEF DtorStep
<1>1. CASE DestructorStarts
  <2>1. RegistryType' /\ LibType' /\ OtherType'
    BY <1>0, <1>1, KeptTyped DEF DestructorStarts, DtorStep, RegistryType, OtherType
  <2> QED BY <1>1, <1>a, <2>1, TypePartsNext DEF DestructorStarts
<1>2. ASSUME NEW s \in Stations, DestructorDestroys(s)
      PROVE  TypeOK'
  <2>1. victim' \in Conns \cup {None}
    BY <1>0, <1>2 DEF DestructorDestroys, RegistryType, InfoType
  <2>2. LibType'
    BY <1>0, <1>2, <2>1 DEF DestructorDestroys, BeginDestroy, LibType
  <2>3. RegistryType' /\ OtherType'
    BY <1>0, <1>2, <2>1 DEF DestructorDestroys, DtorStep, RegistryType, OtherType
  <2> QED BY <1>2, <1>a, <2>2, <2>3, TypePartsNext DEF DestructorDestroys
<1>3. CASE DestructorJoins
  <2>1. RegistryType' /\ OtherType'
    BY <1>0, <1>3 DEF DestructorJoins, DtorStep, RegistryType, OtherType
  <2>2. LibType'
    BY <1>0, <1>3, FreeTyped DEF DestructorJoins
  <2> QED BY <1>3, <1>a, <2>1, <2>2, TypePartsNext DEF DestructorJoins
<1>4. CASE DestructorEnds
  <2>1. RegistryType' /\ LibType' /\ OtherType'
    BY <1>0, <1>4, KeptTyped DEF DestructorEnds, DtorStep, RegistryType, OtherType
  <2> QED BY <1>4, <1>a, <2>1, TypePartsNext DEF DestructorEnds
<1> QED BY <1>1, <1>2, <1>3, <1>4 DEF Destructor

(* Every variable has its type in every reachable state.                   *)
THEOREM TypeCorrect == Spec => []TypeOK
<1>1. Init => TypeOK
  BY ConstantsAssumption DEF Init, TypeOK, Status, LibStates, Pcs
<1>2. TypeOK /\ [Next]_vars => TypeOK'
  <2> SUFFICES ASSUME TypeOK, [Next]_vars PROVE TypeOK'
    OBVIOUS
  <2>1. ASSUME NEW t \in Threads, ThreadStep(t) PROVE TypeOK'
    BY <2>1, CommonStepsTyped, ConnectStepsTyped, RetryStepsTyped DEF ThreadStep
  <2>2. CASE UndefinedBehaviour
    BY <2>2 DEF UndefinedBehaviour, TypeOK, Faults, registry, infoVars, libVars, threadVars
  <2>3. CASE UNCHANGED vars
    BY <2>3 DEF vars, TypeOK, registry, infoVars, libVars, threadVars, others
  <2> QED BY <2>1, <2>2, <2>3, OperationsTyped, LibStepsTyped, DestructorTyped DEF Next
<1> QED BY <1>1, <1>2, PTL DEF Spec
-----------------------------------------------------------------------------
(* A handle that reconnectThreadFunc dials is referred to by nothing else. *)
(* This strengthens DialIsPrivate into an inductive invariant: a handle    *)
(* that only its thread can name can be destroyed only by its thread.      *)
Private(t) ==
    /\ tconn[t] # None
    /\ lib[tconn[t]] \notin {"free", "idle"}
    /\ ~closing[tconn[t]]
    /\ \A u \in Threads \ {t} : tconn[u] # tconn[t]
    /\ \A i \in Infos : connection[i] # tconn[t]
    /\ \A c \in Conns : took[c] # tconn[t]
    /\ victim # tconn[t]
DialsAlone == \A t \in Threads : pc[t] \in {"r_wait", "r_publish"} => Private(t)

OwnerInv == TypeOK /\ HandlesApart /\ DialsAlone

(* The part of TypeOK that says which variable is a function on what.      *)
RefTypes == /\ connection \in [Infos -> Conns \cup {None}]
            /\ took \in [Conns -> Conns \cup {None}]
            /\ tconn \in [Threads -> Conns \cup {None}]
            /\ pc \in [Threads -> Pcs]
            /\ lib \in [Conns -> LibStates]
            /\ closing \in [Conns -> BOOLEAN]
LEMMA TypeOKRefs == TypeOK => RefTypes
  BY DEF TypeOK, RefTypes

(* Where a step may move a reference.  t goes to p with handle c.          *)
Moves(t, p, c) == /\ pc' = [pc EXCEPT ![t] = p]
                  /\ tconn' = [tconn EXCEPT ![t] = c]
OwnPcs == JoinPcs \cup {"r_wait", "r_publish"}
(* No handle becomes free or idle or starts to be destroyed but those in S. *)
OnlyTouches(S) == \A c \in Conns \ S :
                     /\ lib'[c] \in {"free", "idle"} => lib[c] \in {"free", "idle"}
                     /\ closing'[c] => closing[c]

(* t takes a step that leaves references alone, or borrows info->connection. *)
LEMMA StepBorrows ==
  ASSUME RefTypes, HandlesApart, DialsAlone, NEW t \in Threads, NEW p,
         p \notin OwnPcs, NEW c, c = None \/ \E i \in Infos : c = connection[i],
         Moves(t, p, c), UNCHANGED <<took, victim>>,
         connection' = connection \/ \E j \in Infos : connection' = [connection EXCEPT ![j] = None],
         NEW S, OnlyTouches(S), \A u \in Threads \ {t} : pc[u] \in {"r_wait", "r_publish"} => tconn[u] \notin S
  PROVE  HandlesApart' /\ DialsAlone'
<1>1. HandlesApart'
  BY DEF RefTypes, HandlesApart, Owns, Moves, OwnPcs
<1>2. DialsAlone'
  BY DEF RefTypes, DialsAlone, Private, Moves, OwnPcs, OnlyTouches
<1> QED BY <1>1, <1>2

(* t takes the handle out of info->connection in order to destroy it.      *)
LEMMA StepTakes ==
  ASSUME RefTypes, HandlesApart, DialsAlone, NEW t \in Threads, NEW p \in JoinPcs,
         NEW j \in Infos, connection[j] # None, Moves(t, p, connection[j]),
         connection' = [connection EXCEPT ![j] = None],
         UNCHANGED <<took, victim>>, OnlyTouches({connection[j]})
  PROVE  HandlesApart' /\ DialsAlone'
<1>1. HandlesApart'
  BY DEF RefTypes, HandlesApart, Owns, Moves, OwnPcs, JoinPcs
<1>2. DialsAlone'
  BY DEF RefTypes, DialsAlone, Private, Moves, OwnPcs, JoinPcs, OnlyTouches
<1> QED BY <1>1, <1>2

(* A fresh handle is in nobody's hands.                                    *)
LEMMA FreshUnowned ==
  ASSUME NEW c \in FreshConns
  PROVE  /\ c \in Conns /\ lib[c] = "free" /\ victim # c
         /\ \A i \in Infos : connection[i] # c
         /\ \A t \in Threads : tconn[t] # c
         /\ \A d \in Conns : took[d] # c
  BY DEF FreshConns

(* How the helpers move references.                                        *)
LEMMA RunMoves ==
  ASSUME NEW t, NEW p, NEW i, NEW c, NEW n, NEW refs, Run(t, p, i, c, n, refs)
  PROVE  Moves(t, p, c)
  BY DEF Run, Moves
LEMMA ContinueMoves ==
  ASSUME NEW t, NEW p, Continue(t, p)
  PROVE  Moves(t, p, None)
  BY DEF Continue, End, Run, Moves
LEMMA BeginDestroyTouches ==
  ASSUME RefTypes, NEW c \in Conns \cup {None}, BeginDestroy(c)
  PROVE  OnlyTouches({c}) /\ UNCHANGED took
  BY DEF RefTypes, BeginDestroy, OnlyTouches
LEMMA FreeTouches ==
  ASSUME RefTypes, NEW c, Free(c)
  PROVE  OnlyTouches({c}) /\ UNCHANGED took
  BY DEF RefTypes, Free, OnlyTouches
LEMMA LibKept ==
  ASSUME UNCHANGED libVars
  PROVE  OnlyTouches({}) /\ UNCHANGED took
  BY DEF libVars, OnlyTouches

LEMMA OperationsOwn ==
  ASSUME OwnerInv, NEW s \in Stations,
         AddStation(s) \/ RemoveStation(s) \/ DisconnectStation(s) \/ ConnectStation(s)
  PROVE  HandlesApart' /\ DialsAlone'
<1> USE ConstantsAssumption
<1>0. RefTypes /\ HandlesApart /\ DialsAlone
  BY TypeOKRefs DEF OwnerInv
<1>a. connections \in [Stations -> Infos \cup {None}]
  BY DEF OwnerInv, TypeOK
<1>b. \A op : Call(op) => UNCHANGED victim
  BY DEF Call
<1>1. CASE AddStation(s)
  <2>1. PICK i \in FreshInfos, t \in IdleThreads :
          /\ SetInfo(i, None, "CONNECTING", TRUE)
          /\ Run(t, "c_create", i, None, 0, alias \cup {t})
    BY <1>1 DEF AddStation
  <2>2. /\ i \in Infos /\ t \in Threads
        /\ connection' = [connection EXCEPT ![i] = None]
        /\ Moves(t, "c_create", None)
    BY <2>1, RunMoves DEF FreshInfos, IdleThreads, SetInfo
  <2>3. OnlyTouches({}) /\ UNCHANGED <<took, victim>>
    BY <1>1, <1>b, LibKept DEF AddStation
  <2>4. "c_create" \notin OwnPcs
    BY DEF OwnPcs, JoinPcs
  <2> QED BY <1>0, <2>2, <2>3, <2>4, StepBorrows
<1>2. CASE RemoveStation(s)
  <2> DEFINE i == connections[s]
             old == connection[i]
  <2>1. /\ i \in Infos /\ old \in Conns \cup {None} /\ UNCHANGED victim
        /\ BeginDestroy(old)
        /\ connection' = [connection EXCEPT ![i] = None]
    BY <1>0, <1>2, <1>a, <1>b DEF RemoveStation, RefTypes, SetInfo
  <2>2. OnlyTouches({old}) /\ UNCHANGED took
    BY <1>0, <2>1, BeginDestroyTouches
  <2>3. CASE old # None
    <3>1. PICK t \in IdleThreads : Run(t, "rm_join", None, old, 0, alias)
      BY <1>2, <2>3 DEF RemoveStation
    <3> QED BY <1>0, <2>1, <2>2, <2>3, <3>1, RunMoves, StepTakes DEF IdleThreads, JoinPcs
  <2>4. CASE old = None
    <3>1. UNCHANGED <<pc, tconn>> /\ connection' = connection
      BY <1>0, <1>2, <2>1, <2>4 DEF RemoveStation, threadVars, RefTypes
    <3>2. OnlyTouches({})
      BY <2>2, <2>4 DEF OnlyTouches
    <3>3. HandlesApart'
      BY <1>0, <2>2, <3>1 DEF HandlesApart, Owns
    <3>4. DialsAlone'
      BY <1>0, <2>1, <2>2, <3>1, <3>2 DEF RefTypes, DialsAlone, Private, OnlyTouches
    <3> QED BY <3>3, <3>4
  <2> QED BY <2>3, <2>4
<1>3. CASE DisconnectStation(s)
  <2> DEFINE i == connections[s]
             old == connection[i]
  <2>1. /\ i \in Infos /\ old \in Conns \cup {None} /\ UNCHANGED victim
        /\ BeginDestroy(old)
        /\ connection' = [connection EXCEPT ![i] = None]
    BY <1>0, <1>3, <1>a, <1>b DEF DisconnectStation, TakeDown, RefTypes, SetInfo
  <2>2. OnlyTouches({old}) /\ UNCHANGED took
    BY <1>0, <2>1, BeginDestroyTouches
  <2>3. PICK t \in IdleThreads :
          Run(t, IF old = None THEN "x_pub" ELSE "x_join", i, old, 0, alias)
    BY <1>3 DEF DisconnectStation, TakeDown
  <2>4. t \in Threads /\ Moves(t, IF old = None THEN "x_pub" ELSE "x_join", old)
    BY <2>3, RunMoves DEF IdleThreads
  <2>5. CASE old # None
    BY <1>0, <2>1, <2>2, <2>4, <2>5, StepTakes DEF JoinPcs
  <2>6. CASE old = None
    <3>1. OnlyTouches({})
      BY <2>2, <2>6 DEF OnlyTouches
    <3>2. "x_pub" \notin OwnPcs
      BY DEF OwnPcs, JoinPcs
    <3> QED BY <1>0, <2>1, <2>2, <2>4, <2>6, <3>1, <3>2, StepBorrows
  <2> QED BY <2>5, <2>6
<1>4. CASE ConnectStation(s)
  <2>1. PICK t \in IdleThreads : Run(t, "c_create", connections[s], None, 0, alias)
    BY <1>4 DEF ConnectStation
  <2>2. t \in Threads /\ Moves(t, "c_create", None) /\ connections[s] \in Infos
    BY <1>4, <1>a, <2>1, RunMoves DEF IdleThreads, ConnectStation
  <2>3. connection' = connection
    BY <1>0, <1>4 DEF ConnectStation, SetInfo, RefTypes
  <2>4. OnlyTouches({}) /\ UNCHANGED <<took, victim>>
    BY <1>4, <1>b, LibKept DEF ConnectStation
  <2>5. "c_create" \notin OwnPcs
    BY DEF OwnPcs, JoinPcs
  <2> QED BY <1>0, <2>2, <2>3, <2>4, <2>5, StepBorrows
<1> QED BY <1>1, <1>2, <1>3, <1>4

(* A step of thread t that keeps or clears info->connection and holds no   *)
(* handle of its own afterwards.                                           *)
LEMMA PlainStepsOwn ==
  ASSUME OwnerInv, NEW t \in Threads,
         \/ ReportStatus(t) \/ ConnectReturns(t) \/ ConnectStartDT(t)
         \/ ConnectStatus(t) \/ ConnectFailNull(t) \/ ConnectRetry(t)
         \/ RetryLoop(t) \/ RetryWakes(t) \/ RetryStatus(t)
         \/ RetryCreateFails(t) \/ RetryExit(t) \/ RetryGiveUp(t)
  PROVE  HandlesApart' /\ DialsAlone'
<1>0. RefTypes /\ HandlesApart /\ DialsAlone
  BY TypeOKRefs DEF OwnerInv
<1>1. Ready(t) /\ UNCHANGED victim
  BY DEF ReportStatus, ConnectReturns, ConnectStartDT, ConnectStatus,
         ConnectFailNull, ConnectRetry, RetryLoop, RetryWakes, RetryStatus, RetryStatusIs,
         RetryCreateFails, RetryExit, RetryGiveUp, GiveUpWith, At, Ready, others
<1>2. UNCHANGED libVars
  BY DEF ReportStatus, ConnectReturns, ConnectStartDT, ConnectStatus,
         ConnectFailNull, ConnectRetry, RetryLoop, RetryWakes, RetryStatus, RetryStatusIs,
         RetryCreateFails, RetryExit, RetryGiveUp, GiveUpWith, libVars
<1>3. \E p : p \notin OwnPcs /\ Moves(t, p, None)
  <2> USE DEF OwnPcs, JoinPcs
  <2>1. CASE ReportStatus(t)
    <3>1. AfterReport(pc[t]) \notin OwnPcs
      BY DEF AfterReport
    <3> QED BY <2>1, <3>1, ContinueMoves DEF ReportStatus
  <2>2. CASE ConnectReturns(t)
    <3>1. Continue(t, "c_startdt") \/ Continue(t, "c_fail")
      BY <2>2 DEF ConnectReturns
    <3> QED BY <3>1, ContinueMoves
  <2>3. CASE ConnectStartDT(t)
    BY <2>3, ContinueMoves DEF ConnectStartDT
  <2>4. CASE ConnectStatus(t)
    BY <2>4, ContinueMoves DEF ConnectStatus
  <2>5. CASE ConnectFailNull(t)
    BY <2>5, ContinueMoves DEF ConnectFailNull
  <2>6. CASE ConnectRetry(t)
    <3>1. Run(t, "r_loop", tinfo[t], None, MaxRetries, alias \ {t}) \/ End(t)
      BY <2>6 DEF ConnectRetry
    <3> QED BY <3>1, RunMoves DEF End
  <2>7. CASE RetryLoop(t)
    <3>1. Continue(t, "r_sleep") \/ Continue(t, "r_exit")
      BY <2>7 DEF RetryLoop
    <3> QED BY <3>1, ContinueMoves
  <2>8. CASE RetryWakes(t)
    <3>1. Continue(t, "r_status") \/ Continue(t, "r_exit")
      BY <2>8 DEF RetryWakes
    <3> QED BY <3>1, ContinueMoves
  <2>9. CASE RetryStatus(t)
    BY <2>9, ContinueMoves DEF RetryStatus, RetryStatusIs
  <2>10. CASE RetryCreateFails(t)
    BY <2>10, RunMoves DEF RetryCreateFails
  <2>11. CASE RetryExit(t)
    <3>1. Continue(t, "r_giveup") \/ Continue(t, "idle")
      BY <2>11 DEF RetryExit
    <3> QED BY <3>1, ContinueMoves
  <2>12. CASE RetryGiveUp(t)
    BY <2>12, ContinueMoves DEF RetryGiveUp, GiveUpWith
  <2> QED BY <2>1, <2>2, <2>3, <2>4, <2>5, <2>6, <2>7, <2>8, <2>9, <2>10, <2>11, <2>12
<1>4. connection' = connection \/ \E j \in Infos : connection' = [connection EXCEPT ![j] = None]
  <2>1. CASE ConnectStatus(t) \/ RetryStatus(t) \/ RetryGiveUp(t) \/ ConnectFailNull(t)
    <3>1. tinfo[t] \in Infos
      BY <1>1, <2>1, ReadyInfo DEF OwnerInv, ConnectStatus, RetryStatus, RetryStatusIs, RetryGiveUp,
             GiveUpWith, ConnectFailNull, At, ReadsInfo
    <3> QED BY <1>0, <2>1, <3>1 DEF ConnectStatus, RetryStatus, RetryStatusIs, RetryGiveUp,
               GiveUpWith, ConnectFailNull, SetStatus, SetInfo, RefTypes
  <2>2. CASE UNCHANGED infoVars
    BY <2>2 DEF infoVars
  <2> QED BY <2>1, <2>2
          DEF ReportStatus, ConnectReturns, ConnectStartDT, ConnectRetry,
              RetryLoop, RetryWakes, RetryCreateFails, RetryExit
<1> QED BY <1>0, <1>1, <1>2, <1>3, <1>4, LibKept, StepBorrows

(* The steps of a thread that create, take, publish or free a handle.      *)
LEMMA HandleStepsOwn ==
  ASSUME OwnerInv, NEW t \in Threads,
         \/ DestroyReturns(t) \/ ConnectCreate(t) \/ ConnectDial(t) \/ ConnectFail(t)
         \/ RetrySwap(t) \/ RetryDial(t) \/ RetryReturns(t) \/ RetryPublish(t)
  PROVE  HandlesApart' /\ DialsAlone'
<1> USE ConstantsAssumption
<1> DEFINE i == tinfo[t]
<1>0. RefTypes /\ HandlesApart /\ DialsAlone
  BY TypeOKRefs DEF OwnerInv
<1>a. Ready(t) => UNCHANGED victim
  BY DEF Ready, others
<1>b. Ready(t) /\ ReadsInfo(t) => i \in Infos /\ connection[i] \in Conns \cup {None}
  BY <1>0, ReadyInfo DEF OwnerInv, RefTypes
<1>1. CASE DestroyReturns(t)
  <2>1. OnlyTouches({tconn[t]}) /\ UNCHANGED <<took, victim>>
    BY <1>0, <1>1, <1>a, FreeTouches DEF DestroyReturns
  <2>2. \E p : p \notin OwnPcs /\ Moves(t, p, None)
    <3> DEFINE p == AfterDestroy(pc[t], left[t])
               n == IF pc[t] = "r_fail_join" THEN OneLess(left[t]) ELSE left[t]
    <3>1. End(t) \/ Run(t, p, i, None, n, alias)
      BY <1>1 DEF DestroyReturns
    <3>2. p \notin OwnPcs /\ "idle" \notin OwnPcs
      BY DEF AfterDestroy, OwnPcs, JoinPcs
    <3> QED BY <3>1, <3>2, RunMoves DEF End
  <2>3. \A u \in Threads \ {t} : pc[u] \in {"r_wait", "r_publish"} => tconn[u] \notin {tconn[t]}
    BY <1>0 DEF DialsAlone, Private
  <2>4. connection' = connection
    BY <1>1 DEF DestroyReturns, infoVars
  <2> QED BY <1>0, <2>1, <2>2, <2>3, <2>4, StepBorrows
<1>2. CASE ConnectCreate(t)
  <2>1. i \in Infos /\ UNCHANGED victim
    BY <1>2, <1>a, <1>b DEF ConnectCreate, At, ReadsInfo
  <2>2. CASE \E c \in FreshConns : /\ Create(c, i, "idle")
                                   /\ SetInfo(i, c, status[i], shouldReconnect[i])
                                   /\ Continue(t, "c_connect")
    <3>1. PICK c \in FreshConns : /\ Create(c, i, "idle")
                                  /\ SetInfo(i, c, status[i], shouldReconnect[i])
                                  /\ Continue(t, "c_connect")
      BY <2>2
    <3>2. /\ Moves(t, "c_connect", None) /\ UNCHANGED took
          /\ closing' = [closing EXCEPT ![c] = FALSE]
          /\ connection' = [connection EXCEPT ![i] = c]
          /\ lib' = [lib EXCEPT ![c] = "idle"]
      BY <3>1, ContinueMoves DEF SetInfo, Create
    <3>3. HandlesApart'
      BY <1>0, <2>1, <3>2, FreshUnowned DEF RefTypes, HandlesApart, Owns, Moves, JoinPcs
    <3>4. DialsAlone'
      BY <1>0, <2>1, <3>2, FreshUnowned DEF RefTypes, DialsAlone, Private, Moves
    <3> QED BY <3>3, <3>4
  <2>3. CASE /\ SetInfo(i, None, "CONN_ERROR", shouldReconnect[i])
             /\ Continue(t, "c_err_pub")
             /\ UNCHANGED libVars
    <3>1. "c_err_pub" \notin OwnPcs
      BY DEF OwnPcs, JoinPcs
    <3>2. connection' = [connection EXCEPT ![i] = None]
      BY <2>3 DEF SetInfo
    <3> QED BY <1>0, <2>1, <2>3, <3>1, <3>2, ContinueMoves, LibKept, StepBorrows
  <2> QED BY <1>2, <2>2, <2>3 DEF ConnectCreate
<1>3. CASE ConnectDial(t)
  <2>1. i \in Infos /\ UNCHANGED victim
    BY <1>3, <1>a, <1>b DEF ConnectDial, At, ReadsInfo
  <2>2. Moves(t, "c_wait", connection[i]) /\ "c_wait" \notin OwnPcs
    BY <1>3, RunMoves DEF ConnectDial, OwnPcs, JoinPcs
  <2>3. OnlyTouches({}) /\ UNCHANGED <<took, connection>>
    BY <1>0, <1>3 DEF ConnectDial, OnlyTouches, infoVars, RefTypes
  <2> QED BY <1>0, <2>1, <2>2, <2>3, StepBorrows
<1>4. CASE ConnectFail(t)
  <2> DEFINE c == connection[i]
  <2>1. i \in Infos /\ c \in Conns \cup {None} /\ UNCHANGED victim
    BY <1>4, <1>a, <1>b DEF ConnectFail, At, ReadsInfo
  <2>2. Moves(t, "c_fail_join", c) /\ "c_fail_join" \notin OwnPcs
    BY <1>4, RunMoves DEF ConnectFail, OwnPcs, JoinPcs
  <2>3. OnlyTouches({c}) /\ UNCHANGED took
    BY <1>0, <1>4, <2>1, BeginDestroyTouches DEF ConnectFail
  <2>4. connection' = connection
    BY <1>0, <1>4, <2>1 DEF ConnectFail, SetStatus, SetInfo, RefTypes
  <2>5. \A u \in Threads \ {t} : pc[u] \in {"r_wait", "r_publish"} => tconn[u] \notin {c}
    BY <1>0, <2>1 DEF DialsAlone, Private
  <2> QED BY <1>0, <2>1, <2>2, <2>3, <2>4, <2>5, StepBorrows
<1>5. CASE RetrySwap(t)
  <2> DEFINE old == connection[i]
  <2>1. i \in Infos /\ old \in Conns \cup {None} /\ UNCHANGED victim
    BY <1>5, <1>a, <1>b DEF RetrySwap, SwapOut, At, ReadsInfo
  <2>2. OnlyTouches({old}) /\ UNCHANGED took
    BY <1>0, <1>5, <2>1, BeginDestroyTouches DEF RetrySwap, SwapOut
  <2>3. connection' = [connection EXCEPT ![i] = None]
    BY <1>5 DEF RetrySwap, SwapOut, SetInfo
  <2>4. Moves(t, IF old = None THEN "r_create" ELSE "r_join", old)
    BY <1>5, RunMoves DEF RetrySwap, SwapOut
  <2>5. CASE old # None
    BY <1>0, <2>1, <2>2, <2>3, <2>4, <2>5, StepTakes DEF JoinPcs
  <2>6. CASE old = None
    <3>1. OnlyTouches({})
      BY <2>2, <2>6 DEF OnlyTouches
    <3>2. "r_create" \notin OwnPcs
      BY DEF OwnPcs, JoinPcs
    <3> QED BY <1>0, <2>1, <2>2, <2>3, <2>4, <2>6, <3>1, <3>2, StepBorrows
  <2> QED BY <2>5, <2>6
<1>6. CASE RetryDial(t)
  <2>1. i \in Infos /\ UNCHANGED victim
    BY <1>6, <1>a, <1>b DEF RetryDial, DialNew, At, ReadsInfo
  <2>2. PICK c \in FreshConns :
          /\ Create(c, i, "dialing")
          /\ Run(t, "r_wait", i, c, left[t], alias)
          /\ SetInfo(i, connection[i], status[i], shouldReconnect[i])
    BY <1>6 DEF RetryDial, DialNew
  <2>3. /\ Moves(t, "r_wait", c) /\ UNCHANGED took
        /\ closing' = [closing EXCEPT ![c] = FALSE]
        /\ lib' = [lib EXCEPT ![c] = "dialing"]
        /\ connection' = connection
    BY <1>0, <2>1, <2>2, RunMoves DEF SetInfo, Create, RefTypes
  <2>4. ~closing'[c]
    BY <1>0, <2>3 DEF RefTypes, FreshConns
  <2>5. HandlesApart'
    BY <1>0, <2>3, FreshUnowned DEF RefTypes, HandlesApart, Owns, Moves, JoinPcs
  <2>6. DialsAlone'
    BY <1>0, <2>1, <2>3, <2>4, FreshUnowned DEF RefTypes, DialsAlone, Private, Moves
  <2> QED BY <2>5, <2>6
<1>7. CASE RetryReturns(t)
  <2> DEFINE c == tconn[t]
  <2>1. /\ Ready(t) /\ pc[t] = "r_wait" /\ Private(t) /\ c \in Conns
        /\ UNCHANGED <<victim, connection>>
    BY <1>0, <1>7, <1>a DEF RetryReturns, At, infoVars, DialsAlone, Private, RefTypes
  <2>2. CASE Run(t, "r_publish", i, c, left[t], alias) /\ UNCHANGED libVars
    <3>1. Moves(t, "r_publish", c) /\ UNCHANGED <<took, lib, closing>>
      BY <2>2, RunMoves DEF libVars
    <3>2. HandlesApart'
      BY <1>0, <2>1, <3>1 DEF RefTypes, HandlesApart, Owns, Moves, JoinPcs
    <3>3. DialsAlone'
      BY <1>0, <2>1, <3>1 DEF RefTypes, DialsAlone, Private, Moves
    <3> QED BY <3>2, <3>3
  <2>3. CASE Run(t, "r_fail_join", i, c, left[t], alias) /\ BeginDestroy(c)
    <3>1. Moves(t, "r_fail_join", c) /\ UNCHANGED took /\ OnlyTouches({c})
      BY <1>0, <2>1, <2>3, RunMoves, BeginDestroyTouches
    <3>2. HandlesApart'
      BY <1>0, <2>1, <3>1 DEF RefTypes, HandlesApart, Owns, Moves, JoinPcs
    <3>3. DialsAlone'
      BY <1>0, <2>1, <3>1 DEF RefTypes, DialsAlone, Private, Moves, OnlyTouches
    <3> QED BY <3>2, <3>3
  <2> QED BY <1>7, <2>2, <2>3 DEF RetryReturns
<1>8. CASE RetryPublish(t)
  <2> DEFINE c == tconn[t]
  <2>1. /\ i \in Infos /\ pc[t] = "r_publish" /\ Private(t) /\ UNCHANGED victim
    BY <1>0, <1>8, <1>a, <1>b DEF RetryPublish, Publish, At, ReadsInfo, DialsAlone
  <2>2. /\ Moves(t, "r_done_pub", None) /\ UNCHANGED <<took, lib, closing>>
        /\ connection' = [connection EXCEPT ![i] = c]
    BY <1>8, RunMoves DEF RetryPublish, Publish, SetInfo, libVars
  <2>3. HandlesApart'
    BY <1>0, <2>1, <2>2 DEF RefTypes, HandlesApart, Owns, Moves, JoinPcs, Private
  <2>4. DialsAlone'
    BY <1>0, <2>1, <2>2 DEF RefTypes, DialsAlone, Private, Moves
  <2> QED BY <2>3, <2>4
<1> QED BY <1>1, <1>2, <1>3, <1>4, <1>5, <1>6, <1>7, <1>8

(* A step of a handle's own thread.                                        *)
LEMMA LibStepsOwn ==
  ASSUME OwnerInv, NEW c \in Conns,
         DialSucceeds(c) \/ DialFails(c) \/ SessionEnds(c) \/ ConnectionHandler(c)
  PROVE  HandlesApart' /\ DialsAlone'
<1> USE ConstantsAssumption
<1> DEFINE i == param[c]
<1>0. RefTypes /\ HandlesApart /\ DialsAlone
  BY TypeOKRefs DEF OwnerInv
<1>a. live \subseteq Infos
  BY DEF OwnerInv, TypeOK
<1>b. ASSUME NEW from, NEW to \in LibStates \ {"free", "idle"}, LibStep(c, from, to)
      PROVE  /\ UNCHANGED victim
             /\ \A d \in Conns : lib'[d] \in {"free", "idle"} => lib[d] \in {"free", "idle"}
  BY <1>0, <1>b DEF LibStep, RefTypes
<1>1. CASE \/ DialSucceeds(c) \/ DialFails(c) \/ SessionEnds(c)
           \/ OpenedReport(c) \/ FailedReport(c)
  <2>1. \E from, to \in LibStates \ {"free", "idle"} : LibStep(c, from, to)
    BY <1>1 DEF DialSucceeds, DialFails, SessionEnds, LibOnly, OpenedReport,
                FailedReport, HandlerReport, LibStates
  <2>2. UNCHANGED <<connection, took, closing, pc, tconn>>
    BY <1>1 DEF DialSucceeds, DialFails, SessionEnds, LibOnly, OpenedReport,
                FailedReport, HandlerReport, infoVars, threadVars
  <2>3. HandlesApart'
    BY <1>0, <2>2 DEF HandlesApart, Owns
  <2>4. DialsAlone'
    BY <1>0, <1>b, <2>1, <2>2 DEF RefTypes, DialsAlone, Private
  <2> QED BY <2>3, <2>4
<1>2. CASE OpenedHandler(c) \/ FailedHandler(c)
  <2>1. \E from, to \in LibStates \ {"free", "idle"} : LibStep(c, from, to)
    BY <1>2 DEF OpenedHandler, FailedHandler, Handler, LibStates
  <2>2. UNCHANGED <<connection, took, closing, pc, tconn>>
    BY <1>0, <1>2 DEF OpenedHandler, FailedHandler, Handler, SetStatus, SetInfo,
                      threadVars, RefTypes
  <2>3. HandlesApart'
    BY <1>0, <2>2 DEF HandlesApart, Owns
  <2>4. DialsAlone'
    BY <1>0, <1>b, <2>1, <2>2 DEF RefTypes, DialsAlone, Private
  <2> QED BY <2>3, <2>4
<1>3. CASE ClosedHandler(c)
  <2>1. i \in Infos /\ LibStep(c, "closed", "closed_cb")
    BY <1>3, <1>a DEF ClosedHandler, Handler
  <2>2. /\ took' = [took EXCEPT ![c] = connection[i]]
        /\ connection' = [connection EXCEPT ![i] = None]
        /\ UNCHANGED <<closing, pc, tconn>>
    BY <1>3 DEF ClosedHandler, Handler, SetInfo, threadVars
  <2>3. HandlesApart'
    <3>1. connection[i] # None =>
            /\ \A d \in Conns : took[d] # connection[i]
            /\ \A u \in Threads : Owns(u) => tconn[u] # connection[i]
            /\ \A j \in Infos : connection[j] = connection[i] => j = i
      BY <1>0, <2>1 DEF HandlesApart
    <3> QED BY <1>0, <2>1, <2>2, <3>1 DEF RefTypes, HandlesApart, Owns
  <2>4. DialsAlone'
    <3>1. "closed_cb" \in LibStates \ {"free", "idle"}
      BY DEF LibStates
    <3> QED BY <1>0, <1>b, <2>1, <2>2, <3>1 DEF RefTypes, DialsAlone, Private
  <2> QED BY <2>3, <2>4
<1>4. CASE ClosedReport(c)
  <2> DEFINE old == took[c]
             n == IF again[c] THEN DropRetries ELSE 0
  <2>1. /\ LibStep(c, "closed_cb", "ended") /\ UNCHANGED connection
        /\ took' = [took EXCEPT ![c] = None]
        /\ closing' = IF old = None THEN closing ELSE [closing EXCEPT ![old] = TRUE]
    BY <1>4 DEF ClosedReport, HandlerReport, infoVars
  <2>2. \/ UNCHANGED <<pc, tconn>>
        \/ \E p : \E t \in Threads : /\ Moves(t, p, old)
                                        /\ p = IF old = None THEN "r_loop" ELSE "d_join"
    <3>1. CASE old = None /\ n = 0
      BY <1>4, <3>1 DEF ClosedReport, threadVars
    <3>2. CASE ~(old = None /\ n = 0)
      <4>1. PICK t \in IdleThreads :
              Run(t, IF old = None THEN "r_loop" ELSE "d_join", i, old, n, alias)
        BY <1>4, <3>2 DEF ClosedReport
      <4> QED BY <4>1, RunMoves DEF IdleThreads
    <3> QED BY <3>1, <3>2
  <2>3. HandlesApart'
    BY <1>0, <2>1, <2>2 DEF RefTypes, HandlesApart, Owns, Moves, JoinPcs
  <2>4. DialsAlone'
    <3>1. "ended" \in LibStates \ {"free", "idle"}
      BY DEF LibStates
    <3> QED BY <1>0, <1>b, <2>1, <2>2, <3>1 DEF RefTypes, DialsAlone, Private, Moves
  <2> QED BY <2>3, <2>4
<1> QED BY <1>1, <1>2, <1>3, <1>4 DEF ConnectionHandler

LEMMA DestructorOwn ==
  ASSUME OwnerInv, DestructorStarts \/ Destructor
  PROVE  HandlesApart' /\ DialsAlone'
<1> USE ConstantsAssumption
<1>0. RefTypes /\ HandlesApart /\ DialsAlone
  BY TypeOKRefs DEF OwnerInv
<1>a. DtorStep => UNCHANGED <<connection, pc, tconn>>
  BY DEF DtorStep, infoVars, threadVars
<1>b. DtorStep /\ UNCHANGED took => HandlesApart'
  BY <1>0, <1>a DEF HandlesApart, Owns
<1>1. CASE DestructorStarts \/ DestructorEnds
  <2>1. DtorStep /\ UNCHANGED <<took, lib, closing, victim>>
    BY <1>1 DEF DestructorStarts, DestructorEnds, libVars
  <2> QED BY <1>0, <1>a, <1>b, <2>1 DEF DialsAlone, Private
<1>2. ASSUME NEW s \in Stations, DestructorDestroys(s)
      PROVE  HandlesApart' /\ DialsAlone'
  <2>1. /\ DtorStep /\ UNCHANGED <<took, lib>>
        /\ closing' = IF victim' = None THEN closing ELSE [closing EXCEPT ![victim'] = TRUE]
    BY <1>2 DEF DestructorDestroys, BeginDestroy
  <2>2. victim' = None \/ \E i \in Infos : victim' = connection[i]
    BY <1>2 DEF DestructorDestroys, OwnerInv, TypeOK
  <2>3. DialsAlone'
    BY <1>0, <1>a, <2>1, <2>2 DEF RefTypes, DialsAlone, Private
  <2> QED BY <1>b, <2>1, <2>3
<1>3. CASE DestructorJoins
  <2>1. DtorStep /\ Free(victim) /\ victim' = None
    BY <1>3 DEF DestructorJoins
  <2>2. OnlyTouches({victim}) /\ UNCHANGED took
    BY <1>0, <2>1, FreeTouches
  <2>3. DialsAlone'
    BY <1>0, <1>a, <2>1, <2>2 DEF RefTypes, DialsAlone, Private, OnlyTouches
  <2> QED BY <1>b, <2>1, <2>2, <2>3
<1> QED BY <1>1, <1>2, <1>3 DEF Destructor

(* The owner invariant holds in every reachable state.                     *)
LEMMA OwnerInvariant == Spec => []OwnerInv
<1>1. Init => HandlesApart /\ DialsAlone
  BY ConstantsAssumption DEF Init, HandlesApart, DialsAlone, Owns, JoinPcs
<1>2. OwnerInv /\ [Next]_vars => HandlesApart' /\ DialsAlone'
  <2> SUFFICES ASSUME OwnerInv, [Next]_vars PROVE HandlesApart' /\ DialsAlone'
    OBVIOUS
  <2>1. ASSUME NEW t \in Threads, ThreadStep(t) PROVE HandlesApart' /\ DialsAlone'
    BY <2>1, PlainStepsOwn, HandleStepsOwn DEF ThreadStep
  <2>2. CASE UndefinedBehaviour \/ UNCHANGED vars
    <3>1. UNCHANGED <<connection, took, lib, closing, pc, tconn, victim>>
      BY <2>2 DEF UndefinedBehaviour, vars, infoVars, libVars, threadVars, others
    <3> QED BY <3>1 DEF OwnerInv, HandlesApart, Owns, DialsAlone, Private
  <2> QED BY <2>1, <2>2, OperationsOwn, LibStepsOwn, DestructorOwn DEF Next
<1>3. TypeOK' /\ HandlesApart' /\ DialsAlone' => OwnerInv'
  BY DEF OwnerInv
<1> QED BY <1>1, <1>2, <1>3, TypeCorrect, PTL DEF Spec, OwnerInv

(* The destructor waits with the lock held, so that what it waits for      *)
(* cannot be taken out of info->connection any more.                       *)
VictimInv == victim # None => dtor = "locked" /\ VictimApart

(* A thread's step while the destructor waits.                             *)
LEMMA StepSparesVictim ==
  ASSUME OwnerInv, VictimInv, victim # None, NEW t \in Threads, NEW p, NEW c,
         Moves(t, p, c), UNCHANGED <<took, victim, dtor>>,
         p \notin OwnPcs \/ c = None \/ c \in FreshConns \/ (Owns(t) /\ c = tconn[t])
  PROVE  VictimInv'
<1>1. c \in FreshConns => c # victim
  BY FreshUnowned
<1>2. dtor = "locked" /\ VictimApart
  BY DEF VictimInv
<1>3. ASSUME NEW u \in Threads, Owns(u)' PROVE tconn'[u] # victim
  <2>1. CASE u # t
    BY <1>2, <1>3, <2>1 DEF OwnerInv, TypeOK, VictimApart, Owns, Moves
  <2>2. CASE u = t
    <3>1. pc'[t] = p /\ tconn'[t] = c
      BY DEF OwnerInv, TypeOK, Moves
    <3>2. p \in OwnPcs /\ c # None
      BY <1>3, <2>2, <3>1 DEF Owns, OwnPcs
    <3> QED BY <1>1, <1>2, <2>2, <3>1, <3>2 DEF VictimApart
  <2> QED BY <2>1, <2>2
<1> QED BY <1>2, <1>3 DEF VictimInv, VictimApart

LEMMA ThreadSparesVictim ==
  ASSUME OwnerInv, VictimInv, victim # None, NEW t \in Threads, ThreadStep(t)
  PROVE  VictimInv'
<1>a. dtor = "locked"
  BY DEF VictimInv
<1>b. Ready(t) /\ UNCHANGED took => UNCHANGED <<took, victim, dtor>>
  BY DEF Ready, others
<1>d. ASSUME NEW p, Moves(t, p, None), Ready(t), UNCHANGED took PROVE VictimInv'
  <2>1. UNCHANGED <<took, victim, dtor>>
    BY <1>b, <1>d
  <2> QED BY <1>d, <2>1, StepSparesVictim
<1>c. ASSUME NEW p, Continue(t, p), Ready(t), UNCHANGED took PROVE VictimInv'
  BY <1>c, <1>d, ContinueMoves
<1>1. CASE ReportStatus(t)
  <2>1. Ready(t) /\ UNCHANGED took /\ Continue(t, AfterReport(pc[t]))
    BY <1>1 DEF ReportStatus, libVars
  <2> QED BY <1>c, <2>1
<1>2. CASE DestroyReturns(t)
  <2>1. Ready(t) /\ UNCHANGED took /\ \E p : Moves(t, p, None)
    BY <1>2, RunMoves DEF DestroyReturns, Free, End
  <2> QED BY <1>d, <2>1
<1>3. CASE ConnectCreate(t)
  <2>1. Ready(t) /\ UNCHANGED took /\ \E p : Continue(t, p)
    BY <1>3 DEF ConnectCreate, At, Create, libVars
  <2> QED BY <1>c, <2>1
<1>4. CASE ConnectDial(t) \/ ConnectFail(t)
  <2>1. Ready(t) /\ UNCHANGED took
    BY <1>4 DEF ConnectDial, ConnectFail, At, BeginDestroy
  <2>2. PICK p \in {"c_wait", "c_fail_join"} : Moves(t, p, connection[tinfo[t]])
    BY <1>4, RunMoves DEF ConnectDial, ConnectFail
  <2>3. p \notin OwnPcs
    BY DEF OwnPcs, JoinPcs
  <2>4. UNCHANGED <<took, victim, dtor>>
    BY <1>b, <2>1
  <2> QED BY <2>2, <2>3, <2>4, StepSparesVictim
<1>5. CASE \/ ConnectReturns(t) \/ ConnectStartDT(t) \/ ConnectStatus(t) \/ ConnectFailNull(t)
  <2>1. Ready(t) /\ UNCHANGED took /\ \E p : Continue(t, p)
    BY <1>5 DEF ConnectReturns, ConnectStartDT, ConnectStatus, ConnectFailNull, At, libVars
  <2> QED BY <1>c, <2>1
<1>6. CASE ConnectRetry(t) \/ RetryCreateFails(t)
  <2>1. Ready(t) /\ UNCHANGED took /\ \E p : Moves(t, p, None)
    BY <1>6, RunMoves DEF ConnectRetry, RetryCreateFails, At, libVars, End
  <2> QED BY <1>d, <2>1
<1>7. CASE \/ RetryLoop(t) \/ RetryWakes(t) \/ RetryExit(t)
  <2>1. Ready(t) /\ UNCHANGED took /\ \E p : Continue(t, p)
    BY <1>7 DEF RetryLoop, RetryWakes, RetryExit, At, libVars
  <2> QED BY <1>c, <2>1
<1>8. CASE \/ RetryStatus(t) \/ RetrySwap(t) \/ RetryPublish(t) \/ RetryGiveUp(t)
  BY <1>a, <1>8 DEF RetryStatus, RetryStatusIs, RetrySwap, SwapOut, RetryPublish, Publish,
                    RetryGiveUp, GiveUpWith, LockFree
<1>9. CASE RetryDial(t)
  <2>1. Ready(t) /\ UNCHANGED took
    BY <1>9 DEF RetryDial, DialNew, At, Create
  <2>2. PICK c \in FreshConns : Moves(t, "r_wait", c)
    BY <1>9, RunMoves DEF RetryDial, DialNew
  <2>3. UNCHANGED <<took, victim, dtor>>
    BY <1>b, <2>1
  <2> QED BY <2>2, <2>3, StepSparesVictim
<1>10. CASE RetryReturns(t)
  <2>1. Ready(t) /\ UNCHANGED took /\ pc[t] = "r_wait"
    BY <1>10 DEF RetryReturns, At, BeginDestroy, libVars
  <2>2. PICK p : Moves(t, p, tconn[t])
    BY <1>10, RunMoves DEF RetryReturns
  <2>3. Owns(t) \/ tconn[t] = None
    BY <2>1 DEF Owns
  <2>4. UNCHANGED <<took, victim, dtor>>
    BY <1>b, <2>1
  <2> QED BY <2>2, <2>3, <2>4, StepSparesVictim
<1> QED BY <1>1, <1>2, <1>3, <1>4, <1>5, <1>6, <1>7, <1>8, <1>9, <1>10
        DEF ThreadStep

(* No thread's step changes what the destructor waits for.                 *)
LEMMA ThreadKeepsVictim ==
  ASSUME NEW t \in Threads, ThreadStep(t)
  PROVE  UNCHANGED victim
<1>1. Ready(t)
  BY DEF ThreadStep, At, ReportStatus, DestroyReturns, ConnectCreate, ConnectDial,
         ConnectReturns, ConnectStartDT, ConnectStatus, ConnectFail, ConnectFailNull,
         ConnectRetry, RetryLoop, RetryWakes, RetryStatus, RetryStatusIs, RetrySwap, SwapOut,
         RetryDial, DialNew, RetryCreateFails, RetryReturns, RetryPublish, Publish,
         RetryExit, RetryGiveUp, GiveUpWith
<1> QED BY <1>1 DEF Ready, others

(* A step of the library's thread while the destructor waits: the CLOSED   *)
(* handler is held up by the lock; one that has its handle already goes on.*)
LEMMA HandlerSparesVictim ==
  ASSUME OwnerInv, VictimInv, victim # None, NEW c \in Conns,
         DialSucceeds(c) \/ DialFails(c) \/ SessionEnds(c) \/ ConnectionHandler(c)
  PROVE  VictimInv'
<1>1. dtor = "locked" /\ VictimApart
  BY DEF VictimInv
<1>2. CASE DialSucceeds(c) \/ DialFails(c) \/ SessionEnds(c) \/ OpenedReport(c) \/ FailedReport(c)
  <2>1. UNCHANGED <<took, pc, tconn, victim, dtor>>
    BY <1>2 DEF DialSucceeds, DialFails, SessionEnds, LibOnly, OpenedReport, FailedReport,
                HandlerReport, LibStep, threadVars
  <2> QED BY <1>1, <2>1 DEF VictimInv, VictimApart, Owns
<1>3. CASE OpenedHandler(c) \/ ClosedHandler(c) \/ FailedHandler(c)
  BY <1>1, <1>3 DEF OpenedHandler, ClosedHandler, FailedHandler, Handler, LockFree
<1>4. CASE ClosedReport(c)
  <2>1. UNCHANGED <<victim, dtor>> /\ took' = [took EXCEPT ![c] = None]
    BY <1>4 DEF ClosedReport, HandlerReport, LibStep
  <2>2. took[c] # victim /\ \A d \in Conns : took'[d] # victim
    BY <1>1, <2>1 DEF OwnerInv, TypeOK, VictimApart
  <2>3. \/ UNCHANGED threadVars
        \/ \E t \in Threads : \E p : Moves(t, p, took[c])
    BY <1>4, RunMoves DEF ClosedReport, IdleThreads
  <2>4. \A t \in Threads : Owns(t)' => tconn'[t] # victim
    BY <1>1, <2>2, <2>3 DEF OwnerInv, TypeOK, VictimApart, Owns, Moves, threadVars
  <2> QED BY <1>1, <2>1, <2>2, <2>4 DEF VictimInv, VictimApart
<1> QED BY <1>2, <1>3, <1>4 DEF ConnectionHandler

(* Steps that leave the destructor without a handle, or give it one.       *)
LEMMA VictimChosen ==
  ASSUME OwnerInv, NEW s \in Stations, DestructorDestroys(s)
  PROVE  VictimInv'
<1>1. /\ dtor' = "locked" /\ UNCHANGED <<took, pc, tconn>>
      /\ victim' = IF connections[s] = None THEN None ELSE connection[connections[s]]
  BY DEF DestructorDestroys, DtorStep, BeginDestroy, threadVars
<1>2. ASSUME victim' # None
      PROVE  \E i \in Infos : victim' = connection[i]
  BY <1>1, <1>2 DEF OwnerInv, TypeOK
<1> QED BY <1>1, <1>2 DEF OwnerInv, HandlesApart, VictimInv, VictimApart, Owns

LEMMA NextVictim == OwnerInv /\ VictimInv /\ [Next]_vars => VictimInv'
<1> SUFFICES ASSUME OwnerInv, VictimInv, [Next]_vars PROVE VictimInv'
  OBVIOUS
<1>1. ASSUME NEW s \in Stations,
             AddStation(s) \/ RemoveStation(s) \/ DisconnectStation(s) \/ ConnectStation(s)
      PROVE  VictimInv'
  BY <1>1 DEF VictimInv, AddStation, RemoveStation, DisconnectStation, TakeDown,
              ConnectStation, Call
<1>2. ASSUME NEW t \in Threads, ThreadStep(t) PROVE VictimInv'
  <2>1. CASE victim = None
    <3>1. UNCHANGED victim
      BY <1>2, ThreadKeepsVictim
    <3> QED BY <2>1, <3>1 DEF VictimInv
  <2> QED BY <1>2, <2>1, ThreadSparesVictim
<1>3. ASSUME NEW c \in Conns,
             DialSucceeds(c) \/ DialFails(c) \/ SessionEnds(c) \/ ConnectionHandler(c)
      PROVE  VictimInv'
  <2>1. CASE victim = None
    <3>1. UNCHANGED victim
      BY <1>3 DEF DialSucceeds, DialFails, SessionEnds, LibOnly, ConnectionHandler,
           OpenedHandler, OpenedReport, ClosedHandler, ClosedReport, FailedHandler,
           FailedReport, Handler, HandlerReport, LibStep
    <3> QED BY <2>1, <3>1 DEF VictimInv
  <2> QED BY <1>3, <2>1, HandlerSparesVictim
<1>4. CASE DestructorStarts \/ DestructorJoins \/ DestructorEnds
  BY <1>4 DEF VictimInv, DestructorStarts, DestructorJoins, DestructorEnds
<1>5. CASE UndefinedBehaviour \/ UNCHANGED vars
  <2>1. UNCHANGED <<took, pc, tconn, victim, dtor>>
    BY <1>5 DEF UndefinedBehaviour, vars, libVars, threadVars, others
  <2> QED BY <2>1 DEF VictimInv, VictimApart, Owns
<1> QED BY <1>1, <1>2, <1>3, <1>4, <1>5, VictimChosen DEF Next, Destructor

(* For any number of threads and any interleaving, the places that take a  *)
(* handle out of info->connection to destroy it, and the destructor, never *)
(* destroy the same one.  Left out, as the code does not keep it apart, is *)
(* the handle connectThreadFunc destroys while it stays in                 *)
(* info->connection (connection.cpp:262).                                  *)
THEOREM HandlesHaveOneOwner == Spec => []SingleOwner
<1>1. Init => VictimInv
  BY DEF Init, VictimInv
<1>2. OwnerInv /\ VictimInv => SingleOwner
  BY DEF OwnerInv, VictimInv, VictimApart, SingleOwner
<1> QED BY <1>1, <1>2, NextVictim, OwnerInvariant, PTL DEF Spec

(* The handle a reconnect thread dials is allocated and not being          *)
(* destroyed until that thread publishes or destroys it.                   *)
THEOREM DialedHandleIsSafe == Spec => []DialIsPrivate
<1>1. OwnerInv => DialIsPrivate
  BY DEF OwnerInv, DialsAlone, Private, DialIsPrivate
<1> QED BY <1>1, OwnerInvariant, PTL
-----------------------------------------------------------------------------
(* A handle that a thread or the destructor waits for in                   *)
(* CS104_Connection_destroy is closing, unless it has been freed meanwhile *)
(* (two threads may destroy the same handle after a failed first dial).    *)
ClosingInv ==
    /\ \A t \in Threads : pc[t] \in DestroyPcs =>
           tconn[t] # None /\ (lib[tconn[t]] # "free" => closing[tconn[t]])
    /\ victim # None /\ lib[victim] # "free" => closing[victim]

HandleStep == [Handle!Next]_(Handle!vars)

(* What every step does to the handles: a legal step of HandleLifecycle; a *)
(* handle that is closing stays so until it is freed; only an address that *)
(* nobody holds is used again.                                             *)
GoodStep ==
    /\ HandleStep
    /\ \A c \in Conns : closing[c] /\ lib[c] # "free" /\ lib'[c] # "free" => closing'[c]
    /\ \A c \in Conns : lib[c] = "free" /\ lib'[c] # "free" => c \in FreshConns

LEMMA KeepGood ==
  ASSUME UNCHANGED <<lib, closing>>
  PROVE  GoodStep
<1>1. UNCHANGED Handle!vars
  BY DEF Handle!vars, Phase
<1> QED BY <1>1 DEF GoodStep, HandleStep

LEMMA BeginDestroyGood ==
  ASSUME RefTypes, NEW c \in Conns \cup {None}, None \notin Conns, UNCHANGED lib,
         closing' = IF c = None THEN closing ELSE [closing EXCEPT ![c] = TRUE]
  PROVE  GoodStep /\ (c # None => closing'[c])
<1>1. CASE c = None \/ lib[c] = "free"
  <2>1. UNCHANGED Handle!vars
    BY <1>1 DEF RefTypes, Handle!vars, Phase
  <2> QED BY <1>1, <2>1 DEF GoodStep, HandleStep, RefTypes
<1>2. CASE c # None /\ lib[c] # "free"
  <2>1. Phase(c) # "free"
    BY <1>2 DEF Phase
  <2>2. Handle!Destroy(c) /\ UNCHANGED [d \in Conns |-> Phase(d)]
    BY <1>2, <2>1 DEF RefTypes, Handle!Destroy, Phase
  <2> QED BY <1>2, <2>2 DEF GoodStep, HandleStep, RefTypes, Handle!Next
<1> QED BY <1>1, <1>2

LEMMA CreateGood ==
  ASSUME RefTypes, NEW c \in FreshConns, NEW i, NEW l \in {"idle", "dialing"},
         Create(c, i, l)
  PROVE  GoodStep
<1>1. c \in Conns /\ lib[c] = "free"
  BY FreshUnowned
<1>2. lib' = [lib EXCEPT ![c] = l] /\ closing' = [closing EXCEPT ![c] = FALSE]
  BY DEF Create
<1>3. Handle!Create(c)
  BY <1>1, <1>2 DEF RefTypes, Handle!Create, Handle!Move, Phase
<1> QED BY <1>1, <1>2, <1>3 DEF GoodStep, HandleStep, Handle!Next, RefTypes

LEMMA FreeGood ==
  ASSUME RefTypes, NEW c \in Conns, closing[c], Free(c)
  PROVE  GoodStep
<1>1. lib[c] \in {"idle", "ended", "gone"} /\ lib' = [lib EXCEPT ![c] = "free"]
      /\ closing' = [closing EXCEPT ![c] = FALSE]
  BY DEF Free
<1>2. Handle!Free(c)
  BY <1>1 DEF RefTypes, Handle!Free, Handle!Move, Phase
<1> QED BY <1>1, <1>2 DEF GoodStep, HandleStep, Handle!Next, RefTypes

LEMMA DialGood ==
  ASSUME RefTypes, NEW c \in Conns, lib[c] = "idle", ~closing[c],
         lib' = [lib EXCEPT ![c] = "dialing"], UNCHANGED closing
  PROVE  GoodStep
<1>1. Handle!Connect(c)
  BY DEF RefTypes, Handle!Connect, Handle!Move, Phase
<1> QED BY <1>1 DEF GoodStep, HandleStep, Handle!Next, RefTypes

(* A step of the handle's own thread that changes no other handle.         *)
LibEdges == {<<"dialing", "opened">>, <<"dialing", "failed">>, <<"up", "closed">>,
             <<"opened", "opened_cb">>, <<"opened_cb", "up">>,
             <<"failed", "failed_cb">>, <<"failed_cb", "gone">>,
             <<"closed", "closed_cb">>}
LEMMA LibStepGood ==
  ASSUME RefTypes, NEW c \in Conns, NEW from, NEW to, <<from, to>> \in LibEdges,
         LibStep(c, from, to), UNCHANGED closing
  PROVE  GoodStep
<1>0. lib[c] = from /\ lib' = [lib EXCEPT ![c] = to]
  BY DEF LibStep
<1>1. CASE from = "dialing" /\ to = "opened"
  <2>1. Handle!Open(c)
    BY <1>0, <1>1 DEF RefTypes, Handle!Open, Handle!Move, Phase
  <2> QED BY <1>0, <1>1, <2>1 DEF GoodStep, HandleStep, Handle!Next, RefTypes
<1>2. CASE from = "dialing" /\ to = "failed"
  <2>1. Handle!Fail(c)
    BY <1>0, <1>2 DEF RefTypes, Handle!Fail, Handle!Move, Phase
  <2> QED BY <1>0, <1>2, <2>1 DEF GoodStep, HandleStep, Handle!Next, RefTypes
<1>3. CASE from = "up" /\ to = "closed"
  <2>1. Handle!End(c)
    BY <1>0, <1>3 DEF RefTypes, Handle!End, Handle!Move, Phase
  <2> QED BY <1>0, <1>3, <2>1 DEF GoodStep, HandleStep, Handle!Next, RefTypes
<1>4. CASE from = "failed_cb" /\ to = "gone"
  <2>1. Handle!Return(c)
    BY <1>0, <1>4 DEF RefTypes, Handle!Return, Handle!Move, Phase
  <2> QED BY <1>0, <1>4, <2>1 DEF GoodStep, HandleStep, Handle!Next, RefTypes
<1>5. CASE <<from, to>> \in {<<"opened", "opened_cb">>, <<"opened_cb", "up">>,
                             <<"failed", "failed_cb">>, <<"closed", "closed_cb">>}
  <2>1. UNCHANGED Handle!vars
    BY <1>0, <1>5 DEF RefTypes, Handle!vars, Phase
  <2> QED BY <1>0, <1>5, <2>1 DEF GoodStep, HandleStep, RefTypes
<1> QED BY <1>1, <1>2, <1>3, <1>4, <1>5 DEF LibEdges

(* The CLOSED handler returns and hands a handle to a thread.              *)
LEMMA ClosedReportGood ==
  ASSUME RefTypes, NEW c \in Conns, None \notin Conns, LibStep(c, "closed_cb", "ended"),
         closing' = IF took[c] = None THEN closing ELSE [closing EXCEPT ![took[c]] = TRUE]
  PROVE  GoodStep /\ (took[c] # None => closing'[took[c]])
<1>0. lib[c] = "closed_cb" /\ lib' = [lib EXCEPT ![c] = "ended"]
      /\ took[c] \in Conns \cup {None}
  BY DEF LibStep, RefTypes
<1>1. Handle!Return(c)
  <2>1. Handle!Move(c, {"ending"}, "over")
    BY <1>0 DEF RefTypes, Handle!Move, Phase
  <2>2. CASE took[c] = None \/ lib[took[c]] = "free"
    BY <1>0, <2>1, <2>2 DEF RefTypes, Handle!Return
  <2>3. CASE took[c] # None /\ lib[took[c]] # "free"
    <3>1. Handle!Destroy(took[c]) /\ took[c] \in Conns
      BY <1>0, <2>3 DEF RefTypes, Handle!Destroy, Phase
    <3> QED BY <2>1, <3>1 DEF Handle!Return, Handle!Destroy
  <2> QED BY <2>2, <2>3
<1> QED BY <1>0, <1>1 DEF GoodStep, HandleStep, Handle!Next, RefTypes
-----------------------------------------------------------------------------
(* What a step must do to keep ClosingInv: a thread that begins to wait    *)
(* for a destroy, or the destructor, has marked its handle.                *)
Marked(t) == pc'[t] \in DestroyPcs =>
                \/ pc[t] \in DestroyPcs /\ tconn'[t] = tconn[t]
                \/ tconn'[t] # None /\ closing'[tconn'[t]]
LEMMA ClosingKept ==
  ASSUME RefTypes, ClosingInv, GoodStep, victim \in Conns \cup {None},
         tconn' \in [Threads -> Conns \cup {None}], \A t \in Threads : Marked(t),
         victim' = victim \/ victim' = None \/ closing'[victim']
  PROVE  ClosingInv'
<1>1. ASSUME NEW t \in Threads, pc'[t] \in DestroyPcs
      PROVE  tconn'[t] # None /\ (lib'[tconn'[t]] # "free" => closing'[tconn'[t]])
  <2>1. CASE tconn'[t] # None /\ closing'[tconn'[t]]
    BY <2>1
  <2>2. CASE pc[t] \in DestroyPcs /\ tconn'[t] = tconn[t]
    <3> DEFINE c == tconn[t]
    <3>1. c \in Conns
      BY <1>1, <2>2 DEF RefTypes, ClosingInv
    <3>2. ASSUME lib'[c] # "free"
          PROVE  lib[c] # "free"
      BY <1>1, <2>2, <3>1, <3>2, FreshUnowned DEF GoodStep
    <3> QED BY <1>1, <2>2, <3>1, <3>2 DEF ClosingInv, GoodStep
  <2> QED BY <1>1, <2>1, <2>2 DEF Marked
<1>2. ASSUME victim' # None, lib'[victim'] # "free"
      PROVE  closing'[victim']
  <2>1. CASE victim' = victim
    <3>1. victim \in Conns
      BY <1>2, <2>1
    <3>2. lib[victim] # "free"
      BY <1>2, <2>1, <3>1, FreshUnowned DEF GoodStep
    <3> QED BY <1>2, <2>1, <3>1, <3>2 DEF ClosingInv, GoodStep
  <2> QED BY <1>2, <2>1
<1> QED BY <1>1, <1>2 DEF ClosingInv

(* A step in which no thread begins to destroy a handle but t, which has   *)
(* marked it.                                                              *)
LEMMA MovesMark ==
  ASSUME RefTypes, NEW t \in Threads, NEW p, NEW c \in Conns \cup {None}, Moves(t, p, c),
         p \notin DestroyPcs \/ (c # None /\ closing'[c])
  PROVE  /\ \A u \in Threads : Marked(u)
         /\ tconn' \in [Threads -> Conns \cup {None}]
  BY DEF RefTypes, Moves, Marked
LEMMA StillMark ==
  ASSUME RefTypes, UNCHANGED <<pc, tconn>>
  PROVE  /\ \A u \in Threads : Marked(u)
         /\ tconn' \in [Threads -> Conns \cup {None}]
  BY DEF RefTypes, Marked

LEMMA VictimType == TypeOK => victim \in Conns \cup {None}
  BY DEF TypeOK

LEMMA OperationsHandle ==
  ASSUME TypeOK, ClosingInv, NEW s \in Stations,
         AddStation(s) \/ RemoveStation(s) \/ DisconnectStation(s) \/ ConnectStation(s)
  PROVE  GoodStep /\ ClosingInv'
<1> USE ConstantsAssumption, VictimType
<1>0. RefTypes /\ connections \in [Stations -> Infos \cup {None}]
  BY TypeOKRefs DEF TypeOK
<1>b. \A op : Call(op) => UNCHANGED victim
  BY DEF Call
<1>1. CASE AddStation(s)
  <2>1. PICK t \in Threads : Moves(t, "c_create", None)
    BY <1>1, RunMoves DEF AddStation, IdleThreads
  <2>2. GoodStep /\ UNCHANGED victim
    BY <1>1, <1>b, KeepGood DEF AddStation, libVars
  <2>3. /\ \A u \in Threads : Marked(u)
        /\ tconn' \in [Threads -> Conns \cup {None}]
    <3>1. "c_create" \notin DestroyPcs
      BY DEF DestroyPcs, JoinPcs
    <3> QED BY <1>0, <2>1, <3>1, MovesMark
  <2> QED BY <1>0, <2>2, <2>3, ClosingKept
<1>2. CASE ConnectStation(s)
  <2>1. PICK t \in Threads : Moves(t, "c_create", None)
    BY <1>2, RunMoves DEF ConnectStation, IdleThreads
  <2>2. GoodStep /\ UNCHANGED victim
    BY <1>2, <1>b, KeepGood DEF ConnectStation, libVars
  <2>3. /\ \A u \in Threads : Marked(u)
        /\ tconn' \in [Threads -> Conns \cup {None}]
    <3>1. "c_create" \notin DestroyPcs
      BY DEF DestroyPcs, JoinPcs
    <3> QED BY <1>0, <2>1, <3>1, MovesMark
  <2> QED BY <1>0, <2>2, <2>3, ClosingKept
<1>3. CASE RemoveStation(s) \/ DisconnectStation(s)
  <2> DEFINE old == connection[connections[s]]
  <2>1. old \in Conns \cup {None} /\ BeginDestroy(old) /\ UNCHANGED victim
    BY <1>0, <1>3, <1>b DEF RemoveStation, DisconnectStation, TakeDown, RefTypes
  <2>2. GoodStep /\ (old # None => closing'[old])
    BY <1>0, <2>1, BeginDestroyGood DEF BeginDestroy
  <2>3. \/ UNCHANGED <<pc, tconn>>
        \/ \E t \in Threads : \E p : Moves(t, p, old) /\ (p \notin DestroyPcs \/ old # None)
    <3> USE DEF DestroyPcs, JoinPcs
    <3>1. CASE RemoveStation(s)
      BY <3>1, RunMoves DEF RemoveStation, IdleThreads, threadVars
    <3>2. CASE DisconnectStation(s)
      BY <3>2, RunMoves DEF DisconnectStation, TakeDown, IdleThreads
    <3> QED BY <1>3, <3>1, <3>2
  <2>4. /\ \A u \in Threads : Marked(u)
        /\ tconn' \in [Threads -> Conns \cup {None}]
    BY <1>0, <2>1, <2>2, <2>3, MovesMark, StillMark
  <2> QED BY <1>0, <2>1, <2>2, <2>4, ClosingKept
<1> QED BY <1>1, <1>2, <1>3

LEMMA PlainStepsHandle ==
  ASSUME TypeOK, ClosingInv, NEW t \in Threads,
         \/ ReportStatus(t) \/ ConnectReturns(t) \/ ConnectStartDT(t)
         \/ ConnectStatus(t) \/ ConnectFailNull(t) \/ ConnectRetry(t)
         \/ RetryLoop(t) \/ RetryWakes(t) \/ RetryStatus(t)
         \/ RetryCreateFails(t) \/ RetryExit(t) \/ RetryGiveUp(t)
  PROVE  GoodStep /\ ClosingInv'
<1>0. RefTypes /\ victim \in Conns \cup {None}
  BY TypeOKRefs, VictimType
<1>1. UNCHANGED <<lib, closing, victim>>
  BY DEF ReportStatus, ConnectReturns, ConnectStartDT, ConnectStatus,
         ConnectFailNull, ConnectRetry, RetryLoop, RetryWakes, RetryStatus, RetryStatusIs,
         RetryCreateFails, RetryExit, RetryGiveUp, GiveUpWith, libVars, At, Ready, others
<1>2. \E p : p \notin DestroyPcs /\ Moves(t, p, None)
  <2>1. AfterReport(pc[t]) \notin DestroyPcs
    BY DEF AfterReport, DestroyPcs, JoinPcs
  <2>2. \/ \E p : p \notin DestroyPcs /\ Continue(t, p)
        \/ \E p, i, n, refs : p \notin DestroyPcs /\ Run(t, p, i, None, n, refs)
    BY <2>1 DEF ReportStatus, ConnectReturns, ConnectStartDT, ConnectStatus,
         ConnectFailNull, ConnectRetry, RetryLoop, RetryWakes, RetryStatus, RetryStatusIs,
         RetryCreateFails, RetryExit, RetryGiveUp, GiveUpWith, End, DestroyPcs, JoinPcs
  <2>3. "idle" \notin DestroyPcs
    BY DEF DestroyPcs, JoinPcs
  <2> QED BY <2>2, <2>3, ContinueMoves, RunMoves
<1>3. /\ \A u \in Threads : Marked(u)
      /\ tconn' \in [Threads -> Conns \cup {None}]
  BY <1>0, <1>2, MovesMark
<1> QED BY <1>0, <1>1, <1>3, KeepGood, ClosingKept

LEMMA HandleStepsHandle ==
  ASSUME OwnerInv, ClosingInv, NEW t \in Threads,
         \/ DestroyReturns(t) \/ ConnectCreate(t) \/ ConnectDial(t) \/ ConnectFail(t)
         \/ RetrySwap(t) \/ RetryDial(t) \/ RetryReturns(t) \/ RetryPublish(t)
  PROVE  GoodStep /\ ClosingInv'
<1> USE ConstantsAssumption
<1> DEFINE i == tinfo[t]
<1>0. RefTypes /\ victim \in Conns \cup {None}
  BY TypeOKRefs, VictimType DEF OwnerInv
<1>a. Ready(t) => UNCHANGED victim
  BY DEF Ready, others
<1>b. Ready(t) /\ ReadsInfo(t) => i \in Infos /\ connection[i] \in Conns \cup {None}
  BY <1>0, ReadyInfo DEF RefTypes, OwnerInv
<1>c. ASSUME NEW p, NEW c \in Conns \cup {None}, Moves(t, p, c), GoodStep, UNCHANGED victim,
             p \notin DestroyPcs \/ (c # None /\ closing'[c])
      PROVE  GoodStep /\ ClosingInv'
  <2>1. /\ \A u \in Threads : Marked(u)
        /\ tconn' \in [Threads -> Conns \cup {None}]
    BY <1>0, <1>c, MovesMark
  <2> QED BY <1>0, <1>c, <2>1, ClosingKept
<1>1. CASE DestroyReturns(t)
  <2> DEFINE c == tconn[t]
  <2>1. Ready(t) /\ pc[t] \in DestroyPcs /\ Free(c)
    BY <1>1 DEF DestroyReturns
  <2>2. c \in Conns
    BY <1>0, <2>1 DEF RefTypes, ClosingInv
  <2>3. closing[c]
    BY <2>1, <2>2 DEF ClosingInv, Free
  <2>4. GoodStep
    BY <1>0, <2>1, <2>2, <2>3, FreeGood
  <2>5. \E p : p \notin DestroyPcs /\ Moves(t, p, None)
    <3> DEFINE p == AfterDestroy(pc[t], left[t])
    <3>1. End(t) \/ \E n : Run(t, p, i, None, n, alias)
      BY <1>1 DEF DestroyReturns
    <3>2. p \notin DestroyPcs /\ "idle" \notin DestroyPcs
      BY DEF AfterDestroy, DestroyPcs, JoinPcs
    <3> QED BY <3>1, <3>2, RunMoves DEF End
  <2> QED BY <1>a, <1>c, <2>1, <2>4, <2>5
<1>2. CASE ConnectCreate(t)
  <2>1. Ready(t)
    BY <1>2 DEF ConnectCreate, At
  <2>2. GoodStep
    BY <1>0, <1>2, CreateGood, KeepGood DEF ConnectCreate, libVars
  <2>3. \E p : p \notin DestroyPcs /\ Moves(t, p, None)
    BY <1>2, ContinueMoves DEF ConnectCreate, DestroyPcs, JoinPcs
  <2> QED BY <1>a, <1>c, <2>1, <2>2, <2>3
<1>3. CASE ConnectDial(t)
  <2> DEFINE c == connection[i]
  <2>1. Ready(t) /\ pc[t] = "c_connect" /\ i \in Infos /\ c \in Conns \cup {None}
    BY <1>3, <1>b DEF ConnectDial, At, ReadsInfo
  <2>2. c # None /\ lib[c] = "idle" /\ ~closing[c]
    BY <2>1 DEF Ready, ThreadOK, NullHandle, MisusedHandle, ReadsConnection, HandleOf
  <2>3. GoodStep
    BY <1>0, <1>3, <2>1, <2>2, DialGood DEF ConnectDial
  <2>4. Moves(t, "c_wait", c) /\ "c_wait" \notin DestroyPcs
    BY <1>3, RunMoves DEF ConnectDial, DestroyPcs, JoinPcs
  <2> QED BY <1>a, <1>c, <2>1, <2>3, <2>4
<1>4. CASE ConnectFail(t)
  <2> DEFINE c == connection[i]
  <2>1. Ready(t) /\ c \in Conns \cup {None} /\ c # None /\ BeginDestroy(c)
    BY <1>4, <1>b DEF ConnectFail, At, ReadsInfo, Ready, ThreadOK, NullHandle,
                      ReadsConnection, HandleOf
  <2>2. GoodStep /\ (c # None => closing'[c])
    BY <1>0, <2>1, BeginDestroyGood DEF BeginDestroy
  <2>3. \E p : Moves(t, p, c)
    BY <1>4, RunMoves DEF ConnectFail
  <2> QED BY <1>a, <1>c, <2>1, <2>2, <2>3
<1>5. CASE RetrySwap(t)
  <2> DEFINE c == connection[i]
  <2>1. Ready(t) /\ c \in Conns \cup {None} /\ BeginDestroy(c)
    BY <1>5, <1>b DEF RetrySwap, SwapOut, At, ReadsInfo
  <2>2. GoodStep /\ (c # None => closing'[c])
    BY <1>0, <2>1, BeginDestroyGood DEF BeginDestroy
  <2>3. \E p : Moves(t, p, c) /\ (p \notin DestroyPcs \/ c # None)
    BY <1>5, RunMoves DEF RetrySwap, SwapOut, DestroyPcs, JoinPcs
  <2> QED BY <1>a, <1>c, <2>1, <2>2, <2>3
<1>6. CASE RetryDial(t)
  <2>1. PICK c \in FreshConns : Create(c, i, "dialing") /\ Moves(t, "r_wait", c)
    BY <1>6, RunMoves DEF RetryDial, DialNew
  <2>2. Ready(t) /\ c \in Conns /\ "r_wait" \notin DestroyPcs
    BY <1>6, FreshUnowned DEF RetryDial, DialNew, At, DestroyPcs, JoinPcs
  <2>3. GoodStep
    BY <1>0, <2>1, CreateGood
  <2> QED BY <1>a, <1>c, <2>1, <2>2, <2>3
<1>7. CASE RetryReturns(t)
  <2> DEFINE c == tconn[t]
  <2>1. Ready(t) /\ c \in Conns \cup {None} /\ c # None
    BY <1>0, <1>7 DEF RetryReturns, At, RefTypes, OwnerInv, DialsAlone, Private
  <2>2. CASE Run(t, "r_publish", i, c, left[t], alias) /\ UNCHANGED libVars
    <3>1. Moves(t, "r_publish", c) /\ "r_publish" \notin DestroyPcs
      BY <2>2, RunMoves DEF DestroyPcs, JoinPcs
    <3> QED BY <1>a, <1>c, <2>1, <2>2, <3>1, KeepGood DEF libVars
  <2>3. CASE Run(t, "r_fail_join", i, c, left[t], alias) /\ BeginDestroy(c)
    <3>1. Moves(t, "r_fail_join", c)
      BY <2>3, RunMoves
    <3>2. GoodStep /\ (c # None => closing'[c])
      BY <1>0, <2>1, <2>3, BeginDestroyGood DEF BeginDestroy
    <3> QED BY <1>a, <1>c, <2>1, <3>1, <3>2
  <2> QED BY <1>7, <2>2, <2>3 DEF RetryReturns
<1>8. CASE RetryPublish(t)
  <2>1. Ready(t) /\ UNCHANGED <<lib, closing>> /\ Moves(t, "r_done_pub", None)
    BY <1>8, RunMoves DEF RetryPublish, Publish, At, libVars
  <2>2. "r_done_pub" \notin DestroyPcs
    BY DEF DestroyPcs, JoinPcs
  <2> QED BY <1>a, <1>c, <2>1, <2>2, KeepGood
<1> QED BY <1>1, <1>2, <1>3, <1>4, <1>5, <1>6, <1>7, <1>8

LEMMA LibStepsHandle ==
  ASSUME TypeOK, ClosingInv, NEW c \in Conns,
         DialSucceeds(c) \/ DialFails(c) \/ SessionEnds(c) \/ ConnectionHandler(c)
  PROVE  GoodStep /\ ClosingInv'
<1> USE ConstantsAssumption
<1>0. RefTypes /\ victim \in Conns \cup {None}
  BY TypeOKRefs, VictimType
<1>1. CASE ~ClosedReport(c)
  <2>1. \E from, to : <<from, to>> \in LibEdges /\ LibStep(c, from, to)
    BY <1>1 DEF DialSucceeds, DialFails, SessionEnds, LibOnly, ConnectionHandler,
               OpenedHandler, OpenedReport, FailedHandler, FailedReport,
               ClosedHandler, Handler, HandlerReport, LibEdges
  <2>2. UNCHANGED <<closing, pc, tconn>>
    BY <1>1 DEF DialSucceeds, DialFails, SessionEnds, LibOnly, ConnectionHandler,
               OpenedHandler, OpenedReport, FailedHandler, FailedReport,
               ClosedHandler, Handler, threadVars
  <2>3. GoodStep /\ UNCHANGED victim
    BY <1>0, <2>1, <2>2, LibStepGood DEF LibStep
  <2> QED BY <1>0, <2>2, <2>3, StillMark, ClosingKept
<1>2. CASE ClosedReport(c)
  <2> DEFINE old == took[c]
  <2>1. /\ LibStep(c, "closed_cb", "ended") /\ old \in Conns \cup {None}
        /\ closing' = IF old = None THEN closing ELSE [closing EXCEPT ![old] = TRUE]
    BY <1>0, <1>2 DEF ClosedReport, HandlerReport, RefTypes
  <2>2. GoodStep /\ (old # None => closing'[old]) /\ UNCHANGED victim
    BY <1>0, <2>1, ClosedReportGood DEF LibStep
  <2>3. \/ UNCHANGED <<pc, tconn>>
        \/ \E t \in Threads : \E p : Moves(t, p, old) /\ (p \notin DestroyPcs \/ old # None)
    BY <1>2, RunMoves DEF ClosedReport, IdleThreads, threadVars, DestroyPcs, JoinPcs
  <2>4. /\ \A u \in Threads : Marked(u)
        /\ tconn' \in [Threads -> Conns \cup {None}]
    BY <1>0, <2>1, <2>2, <2>3, MovesMark, StillMark
  <2> QED BY <1>0, <2>2, <2>4, ClosingKept
<1> QED BY <1>1, <1>2

LEMMA DestructorHandle ==
  ASSUME TypeOK, ClosingInv, DestructorStarts \/ Destructor
  PROVE  GoodStep /\ ClosingInv'
<1> USE ConstantsAssumption
<1>0. RefTypes /\ victim \in Conns \cup {None}
  BY TypeOKRefs, VictimType
<1>a. DtorStep => UNCHANGED <<pc, tconn>>
  BY DEF DtorStep, threadVars
<1>1. CASE DestructorStarts \/ DestructorEnds
  <2>1. DtorStep /\ UNCHANGED <<lib, closing, victim>>
    BY <1>1 DEF DestructorStarts, DestructorEnds, libVars
  <2> QED BY <1>0, <1>a, <2>1, KeepGood, StillMark, ClosingKept
<1>2. ASSUME NEW s \in Stations, DestructorDestroys(s)
      PROVE  GoodStep /\ ClosingInv'
  <2>1. DtorStep /\ BeginDestroy(victim') /\ victim' \in Conns \cup {None}
    BY <1>2 DEF DestructorDestroys, TypeOK
  <2>2. GoodStep /\ (victim' # None => closing'[victim'])
    BY <1>0, <2>1, BeginDestroyGood DEF BeginDestroy
  <2> QED BY <1>0, <1>a, <2>1, <2>2, StillMark, ClosingKept
<1>3. CASE DestructorJoins
  <2>1. DtorStep /\ Free(victim) /\ victim' = None /\ victim \in Conns
    BY <1>0, <1>3 DEF DestructorJoins
  <2>2. closing[victim]
    BY <2>1 DEF ClosingInv, Free
  <2>3. GoodStep
    BY <1>0, <2>1, <2>2, FreeGood
  <2> QED BY <1>0, <1>a, <2>1, <2>3, StillMark, ClosingKept
<1> QED BY <1>1, <1>2, <1>3 DEF Destructor

(* The manager uses every library handle as the library asks, whatever its *)
(* callers, its threads, the peer and the destructor do: it connects a     *)
(* handle at most once and frees it only by a destroy, after the handle's  *)
(* last handler has returned.                                              *)
THEOREM HandlesAreUsedRight == Spec => HandlesUsedRight
<1>1. Init => Handle!Init /\ ClosingInv
  BY ConstantsAssumption DEF Init, Handle!Init, Phase, ClosingInv, DestroyPcs, JoinPcs
<1>2. OwnerInv /\ ClosingInv /\ [Next]_vars => GoodStep /\ ClosingInv'
  <2> SUFFICES ASSUME OwnerInv, ClosingInv, [Next]_vars PROVE GoodStep /\ ClosingInv'
    OBVIOUS
  <2>0. TypeOK
    BY DEF OwnerInv
  <2>1. ASSUME NEW t \in Threads, ThreadStep(t) PROVE GoodStep /\ ClosingInv'
    BY <2>0, <2>1, PlainStepsHandle, HandleStepsHandle DEF ThreadStep
  <2>2. CASE UndefinedBehaviour \/ UNCHANGED vars
    <3>1. UNCHANGED <<lib, closing, pc, tconn, victim>>
      BY <2>2 DEF UndefinedBehaviour, vars, libVars, threadVars, others
    <3> QED BY <2>0, <3>1, KeepGood, TypeOKRefs, VictimType, StillMark, ClosingKept
  <2> QED BY <2>0, <2>1, <2>2, OperationsHandle, LibStepsHandle, DestructorHandle DEF Next
<1>3. GoodStep => [Handle!Next]_(Handle!vars)
  BY DEF GoodStep, HandleStep
<1> QED BY <1>1, <1>2, <1>3, OwnerInvariant, PTL DEF Spec, HandlesUsedRight, Handle!Spec
=============================================================================
