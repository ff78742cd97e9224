--------------------------- MODULE MqttClientProofs ---------------------------
(***************************************************************************)
(* Theorems of MqttClient for any number of clients and polling tasks and  *)
(* any limit of the counter: its types, that an open connection is one,    *)
(* and that the server is synchronised.                                    *)
(***************************************************************************)
EXTENDS MqttClient, TLAPS

\* The invariant behind ServerIsSynced.  Only Connected makes mClient a client
\* that is up, so while it is not, no poll reaches the server; while it is,
\* the reports since the sync are as many as the counter says, and the poll
\* that is under way has synchronised when the counter asked for it.
AtMostOnePoll == \A p, q \in InPoll : p = q

Counting == {"count", "clear", "increment", "store"}
Reporting == {"report"} \cup Counting

Counted ==
  /\ counter > 0 => synced
  /\ (\A p \in Polls : pc[p] \notin Reporting) => polls <= counter \/ counter = 0
  /\ \A p \in Polls :
       /\ pc[p] = "sync" => counter = 0
       /\ pc[p] = "report" => synced /\ polls <= counter
       /\ pc[p] \in Counting => synced /\ polls <= counter + 1

\* A poll that increments the counter has read what it still is.
WithinLimit ==
  /\ counter <= CounterLimit
  /\ \A p \in Polls : pc[p] \in {"increment", "store"} =>
       seen[p] = counter /\ counter < CounterLimit

SyncInv ==
  ~straddled =>
    /\ AtMostOnePoll
    /\ WithinLimit
    /\ polls > 0 => synced
    /\ polls <= MaxPolls
    /\ Up(mClient) => Counted

-----------------------------------------------------------------------------
\* Every reachable state of the client has its types.
THEOREM TypeInvariant == Spec => []TypeOK
<1> USE MqttAssumption DEF Starters
<1>1. ASSUME Init
      PROVE  TypeOK
  <2>1. "NULL" \notin Clients /\ "main" \notin Clients
    OBVIOUS
  <2>2. client["main"] = "wait"
    BY <1>1 DEF Init
  <2>3. client \in [Starters -> {"none", "made", "connecting", "up", "subscribed",
                                 "lost", "wait", "init", "done"}]
    BY <1>1 DEF Init
  <2>4. /\ pc \in [Polls -> {"none", "asleep", "poll", "sync", "report", "count",
                               "clear", "increment", "store"}]
        /\ seen \in [Polls -> 0..CounterRange - 1]
    BY <1>1 DEF Init
  <2>5. wifi \in BOOLEAN /\ close \in BOOLEAN /\ synced \in BOOLEAN /\ straddled \in BOOLEAN
    BY <1>1, Zenon DEF Init
  <2>6. counter \in 0..CounterRange - 1 /\ polls \in Nat
    BY <1>1 DEF Init
  <2>7. mClient \in Clients \cup {"NULL"} /\ mClient \notin Clients
    BY <1>1, <2>1 DEF Init
  <2> QED
    BY <2>2, <2>3, <2>4, <2>5, <2>6, <2>7 DEF TypeOK
<1>2. TypeOK /\ [Next]_vars => TypeOK'
  <2> SUFFICES ASSUME TypeOK, [Next]_vars
               PROVE  TypeOK'
    OBVIOUS
  <2> USE DEF TypeOK
  <2>1. CASE WifiChanges
    BY <2>1 DEF WifiChanges, Drop, Up, sync
  <2>2. ASSUME NEW c \in Clients, ConnectionLost(c)
        PROVE  TypeOK'
    BY <2>2 DEF ConnectionLost, Drop, sync
  <2>3. ASSUME NEW x \in Starters, InitClient(x)
        PROVE  TypeOK'
    BY <2>3 DEF InitClient, sync
  <2>4. ASSUME NEW x \in Starters, StartClient(x)
        PROVE  TypeOK'
    BY <2>4 DEF StartClient, sync
  <2>5. ASSUME NEW c \in Clients, Connected(c)
        PROVE  TypeOK'
    <3>1. client' \in [Starters -> {"none", "made", "connecting", "up", "subscribed",
                                    "lost", "wait", "init", "done"}]
      BY <2>5 DEF Connected
    <3>2. client'["main"] \in {"wait", "init", "done"}
      BY <2>5 DEF Connected, Up
    <3>3. mClient' \in Clients => client'[mClient'] # "none"
      BY <2>5 DEF Connected
    <3>4. straddled' \in BOOLEAN
      BY <2>5, Zenon DEF Connected
    <3>5. /\ counter' \in 0..CounterRange - 1 /\ polls' \in Nat
          /\ mClient' \in Clients \cup {"NULL"}
          /\ pc' \in [Polls -> {"none", "asleep", "poll", "sync", "report", "count",
                               "clear", "increment", "store"}]
          /\ seen' \in [Polls -> 0..CounterRange - 1]
      BY <2>5 DEF Connected
    <3>6. wifi' \in BOOLEAN /\ close' \in BOOLEAN /\ synced' \in BOOLEAN
      BY <2>5 DEF Connected
    <3> QED
      BY <3>1, <3>2, <3>3, <3>4, <3>5, <3>6
  <2>6. ASSUME NEW c \in Clients, Subscribed(c)
        PROVE  TypeOK'
    BY <2>6 DEF Subscribed, sync
  <2>7. ASSUME NEW c \in Clients, Disconnected(c)
        PROVE  TypeOK'
    BY <2>7 DEF Disconnected, InPoll
  <2>8. ASSUME NEW p \in Polls, PollTask(p)
        PROVE  TypeOK'
    <3> USE DEF Goes, net, sync
    <3>1. CASE Wake(p)
      BY <3>1 DEF Wake, InPoll
    <3>2. CASE Enter(p)
      BY <3>2 DEF Enter
    <3>3. CASE PublishSync(p)
      BY <3>3 DEF PublishSync, Up
    <3>4. CASE PublishReport(p)
      BY <3>4 DEF PublishReport
    <3>5. CASE Count(p)
      <4>1. CASE Compare(p)
        BY <4>1 DEF Compare
      <4>2. CASE Clear(p)
        BY <4>2 DEF Clear
      <4>3. CASE Increment(p)
        BY <4>3 DEF Increment
      <4>4. CASE Store(p)
        BY <4>4 DEF Store
      <4> QED
        BY <3>5, <4>1, <4>2, <4>3, <4>4 DEF Count
    <3> QED
      BY <2>8, <3>1, <3>2, <3>3, <3>4, <3>5 DEF PollTask
  <2>9. CASE UNCHANGED vars
    BY <2>9 DEF vars, net, sync
  <2> QED
    BY <2>1, <2>2, <2>3, <2>4, <2>5, <2>6, <2>7, <2>8, <2>9 DEF Next, Handler
<1> QED
  BY <1>1, <1>2, PTL DEF Spec

\* While the polling tasks are told that there is a connection there is one, or
\* its loss is about to be handled: whatever clients the handlers made.
THEOREM OpenConnection == Spec => []OpenIsConnected
<1> USE MqttAssumption DEF Starters, OpenIsConnected
<1>1. Init => OpenIsConnected
  BY DEF Init
<1>2. TypeOK /\ OpenIsConnected /\ [Next]_vars => OpenIsConnected'
  <2> SUFFICES ASSUME TypeOK, OpenIsConnected, [Next]_vars
               PROVE  OpenIsConnected'
    OBVIOUS
  <2> USE DEF TypeOK, Up
  <2>1. CASE WifiChanges
    BY <2>1 DEF WifiChanges, Drop
  <2>2. ASSUME NEW c \in Clients, ConnectionLost(c)
        PROVE  OpenIsConnected'
    BY <2>2 DEF ConnectionLost, Drop
  <2>3. ASSUME NEW x \in Starters, InitClient(x)
        PROVE  OpenIsConnected'
    BY <2>3 DEF InitClient
  <2>4. ASSUME NEW x \in Starters, StartClient(x)
        PROVE  OpenIsConnected'
    BY <2>4 DEF StartClient
  <2>5. ASSUME NEW c \in Clients, Connected(c)
        PROVE  OpenIsConnected'
    BY <2>5 DEF Connected
  <2>6. ASSUME NEW c \in Clients, Subscribed(c)
        PROVE  OpenIsConnected'
    BY <2>6 DEF Subscribed
  <2>7. ASSUME NEW c \in Clients, Disconnected(c)
        PROVE  OpenIsConnected'
    BY <2>7 DEF Disconnected
  <2>8. ASSUME NEW p \in Polls, PollTask(p)
        PROVE  OpenIsConnected'
    BY <2>8 DEF PollTask, Wake, Enter, PublishSync, PublishReport, Count, Compare, Clear, Increment, Store,
                  net
  <2>9. CASE UNCHANGED vars
    BY <2>9 DEF vars, net
  <2> QED
    BY <2>1, <2>2, <2>3, <2>4, <2>5, <2>6, <2>7, <2>8, <2>9 DEF Next, Handler
<1> QED
  BY <1>1, <1>2, TypeInvariant, PTL DEF Spec

-----------------------------------------------------------------------------
\* What keeps the polls, the counter and the history, and brings mClient no
\* connection, keeps the invariant.
LEMMA NetOnly ==
  ASSUME SyncInv, UNCHANGED <<counter, pc, seen, sync>>, Up(mClient)' => Up(mClient)
  PROVE  SyncInv'
<1> USE DEF sync
<1>1. InPoll' = InPoll
  BY DEF InPoll
<1>2. AtMostOnePoll' <=> AtMostOnePoll
  BY <1>1 DEF AtMostOnePoll
<1>3. (Counted' <=> Counted) /\ (WithinLimit' <=> WithinLimit)
  BY DEF Counted, WithinLimit
<1> QED
  BY <1>2, <1>3 DEF SyncInv, MaxPolls

\* A step of a polling task that is in the middle of its poll: the others are
\* not, and stay where they are.
LEMMA OnlyPoll ==
  ASSUME TypeOK, SyncInv, ~straddled, NEW p \in InPoll
  PROVE  \A q \in Polls : q # p => pc[q] \in {"none", "asleep"}
BY DEF TypeOK, SyncInv, AtMostOnePoll, InPoll

\* The server gets sync_relay_states first, and after at most CounterLimit + 1
\* reports again, while no two polls overlap and no event comes in one.
THEOREM Synced == Spec => []ServerIsSynced
<1> USE MqttAssumption DEF Counting, Reporting
<1>1. Init => SyncInv
  BY MqttAssumption DEF Init, SyncInv, WithinLimit, AtMostOnePoll, InPoll, MaxPolls, Up, Starters
<1>2. TypeOK /\ TypeOK' /\ SyncInv /\ [Next]_vars => SyncInv'
  <2> SUFFICES ASSUME TypeOK, TypeOK', SyncInv, [Next]_vars
               PROVE  SyncInv'
    OBVIOUS
  <2>1. CASE WifiChanges
    <3>1. Up(mClient)' => Up(mClient)
      BY <2>1, MqttAssumption DEF WifiChanges, Drop, Up, Starters, TypeOK
    <3> QED
      BY <2>1, <3>1, NetOnly DEF WifiChanges
  <2>2. ASSUME NEW c \in Clients, ConnectionLost(c)
        PROVE  SyncInv'
    <3>1. Up(mClient)' => Up(mClient)
      BY <2>2, MqttAssumption DEF ConnectionLost, Drop, Up, Starters, TypeOK
    <3> QED
      BY <2>2, <3>1, NetOnly DEF ConnectionLost
  <2>3. ASSUME NEW x \in Starters, InitClient(x)
        PROVE  SyncInv'
    <3>1. Up(mClient)' => Up(mClient)
      BY <2>3, MqttAssumption DEF InitClient, Up, Starters, TypeOK
    <3> QED
      BY <2>3, <3>1, NetOnly DEF InitClient
  <2>4. ASSUME NEW x \in Starters, StartClient(x)
        PROVE  SyncInv'
    <3>1. Up(mClient)' => Up(mClient)
      BY <2>4, MqttAssumption DEF StartClient, Up, Starters, TypeOK
    <3> QED
      BY <2>4, <3>1, NetOnly DEF StartClient
  <2>5. ASSUME NEW c \in Clients, Connected(c)
        PROVE  SyncInv'
    <3> SUFFICES ASSUME ~straddled'
                 PROVE  SyncInv'
      BY DEF SyncInv
    <3>1. InPoll = {} /\ pc' = pc /\ counter' = 0 /\ polls' = 0
      BY <2>5 DEF Connected
    <3>2. \A p \in Polls : pc'[p] \in {"none", "asleep"}
      BY <3>1 DEF InPoll
    <3>3. AtMostOnePoll'
      BY <3>2 DEF AtMostOnePoll, InPoll
    <3>4. Counted'
      BY <3>1, <3>2 DEF Counted
    <3>5. WithinLimit'
      BY <3>1, <3>2 DEF WithinLimit
    <3> QED
      BY <3>1, <3>3, <3>4, <3>5, MqttAssumption DEF SyncInv, MaxPolls
  <2>6. ASSUME NEW c \in Clients, Subscribed(c)
        PROVE  SyncInv'
    <3> USE DEF sync
    <3>1. Up(mClient)' => Up(mClient)
      BY <2>6, MqttAssumption DEF Subscribed, Up, Starters, TypeOK
    <3>2. \A p \in Polls : pc'[p] = pc[p] \/ (pc[p] = "none" /\ pc'[p] = "asleep")
      <4>1. CASE pc' = pc
        BY <4>1
      <4>2. CASE \E q \in Polls : pc[q] = "none" /\ pc' = [pc EXCEPT ![q] = "asleep"]
        BY <4>2 DEF TypeOK
      <4> QED
        BY <2>6, <4>1, <4>2 DEF Subscribed
    <3>3. InPoll' = InPoll
      BY <3>2 DEF InPoll
    <3>4. AtMostOnePoll' <=> AtMostOnePoll
      BY <3>3 DEF AtMostOnePoll
    <3>5. Counted => Counted'
      BY <2>6, <3>2 DEF Subscribed, Counted
    <3>6. WithinLimit => WithinLimit'
      BY <2>6, <3>2 DEF Subscribed, WithinLimit
    <3> QED
      BY <2>6, <3>1, <3>4, <3>5, <3>6 DEF Subscribed, SyncInv, MaxPolls
  <2>7. ASSUME NEW c \in Clients, Disconnected(c)
        PROVE  SyncInv'
    <3> SUFFICES ASSUME ~straddled'
                 PROVE  SyncInv'
      BY DEF SyncInv
    <3>1. ~straddled /\ InPoll = {} /\ pc' = pc /\ counter' = 0
      BY <2>7 DEF Disconnected
    <3>2. \A p \in Polls : pc'[p] \in {"none", "asleep"}
      BY <3>1 DEF InPoll
    <3>3. AtMostOnePoll'
      BY <3>2 DEF AtMostOnePoll, InPoll
    <3>4. Counted'
      BY <3>1, <3>2 DEF Counted
    <3>5. WithinLimit'
      BY <3>1, <3>2 DEF WithinLimit
    <3> QED
      BY <2>7, <3>1, <3>3, <3>4, <3>5 DEF Disconnected, SyncInv, MaxPolls
  <2>8. ASSUME NEW p \in Polls, PollTask(p)
        PROVE  SyncInv'
    <3> SUFFICES ASSUME ~straddled'
                 PROVE  SyncInv'
      BY DEF SyncInv
    <3> USE DEF Goes, net, sync
    <3>1. CASE Wake(p)
      <4>1. ~straddled
        BY <3>1 DEF Wake
      <4>2. \A q \in Polls : q # p => pc'[q] = pc[q]
        BY <3>1 DEF Wake, TypeOK
      <4>3. pc[p] = "asleep" /\ pc'[p] \in {"none", "poll"}
        BY <3>1 DEF Wake, TypeOK
      <4>4. close => pc'[p] = "none"
        BY <3>1 DEF Wake, TypeOK
      <4>5. ~close => InPoll = {}
        BY <3>1 DEF Wake
      <4>6. AtMostOnePoll'
        BY <4>1, <4>2, <4>3, <4>4, <4>5 DEF AtMostOnePoll, InPoll, SyncInv
      <4>7. Counted => Counted'
        BY <3>1, <4>2, <4>3 DEF Wake, Counted
      <4>8. WithinLimit => WithinLimit'
        BY <3>1, <4>2, <4>3 DEF Wake, WithinLimit
      <4> QED
        BY <3>1, <4>1, <4>6, <4>7, <4>8 DEF Wake, SyncInv, MaxPolls, Up
    <3> HIDE DEF Goes
    <3>2. ~Wake(p) => ~straddled /\ p \in InPoll
      BY <2>8 DEF PollTask, Enter, PublishSync, PublishReport, Count, Compare, Clear,
                       Increment, Store, InPoll, Goes
    <3>3. ASSUME ~Wake(p)
          PROVE  /\ \A q \in Polls : q # p => pc'[q] = pc[q] /\ pc[q] \in {"none", "asleep"}
                 /\ AtMostOnePoll'
                 /\ Up(mClient)' <=> Up(mClient)
      <4>1. \A q \in Polls : q # p => pc[q] \in {"none", "asleep"}
        BY <3>2, <3>3, OnlyPoll
      <4>2. \A q \in Polls : q # p => pc'[q] = pc[q]
        BY <2>8, <3>3 DEF PollTask, Enter, PublishSync, PublishReport, Count, Compare, Clear,
                         Increment, Store, Goes, TypeOK
      <4>3. UNCHANGED net
        BY <2>8, <3>3 DEF PollTask, Enter, PublishSync, PublishReport, Count, Compare, Clear,
                         Increment, Store
      <4> QED
        BY <4>1, <4>2, <4>3 DEF AtMostOnePoll, InPoll, Up
    <3> USE DEF Goes
    <3>8. ASSUME ~Wake(p), ~Count(p)
          PROVE  WithinLimit'
      <4>1. WithinLimit
        BY <3>2, <3>8 DEF SyncInv
      <4>2. counter' \in {0, counter} /\ seen' = seen /\ pc'[p] \notin {"increment", "store"}
        BY <2>8, <3>8 DEF PollTask, Enter, PublishSync, PublishReport, TypeOK
      <4>3. \A q \in Polls : pc'[q] \notin {"increment", "store"}
        BY <3>3, <3>8, <4>2
      <4> QED
        BY <4>1, <4>2, <4>3 DEF WithinLimit
    <3>9. Enter(p) \/ PublishSync(p) \/ PublishReport(p) => ~Count(p)
      BY DEF Enter, PublishSync, PublishReport, Count, Compare, Clear, Increment, Store
    <3>4. CASE Enter(p) /\ ~Wake(p)
      <4>1. /\ pc[p] = "poll"
            /\ \/ pc'[p] = "asleep" /\ counter' = 0
               \/ pc'[p] = "sync" /\ counter = 0 /\ counter' = counter
               \/ pc'[p] = "report" /\ counter # 0 /\ counter' = counter
        BY <3>4 DEF Enter, TypeOK
      <4>2. Counted => Counted'
        <5> SUFFICES ASSUME Counted
                     PROVE  Counted'
          OBVIOUS
        <5>1. polls' = polls /\ synced' = synced /\ counter \in Nat
          BY <3>4 DEF Enter, TypeOK
        <5>2. \A q \in Polls : q # p => pc'[q] \in {"none", "asleep"}
          BY <3>3, <3>4
        <5>3. CASE pc'[p] = "asleep" /\ counter' = 0
          BY <5>1, <5>2, <5>3 DEF Counted
        <5>4. CASE pc'[p] = "sync" /\ counter = 0 /\ counter' = counter
          BY <5>1, <5>2, <5>4 DEF Counted
        <5>5. CASE pc'[p] = "report" /\ counter # 0 /\ counter' = counter
          <6>1. synced
            BY <5>1, <5>5 DEF Counted
          <6>2. polls <= counter
            BY <3>3, <3>4, <4>1, <5>5 DEF Counted
          <6>3. synced'
            BY <5>1, <6>1
          <6> QED
            BY <5>1, <5>2, <5>5, <6>2, <6>3 DEF Counted
        <5> QED
          BY <4>1, <5>3, <5>4, <5>5
      <4> QED
        BY <3>2, <3>3, <3>4, <3>8, <3>9, <4>2 DEF Enter, SyncInv, MaxPolls
    <3>5. CASE PublishSync(p) /\ ~Wake(p)
      <4>1. pc[p] = "sync" /\ pc'[p] = "report" /\ counter' = counter
        BY <3>5 DEF PublishSync, TypeOK
      <4>2. CASE Up(mClient)
        <5>1. synced' /\ polls' = 0
          BY <3>5, <4>2 DEF PublishSync
        <5>2. Counted'
          BY <3>3, <3>5, <4>1, <5>1 DEF Counted, TypeOK
        <5> QED
          BY <3>3, <3>5, <3>8, <3>9, <5>1, <5>2 DEF SyncInv, MaxPolls
      <4>3. CASE ~Up(mClient)
        <5>1. synced' = synced /\ polls' = polls
          BY <3>5, <4>3 DEF PublishSync, TypeOK
        <5> QED
          BY <3>2, <3>3, <3>5, <3>8, <3>9, <4>3, <5>1 DEF SyncInv, MaxPolls
      <4> QED
        BY <4>2, <4>3
    <3>6. CASE PublishReport(p) /\ ~Wake(p)
      <4>1. pc[p] = "report" /\ pc'[p] = "count" /\ counter' = counter /\ synced' = synced
        BY <3>6 DEF PublishReport, TypeOK
      <4>2. CASE Up(mClient)
        <5>1. synced /\ polls <= counter /\ counter <= CounterLimit
          BY <3>2, <3>6, <4>1, <4>2 DEF SyncInv, Counted, WithinLimit
        <5>2. polls' = polls + 1 /\ polls' <= counter + 1 /\ polls' <= MaxPolls
          BY <3>6, <4>2, <5>1, MqttAssumption DEF PublishReport, TypeOK, MaxPolls
        <5>3. synced'
          BY <4>1, <5>1
        <5>4. \A q \in Polls : q # p => pc'[q] \in {"none", "asleep"}
          BY <3>3, <3>6
        <5>5. Counted'
          BY <4>1, <5>2, <5>3, <5>4 DEF Counted
        <5>6. MaxPolls' = MaxPolls
          BY DEF MaxPolls
        <5> QED
          BY <3>3, <3>6, <3>8, <3>9, <5>2, <5>3, <5>5, <5>6 DEF SyncInv
      <4>3. CASE ~Up(mClient)
        BY <3>2, <3>3, <3>6, <3>8, <3>9, <4>1, <4>3 DEF PublishReport, SyncInv, MaxPolls
      <4> QED
        BY <4>2, <4>3
    <3>7. CASE Count(p) /\ ~Wake(p)
      <4>1. CASE Compare(p)
        <5>1. /\ pc[p] = "count" /\ pc'[p] \in {"clear", "increment"} /\ counter' = counter
              /\ pc'[p] = "increment" => seen'[p] = counter /\ counter < CounterLimit
          BY <4>1 DEF Compare, TypeOK
        <5>2. Counted => Counted'
          BY <3>3, <3>7, <4>1, <5>1 DEF Compare, Counted, TypeOK
        <5>3. WithinLimit => WithinLimit'
          BY <3>3, <3>7, <5>1 DEF WithinLimit
        <5> QED
          BY <3>2, <3>3, <3>7, <4>1, <5>1, <5>2, <5>3 DEF Compare, SyncInv, MaxPolls
      <4>2. CASE Clear(p)
        <5>1. pc[p] = "clear" /\ pc'[p] = "asleep" /\ counter' = 0
          BY <4>2 DEF Clear, TypeOK
        <5>2. Counted => Counted'
          BY <3>3, <3>7, <4>2, <5>1 DEF Clear, Counted, TypeOK
        <5>3. WithinLimit'
          BY <3>3, <3>7, <5>1 DEF WithinLimit
        <5> QED
          BY <3>2, <3>3, <3>7, <4>2, <5>1, <5>2, <5>3 DEF Clear, SyncInv, MaxPolls
      <4>3. CASE Increment(p)
        <5>1. pc[p] = "increment" /\ pc'[p] = "store" /\ counter' = counter
          BY <4>3 DEF Increment, TypeOK
        <5>2. seen'[p] = counter /\ counter < CounterLimit
          BY <3>2, <3>7, <4>3, <5>1 DEF Increment, TypeOK, SyncInv, WithinLimit
        <5>3. Counted => Counted'
          BY <3>3, <3>7, <4>3, <5>1 DEF Increment, Counted, TypeOK
        <5>4. WithinLimit'
          BY <3>3, <3>7, <5>1, <5>2 DEF WithinLimit, TypeOK
        <5> QED
          BY <3>2, <3>3, <3>7, <4>3, <5>1, <5>3, <5>4 DEF Increment, SyncInv, MaxPolls
      <4>4. CASE Store(p)
        <5>1. pc[p] = "store" /\ pc'[p] = "asleep" /\ counter' = (seen[p] + 1) % CounterRange
          BY <4>4 DEF Store, TypeOK
        <5>2. seen[p] = counter /\ counter < CounterLimit
          BY <3>2, <3>7, <5>1 DEF SyncInv, WithinLimit
        <5>3. counter' = counter + 1
          BY <5>1, <5>2, MqttAssumption DEF TypeOK
        <5>4. Counted => Counted'
          BY <3>3, <3>7, <4>4, <5>1, <5>3 DEF Store, Counted, TypeOK
        <5>5. WithinLimit'
          BY <3>3, <3>7, <5>1, <5>2, <5>3 DEF WithinLimit, TypeOK
        <5> QED
          BY <3>2, <3>3, <3>7, <4>4, <5>4, <5>5 DEF Store, SyncInv, MaxPolls
      <4> QED
        BY <3>7, <4>1, <4>2, <4>3, <4>4 DEF Count
    <3> QED
      BY <2>8, <3>1, <3>4, <3>5, <3>6, <3>7 DEF PollTask
  <2>9. CASE UNCHANGED vars
    BY <2>9, NetOnly DEF vars, net, Up
  <2> QED
    BY <2>1, <2>2, <2>3, <2>4, <2>5, <2>6, <2>7, <2>8, <2>9 DEF Next, Handler
<1>3. SyncInv => ServerIsSynced
  BY DEF SyncInv, ServerIsSynced
<1> QED
  BY <1>1, <1>2, <1>3, TypeInvariant, PTL DEF Spec

=============================================================================
