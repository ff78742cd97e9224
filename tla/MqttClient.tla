----------------------------- MODULE MqttClient -----------------------------
(***************************************************************************)
(* The connection of the switch to its MQTT server: the esp-mqtt clients   *)
(* that start() makes, the event handler that runs in the task of each of  *)
(* them, and the polling tasks that report to the server.                  *)
(*                                                                         *)
(* A client that lost its connection tries again by itself, and the        *)
(* handler makes another one besides: all of them share one mqtt_client_ex *)
(* object without a lock.  A polling task that is "asleep" may wake up at  *)
(* any time.  Commands are delivered to module Switches; the energy in the *)
(* reports is in module Energy.                                            *)
(***************************************************************************)
EXTENDS Naturals, FiniteSets

CONSTANTS
  Clients,       \* the esp-mqtt clients the heap has room for
  Polls,         \* the polling tasks the heap has room for
  CounterLimit,  \* the 10800 of pollData
  CounterRange   \* the 2^16 values of the counter, a uint16_t

ASSUME MqttAssumption ==
  /\ CounterLimit \in Nat \ {0}
  /\ CounterRange \in Nat /\ CounterRange > CounterLimit
  /\ Clients \cap {"main", "NULL"} = {}

\* The tasks that run start(): app_main's, and those of the clients.
Starters == Clients \cup {"main"}

VARIABLES
  wifi,      \* wifi_sta::isConnected()
  client,    \* where each client and its task are; "main" is app_main
  mClient,   \* the client that publishes
  close,     \* no connection, or so the last event said
  counter,   \* mUpdateCounter
  pc,        \* where each polling task is
  seen,      \* the counter as each has read it to increment it
  synced,    \* history: mClient's connection has seen a sync
  polls,     \* history: reports since that sync
  straddled  \* history: two polls, or a poll and an event, overlapped

net == <<wifi, client, mClient, close>>
sync == <<synced, polls, straddled>>
vars == <<net, counter, pc, seen, sync>>

\* The reports one sync may be followed by; the history counts one more.
MaxPolls == CounterLimit + 1

Init ==
  /\ wifi = FALSE
  /\ client = [x \in Starters |-> IF x = "main" THEN "wait" ELSE "none"]
  /\ mClient = "NULL"
  /\ close = TRUE
  /\ counter = 0
  /\ pc = [p \in Polls |-> "none"]
  /\ seen = [p \in Polls |-> 0]
  /\ synced = FALSE /\ polls = 0 /\ straddled = FALSE

Up(c) == c \in Clients /\ client[c] \in {"up", "subscribed"}

\* The tasks that are inside pollData.
InPoll == {p \in Polls : pc[p] \notin {"none", "asleep"}}

-----------------------------------------------------------------------------
\* The network and the server.

\* A client whose connection is lost, or that could not connect, has a
\* DISCONNECTED event to handle.
Drop(C) == client' = [x \in Starters |-> IF x \in C THEN "lost" ELSE client[x]]

WifiChanges ==
  /\ wifi' = ~wifi
  /\ Drop({c \in Clients : wifi /\ Up(c)})
  /\ UNCHANGED <<mClient, close, counter, pc, seen, sync>>

ConnectionLost(c) ==
  /\ Up(c) \/ client[c] = "connecting"
  /\ Drop({c})
  /\ UNCHANGED <<wifi, mClient, close, counter, pc, seen, sync>>

\* start(), up to esp_mqtt_client_init, which gives NULL when the heap is
\* used up.
InitClient(x) ==
  /\ client[x] = "wait"
  /\ wifi
  /\ \/ \E n \in Clients :
          /\ client[n] = "none"
          /\ mClient' = n
          /\ client' = [client EXCEPT ![n] = "made", ![x] = "init"]
     \/ /\ \A n \in Clients : client[n] # "none"
        /\ mClient' = "NULL"
        /\ client' = [client EXCEPT ![x] = "init"]
  /\ UNCHANGED <<wifi, close, counter, pc, seen, sync>>

\* esp_mqtt_client_start, of whatever mClient is by now: it refuses a client
\* that is started already, and then start() is run again.  After it the
\* task of a client goes on to try its own connection again.
StartClient(x) ==
  /\ client[x] = "init"
  /\ IF mClient \in Clients /\ client[mClient] = "made"
     THEN client' = [client EXCEPT
                       ![mClient] = "connecting",
                       ![x] = IF x = "main" THEN "done" ELSE "connecting"]
     ELSE client' = [client EXCEPT ![x] = "wait"]
  /\ UNCHANGED <<wifi, mClient, close, counter, pc, seen, sync>>

-----------------------------------------------------------------------------
\* eventHandler.

\* Mutant: the counter goes on from the last connection.
Connected_KeepsCounter(c) ==
  /\ wifi
  /\ client[c] = "connecting"
  /\ client' = [x \in Starters |-> IF x = c THEN "up"
                                   ELSE IF Up(x) THEN "lost" ELSE client[x]]
  /\ close' = FALSE
  /\ synced' = FALSE /\ polls' = 0 /\ straddled' = (InPoll # {})
  /\ UNCHANGED <<wifi, mClient, counter, pc, seen>>

\* MQTT_EVENT_CONNECTED.  The clients share one client id, so the server
\* closes the connection another of them still has.
Connected(c) ==
  /\ wifi
  /\ client[c] = "connecting"
  /\ client' = [x \in Starters |-> IF x = c THEN "up"
                                   ELSE IF Up(x) THEN "lost" ELSE client[x]]
  /\ counter' = 0
  /\ close' = FALSE
  /\ synced' = FALSE /\ polls' = 0 /\ straddled' = (InPoll # {})
  /\ UNCHANGED <<wifi, mClient, pc, seen>>

\* MQTT_EVENT_SUBSCRIBED: one more polling task, where there is room.
Subscribed(c) ==
  /\ client[c] = "up"
  /\ client' = [client EXCEPT ![c] = "subscribed"]
  /\ \/ \E p \in Polls : pc[p] = "none" /\ pc' = [pc EXCEPT ![p] = "asleep"]
     \/ (\A p \in Polls : pc[p] # "none") /\ UNCHANGED pc
  /\ UNCHANGED <<wifi, mClient, close, counter, seen, sync>>

\* Mutant: the end of a connection is not noted.
Disconnected_StaysOpen(c) ==
  /\ client[c] = "lost"
  /\ counter' = 0
  /\ client' = [client EXCEPT ![c] = "wait"]
  /\ straddled' = (straddled \/ InPoll # {})
  /\ UNCHANGED <<wifi, mClient, close, pc, seen, synced, polls>>

\* Mutant: the client is destroyed, although mClient may be that client.
Disconnected_Destroys(c) ==
  /\ client[c] = "lost"
  /\ close' = TRUE
  /\ counter' = 0
  /\ client' = [client EXCEPT ![c] = "none"]
  /\ straddled' = (straddled \/ InPoll # {})
  /\ UNCHANGED <<wifi, mClient, pc, seen, synced, polls>>

\* MQTT_EVENT_DISCONNECTED, up to its call of start().
Disconnected(c) ==
  /\ client[c] = "lost"
  /\ close' = TRUE
  /\ counter' = 0
  /\ client' = [client EXCEPT ![c] = "wait"]
  /\ straddled' = (straddled \/ InPoll # {})
  /\ UNCHANGED <<wifi, mClient, pc, seen, synced, polls>>

-----------------------------------------------------------------------------
\* startPollingTask and pollData.

Goes(p, from, to) == pc[p] = from /\ pc' = [pc EXCEPT ![p] = to]

\* Mutant: the task does not look whether there is a connection.
Wake_Always(p) ==
  /\ Goes(p, "asleep", "poll")
  /\ straddled' = (straddled \/ InPoll # {})
  /\ UNCHANGED <<net, counter, seen, synced, polls>>

Wake(p) ==
  /\ Goes(p, "asleep", IF close THEN "none" ELSE "poll")
  /\ straddled' = (straddled \/ (~close /\ InPoll # {}))
  /\ UNCHANGED <<net, counter, seen, synced, polls>>

\* The connection is looked at again, and the counter.
Enter(p) ==
  /\ IF close
     THEN Goes(p, "poll", "asleep") /\ counter' = 0
     ELSE Goes(p, "poll", IF counter = 0 THEN "sync" ELSE "report")
          /\ UNCHANGED counter
  /\ UNCHANGED <<net, seen, sync>>

\* sync_relay_states, published by a client that may not be connected.
PublishSync(p) ==
  /\ Goes(p, "sync", "report")
  /\ synced' = (synced \/ Up(mClient))
  /\ polls' = IF Up(mClient) THEN 0 ELSE polls
  /\ UNCHANGED <<net, counter, seen, straddled>>

\* The report itself.
PublishReport(p) ==
  /\ Goes(p, "report", "count")
  /\ polls' = IF Up(mClient) /\ polls <= MaxPolls THEN polls + 1 ELSE polls
  /\ UNCHANGED <<net, counter, seen, synced, straddled>>

\* The counter is compared with its limit, and then cleared or incremented:
\* the increment goes on from the value compared, or reads the counter again.
Compare(p) ==
  /\ \/ counter >= CounterLimit /\ Goes(p, "count", "clear") /\ UNCHANGED seen
     \/ counter < CounterLimit /\ Goes(p, "count", "increment")
        /\ seen' = [seen EXCEPT ![p] = counter]
  /\ UNCHANGED <<net, counter, sync>>

Clear(p) ==
  /\ Goes(p, "clear", "asleep")
  /\ counter' = 0
  /\ UNCHANGED <<net, seen, sync>>

Increment(p) ==
  /\ Goes(p, "increment", "store")
  /\ seen' \in {seen, [seen EXCEPT ![p] = counter]}
  /\ UNCHANGED <<net, counter, sync>>

Store(p) ==
  /\ Goes(p, "store", "asleep")
  /\ counter' = (seen[p] + 1) % CounterRange
  /\ seen' = [seen EXCEPT ![p] = 0]
  /\ UNCHANGED <<net, sync>>

Count(p) == Compare(p) \/ Clear(p) \/ Increment(p) \/ Store(p)

-----------------------------------------------------------------------------
PollTask(p) ==
  \/ Wake(p) \/ Enter(p) \/ PublishSync(p) \/ PublishReport(p) \/ Count(p)

Handler(c) == Subscribed(c) \/ Disconnected(c)

Next ==
  \/ WifiChanges
  \/ \E x \in Starters : InitClient(x) \/ StartClient(x)
  \/ \E c \in Clients : ConnectionLost(c) \/ Connected(c) \/ Handler(c)
  \/ \E p \in Polls : PollTask(p)

Spec == Init /\ [][Next]_vars

\* The scheduler runs the polling tasks and the handlers of the events that
\* have come; nothing is asked of the network, or the server.
FairSpec ==
  /\ Spec
  /\ \A p \in Polls : WF_vars(PollTask(p))
  /\ \A c \in Clients : WF_vars(Handler(c))

-----------------------------------------------------------------------------
\* Every variable has its type, and a client is published through only after
\* it was made.
TypeOK ==
  /\ wifi \in BOOLEAN
  /\ client \in [Starters -> {"none", "made", "connecting", "up", "subscribed",
                              "lost", "wait", "init", "done"}]
  /\ mClient \in Clients \cup {"NULL"}
  /\ mClient \in Clients => client[mClient] # "none"
  /\ client["main"] \in {"wait", "init", "done"}
  /\ close \in BOOLEAN
  /\ counter \in 0..CounterRange - 1
  /\ pc \in [Polls -> {"none", "asleep", "poll", "sync", "report", "count",
                      "clear", "increment", "store"}]
  /\ seen \in [Polls -> 0..CounterRange - 1]
  /\ synced \in BOOLEAN /\ polls \in Nat /\ straddled \in BOOLEAN

\* While the polling tasks are told that there is a connection, a client has
\* one, or has lost it and is about to say so.
OpenIsConnected ==
  ~close => \E c \in Clients : Up(c) \/ client[c] = "lost"

\* The server gets sync_relay_states first on every connection, and again at
\* the latest with every 10801st report, unless two polls overlapped or an
\* event came in the middle of one.
ServerIsSynced ==
  ~straddled => /\ polls > 0 => synced
                /\ polls <= MaxPolls

\* Where the station stays disconnected, polling comes to an end, whatever
\* number of tasks the reconnections before had left.
PollingEnds == <>[]~wifi => <>[](\A p \in Polls : pc[p] = "none")

\* "Update every 1 minute": as every polling task reports once a minute, one
\* of them at most is alive while there is a connection and every event of
\* the connections before has been handled.
UpdateInterval ==
  ~close /\ (\A c \in Clients : client[c] # "lost") =>
    \A p, q \in Polls : pc[p] # "none" /\ pc[q] # "none" => p = q

=============================================================================
