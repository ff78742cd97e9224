--------------------------- MODULE SwitchesProofs ---------------------------
(***************************************************************************)
(* Theorems of Switches for any number of toggle and polling tasks and any *)
(* commands: the types, that a channel nothing has disturbed since a       *)
(* command put it right ends where it was last told to go and is reported  *)
(* so, and that its relay goes nowhere else on the way.                    *)
(***************************************************************************)
EXTENDS Switches, TLAPS, SequenceTheorems

\* The pointer is set once a task has a connector, and only those who may set a
\* relay ever get there.
PlaceInv ==
  /\ pc["mqtt"] # "arg"
  /\ \A p \in Pollers : pc[p] \notin {"arg", "gpio", "mem"}
  /\ \A a \in Actors : pc[a] \in {"have", "gpio", "mem"} => inst[a] \in Actors
  /\ \A a \in Actors : pc[a] \in {"gpio", "mem"} => chan[a] \in Channels

\* A connector is made once the pointer was found NULL, which it is until the
\* first one is assigned; and no relay is set before.
PointerInv ==
  /\ \A a \in Actors : pc[a] \in {"new", "assign"} => mInstance # a
  /\ mInstance = NoObject =>
       /\ \A ch \in Channels : ~relay[ch]
       /\ \A a \in Actors : pc[a] \notin {"have", "gpio", "mem"}

\* A command is worked on from its head, and is empty when the task is idle.
CommandInv ==
  /\ pc["mqtt"] = "idle" => todo = <<>>
  /\ pc["mqtt"] \in {"gpio", "mem"} =>
       todo # <<>> /\ chan["mqtt"] = ChannelOf(Head(todo).type) /\ val["mqtt"] = Head(todo).on

\* Task a has set the relay of channel ch and has still to remember it.
AtMem(a, ch) == pc[a] = "mem" /\ chan[a] = ch

\* A channel that nothing has disturbed: one edge or one task is at work on it
\* at most, which will bring the relay where it is wanted;
Alone(ch) ==
  /\ \A a, b \in Actors : WorksOn(a, ch) /\ WorksOn(b, ch) => a = b
  /\ Pin(ch) \in edges => \A a \in Actors : ~WorksOn(a, ch)

Towards(ch) ==
  /\ Pin(ch) \in edges => wanted[ch] = ~relay[ch]
  /\ \A t \in ToggleTasks : WorksOn(t, ch) =>
       IF pc[t] \in {"gpio", "mem"} THEN val[t] = wanted[ch]
                                    ELSE wanted[ch] = ~relay[ch]
  /\ \A i \in 1..Len(todo) : LastOf(todo, i, ch) => todo[i].on = wanted[ch]
  /\ ~Busy(ch) => relay[ch] = wanted[ch]

\* and those at work on it share one connector, which remembers the relay, or will
\* when a command has come to it.
OneConnector(ch) ==
  /\ \A a \in Actors : pc[a] \in {"have", "gpio", "mem"} /\ WorksOn(a, ch) =>
                         inst[a] = mInstance
  /\ mInstance = NoObject /\ ~WorksOn("mqtt", ch) =>
       \A a \in Actors : pc[a] = "assign" => ~mState[a][ch]
  /\ \A a \in Actors : AtMem(a, ch) => relay[ch] = val[a]
  /\ mInstance # NoObject /\ ~WorksOn("mqtt", ch) /\ (\A a \in Actors : ~AtMem(a, ch)) =>
       mState[mInstance][ch] = relay[ch]

Undisturbed == \A ch \in Channels \ disturbed : Alone(ch) /\ Towards(ch) /\ OneConnector(ch)

IInv == TypeOK /\ PlaceInv /\ PointerInv /\ CommandInv /\ Undisturbed

-----------------------------------------------------------------------------
\* The actors, the channels and their pins.
LEMMA Names ==
  /\ "mqtt" \in Actors /\ ToggleTasks \subseteq Actors /\ Pollers \subseteq Actors
  /\ "mqtt" \notin ToggleTasks /\ "mqtt" \notin Pollers /\ ToggleTasks \cap Pollers = {}
  /\ NoObject \notin Actors
  /\ \A a \in Actors : a \in ToggleTasks \/ a \in Pollers \/ a = "mqtt"
BY SwitchesAssumption DEF Actors, NoObject

LEMMA ChannelsAre ==
  /\ Channels = {0, 1} /\ Unhandled = 2 /\ Unhandled \notin Channels
  /\ Pin(0) = 32 /\ Pin(1) = 33
  /\ \A type : ChannelOf(type) \in Channels \cup {Unhandled}
<1>1. Channels = {0, 1} /\ Unhandled = 2 /\ Pin(0) = 32 /\ Pin(1) = 33
  BY DEF Channels, CONTROLLER_CHANNEL_1, CONTROLLER_CHANNEL_2, Unhandled, Pin, SW_1_PIN, SW_2_PIN
<1>2. \A type : ChannelOf(type) \in Channels \cup {Unhandled}
  BY DEF ChannelOf, Channels
<1> QED
  BY <1>1, <1>2

\* A step is one action of one task.
LEMMA Steps ==
  ASSUME [Next]_vars
  PROVE  \/ \E ch \in Channels : PressSwitch(ch)
         \/ PressConfig \/ handleInterruptGpio \/ ClearStates
         \/ \E command \in Commands : Deliver(command)
         \/ \E t \in ToggleTasks : toggleChannel(t) \/ ReadState(t)
         \/ \E p \in Pollers : Poll(p) \/ Report(p)
         \/ NextElement \/ CommandDone
         \/ \E a \in Actors : \/ getInstance(a) \/ Construct(a) \/ Assign(a)
                             \/ SetLevel(a) \/ SetState(a)
         \/ UNCHANGED vars
BY Names DEF Next, ToggleTask, MqttTask, PollTask, Connector

\* What the history does.
LEMMA Told ==
  ASSUME NEW hit, NEW set, NEW asked, History(hit, set, asked)
  PROVE  /\ \A ch \in disturbed : ch \notin set => ch \in disturbed'
         /\ \A ch \in Channels : ch \in hit => ch \in disturbed'
         /\ \A ch \in disturbed' : ch \in disturbed \/ (ch \in hit /\ ch \in Channels)
         /\ wanted' \in [Channels -> BOOLEAN]
         /\ \A ch \in Channels : ch \notin disturbed' => (wanted'[ch] <=> asked[ch])
<1>1. /\ disturbed' = (disturbed \ set) \cup (hit \cap Channels)
      /\ wanted' = [ch \in Channels |-> ch \notin disturbed' /\ asked[ch]]
  BY DEF History
<1>2. wanted' \in [Channels -> BOOLEAN]
  BY <1>1
<1>3. \A ch \in Channels : ch \notin disturbed' => (wanted'[ch] <=> asked[ch])
  BY <1>1
<1> QED
  BY <1>1, <1>2, <1>3

-----------------------------------------------------------------------------
\* The types.
LEMMA TypesInit == Init => TypeOK /\ PlaceInv /\ PointerInv /\ CommandInv
<1> SUFFICES ASSUME Init PROVE TypeOK /\ PlaceInv /\ PointerInv /\ CommandInv
  OBVIOUS
<1>1. TypeOK
  <2>1. /\ relay \in [Channels -> BOOLEAN] /\ cleared \in BOOLEAN
        /\ wanted \in [Channels -> BOOLEAN] /\ disturbed \subseteq Channels
    BY Zenon DEF Init
  <2>2. mState \in [Actors -> [Channels -> BOOLEAN]] /\ val \in [Actors -> BOOLEAN]
    BY Zenon DEF Init
  <2>3. /\ edges \subseteq {SW_PIN, SW_1_PIN, SW_2_PIN} /\ mInstance \in Actors \cup {NoObject}
        /\ sent \in [ToggleTasks -> Channels \cup {Unhandled}]
        /\ chan \in [Actors -> Channels \cup {Unhandled}]
        /\ inst \in [Actors -> Actors \cup {NoObject}]
    BY Zenon DEF Init
  <2>4. /\ pc \in [Actors -> {"idle", "arg", "get", "new", "assign", "have", "gpio", "mem"}]
        /\ todo \in Seq([type : Nat, on : BOOLEAN])
        /\ \A a \in Actors : pc[a] = "idle"
    BY DEF Init
  <2> QED
    BY <2>1, <2>2, <2>3, <2>4 DEF TypeOK
<1>2. PlaceInv /\ CommandInv
  BY Names DEF Init, PlaceInv, CommandInv
<1>3. PointerInv
  BY Names DEF Init, PointerInv
<1> QED
  BY <1>1, <1>2, <1>3

\* A task that ends, and one that has set its channel.
LEMMA EndsOK ==
  ASSUME TypeOK, NEW a \in Actors, Ends(a)
  PROVE  /\ pc' = [pc EXCEPT ![a] = "idle"]
         /\ sent' \in [ToggleTasks -> Channels \cup {Unhandled}]
         /\ chan' \in [Actors -> Channels \cup {Unhandled}]
         /\ inst' \in [Actors -> Actors \cup {NoObject}]
         /\ val' \in [Actors -> BOOLEAN]
         /\ \A b \in Actors : b # a => chan'[b] = chan[b] /\ inst'[b] = inst[b] /\ val'[b] = val[b]
         /\ \A t \in ToggleTasks : t # a => sent'[t] = sent[t]
         /\ pc' \in [Actors -> {"idle", "arg", "get", "new", "assign", "have", "gpio", "mem"}]
         /\ \A b \in Actors : pc'[b] \in {"gpio", "mem"} => chan'[b] \in Channels
         /\ \A b \in Actors : pc'[b] \in {"have", "gpio", "mem"} => inst'[b] \in Actors
<1>1. val' \in [Actors -> BOOLEAN]
  BY DEF Ends, TypeOK
<1>2. /\ sent' \in [ToggleTasks -> Channels \cup {Unhandled}]
      /\ chan' \in [Actors -> Channels \cup {Unhandled}]
      /\ inst' \in [Actors -> Actors \cup {NoObject}]
  BY DEF Ends, TypeOK
<1>3. \A b \in Actors : b # a => pc'[b] = pc[b] /\ chan'[b] = chan[b] /\ inst'[b] = inst[b]
  BY DEF Ends, TypeOK
<1>4. pc'[a] = "idle"
  BY DEF Ends, TypeOK
<1> QED
  BY <1>1, <1>2, <1>3, <1>4 DEF Ends, TypeOK

\* The elements of a command that is not done.
LEMMA Elements ==
  ASSUME TypeOK, todo # <<>>
  PROVE  /\ Head(todo) \in [type : Nat, on : BOOLEAN] /\ Head(todo) = todo[1]
         /\ Tail(todo) \in Seq([type : Nat, on : BOOLEAN])
         /\ Len(todo) \in Nat /\ Len(todo) > 0 /\ Len(Tail(todo)) = Len(todo) - 1
         /\ \A i \in 1..Len(Tail(todo)) : Tail(todo)[i] = todo[i + 1]
<1> DEFINE E == [type : Nat, on : BOOLEAN]
<1>1. todo \in Seq(E)
  BY DEF TypeOK
<1> HIDE DEF E
<1>2. /\ Head(todo) \in E /\ Tail(todo) \in Seq(E) /\ Len(Tail(todo)) = Len(todo) - 1
      /\ \A i \in 1..Len(Tail(todo)) : Tail(todo)[i] = todo[i + 1]
  BY <1>1, HeadTailProperties
<1>3. Head(todo) = todo[1] /\ Len(todo) \in Nat /\ Len(todo) > 0
  BY <1>1, EmptySeq
<1> QED
  BY <1>2, <1>3 DEF E

LEMMA TypesNext == TypeOK /\ PlaceInv /\ CommandInv /\ [Next]_vars => TypeOK'
<1> SUFFICES ASSUME TypeOK, PlaceInv, CommandInv, [Next]_vars PROVE TypeOK'
  OBVIOUS
<1>e. ASSUME NEW a \in Actors, Ends(a)
      PROVE  /\ sent' \in [ToggleTasks -> Channels \cup {Unhandled}]
             /\ chan' \in [Actors -> Channels \cup {Unhandled}]
             /\ inst' \in [Actors -> Actors \cup {NoObject}]
             /\ val' \in [Actors -> BOOLEAN]
             /\ pc' \in [Actors -> {"idle", "arg", "get", "new", "assign", "have", "gpio", "mem"}]
             /\ \A b \in Actors : pc'[b] \in {"gpio", "mem"} => chan'[b] \in Channels
             /\ \A b \in Actors : pc'[b] \in {"have", "gpio", "mem"} => inst'[b] \in Actors
  BY <1>e, EndsOK
<1>l. todo # <<>> =>
        /\ Head(todo) \in [type : Nat, on : BOOLEAN]
        /\ Tail(todo) \in Seq([type : Nat, on : BOOLEAN])
  BY Elements
<1> USE DEF TypeOK
<1> DEFINE Places == {"idle", "arg", "get", "new", "assign", "have", "gpio", "mem"}
<1>n. "mqtt" \in Actors /\ NoObject \notin Actors /\ ToggleTasks \subseteq Actors /\ Pollers \subseteq Actors
  BY Names
<1>h. ASSUME NEW hit, NEW set, NEW asked, History(hit, set, asked)
      PROVE  wanted' \in [Channels -> BOOLEAN] /\ disturbed' \subseteq Channels
  BY <1>h, Told DEF History
<1>1. ASSUME NEW ch \in Channels, PressSwitch(ch) PROVE TypeOK'
  <2>1. edges' \subseteq {SW_PIN, SW_1_PIN, SW_2_PIN}
    BY <1>1 DEF PressSwitch, Pin
  <2>2. wanted' \in [Channels -> BOOLEAN] /\ disturbed' \subseteq Channels
    BY <1>1, <1>h DEF PressSwitch
  <2> QED
    BY <1>1, <2>1, <2>2 DEF PressSwitch
<1>2. CASE PressConfig \/ ClearStates
  BY <1>2 DEF PressConfig, ClearStates
<1>3. CASE handleInterruptGpio
  <2>0. PICK served \in SUBSET Channels : \E taskOf \in [served -> IdleTasks] :
          /\ pc' = [a \in Actors |-> IF \E c \in served : taskOf[c] = a THEN "arg" ELSE pc[a]]
          /\ sent' = [t \in ToggleTasks |->
                       IF \E c \in served : taskOf[c] = t
                       THEN CHOOSE c \in served : taskOf[c] = t ELSE sent[t]]
          /\ History({ch \in Channels \ served : Pin(ch) \in edges}, {}, wanted)
    BY <1>3 DEF handleInterruptGpio
  <2>1. PICK taskOf \in [served -> IdleTasks] :
          /\ pc' = [a \in Actors |-> IF \E c \in served : taskOf[c] = a THEN "arg" ELSE pc[a]]
          /\ sent' = [t \in ToggleTasks |->
                       IF \E c \in served : taskOf[c] = t
                       THEN CHOOSE c \in served : taskOf[c] = t ELSE sent[t]]
          /\ History({ch \in Channels \ served : Pin(ch) \in edges}, {}, wanted)
    BY <2>0
  <2>2. pc' \in [Actors -> Places]
    BY <2>1
  <2>3. sent' \in [ToggleTasks -> Channels \cup {Unhandled}]
    BY <2>1
  <2>4. wanted' \in [Channels -> BOOLEAN] /\ disturbed' \subseteq Channels
    BY <2>1, <1>h
  <2>5. edges' = {} /\ UNCHANGED <<relay, cleared, mInstance, mState, chan, inst, val, todo>>
    BY <1>3 DEF handleInterruptGpio
  <2>6. \A a \in Actors : pc'[a] \in {"have", "gpio", "mem"} => pc[a] = pc'[a]
    BY <2>1
  <2> QED
    BY <2>2, <2>3, <2>4, <2>5, <2>6
<1>4. ASSUME NEW command \in Commands, Deliver(command) PROVE TypeOK'
  <2>1. wanted' \in [Channels -> BOOLEAN] /\ disturbed' \subseteq Channels
    BY <1>4, <1>h DEF Deliver
  <2> QED
    BY <1>4, <1>n, <2>1, SwitchesAssumption DEF Deliver
<1>5. ASSUME NEW t \in ToggleTasks, toggleChannel(t) PROVE TypeOK'
  <2>1. PICK channel \in atoi :
          /\ chan' = [chan EXCEPT ![t] = channel]
          /\ History(IF channel = sent[t] THEN {} ELSE {channel, sent[t]}, {}, wanted)
    BY <1>5 DEF toggleChannel
  <2>2. channel \in Channels \cup {Unhandled}
    BY <2>1 DEF atoi
  <2>3. wanted' \in [Channels -> BOOLEAN] /\ disturbed' \subseteq Channels
    BY <2>1, <1>h
  <2>4. chan' \in [Actors -> Channels \cup {Unhandled}] /\ t \in Actors
    BY <1>n, <2>1, <2>2
  <2> QED
    BY <1>5, <2>1, <2>3, <2>4 DEF toggleChannel
<1>6. ASSUME NEW t \in ToggleTasks, ReadState(t) PROVE TypeOK'
  <2>1. CASE chan[t] = Unhandled
    <3>1. Ends(t) /\ t \in Actors
      BY <1>6, <1>n, <2>1 DEF ReadState
    <3> QED
      BY <1>6, <1>e, <3>1 DEF ReadState, Rest
  <2>2. CASE chan[t] # Unhandled
    <3>1. t \in Actors /\ inst[t] \in Actors /\ chan[t] \in Channels
      BY <1>6, <1>n, <2>2 DEF ReadState, PlaceInv
    <3>2. val' = [val EXCEPT ![t] = ~mState[inst[t]][chan[t]]]
      BY <1>6, <2>2 DEF ReadState
    <3>3. val' \in [Actors -> BOOLEAN]
      BY <3>1, <3>2
    <3> QED
      <4>1. /\ pc' = [pc EXCEPT ![t] = "gpio"]
            /\ UNCHANGED <<Rest, sent, chan, inst, mInstance, mState, wanted, disturbed>>
        BY <1>6, <2>2 DEF ReadState
      <4>2. pc' \in [Actors -> Places]
        BY <4>1
      <4> QED
        BY <3>1, <3>3, <4>1, <4>2 DEF Rest
  <2> QED
    BY <2>1, <2>2
<1>7. ASSUME NEW p \in Pollers, Poll(p) PROVE TypeOK'
  BY <1>7, <1>n DEF Poll
<1>8. ASSUME NEW p \in Pollers, Report(p) PROVE TypeOK'
  <2>1. Ends(p) /\ p \in Actors
    BY <1>8, <1>n DEF Report
  <2> QED
    BY <1>8, <1>e, <2>1 DEF Report, Rest
<1>9. CASE NextElement
  <2>1. Head(todo) \in [type : Nat, on : BOOLEAN] /\ Tail(todo) \in Seq([type : Nat, on : BOOLEAN])
    BY <1>9, <1>l DEF NextElement
  <2>2. CASE ChannelOf(Head(todo).type) = Unhandled
    BY <1>9, <2>1, <2>2 DEF NextElement
  <2>3. CASE ChannelOf(Head(todo).type) # Unhandled
    <3>1. /\ pc' = [pc EXCEPT !["mqtt"] = "gpio"]
          /\ chan' = [chan EXCEPT !["mqtt"] = ChannelOf(Head(todo).type)]
          /\ val' = [val EXCEPT !["mqtt"] = Head(todo).on]
          /\ UNCHANGED todo /\ pc["mqtt"] = "have"
      BY <1>9, <2>3 DEF NextElement
    <3>2. val' \in [Actors -> BOOLEAN]
      BY <2>1, <3>1
    <3>3. ChannelOf(Head(todo).type) \in Channels /\ inst["mqtt"] \in Actors
      BY <1>n, <2>3, <3>1, ChannelsAre DEF PlaceInv
    <3> QED
      BY <1>9, <1>n, <3>1, <3>2, <3>3 DEF NextElement
  <2> QED
    BY <2>2, <2>3
<1>10. CASE CommandDone
  BY <1>10, <1>n, <1>e DEF CommandDone, Rest
<1>11. ASSUME NEW a \in Actors, getInstance(a) PROVE TypeOK'
  BY <1>11 DEF getInstance, Rest
<1>12. ASSUME NEW a \in Actors, Construct(a) PROVE TypeOK'
  <2>1. wanted' \in [Channels -> BOOLEAN] /\ disturbed' \subseteq Channels
    BY <1>12, <1>h DEF Construct
  <2>2. mState' \in [Actors -> [Channels -> BOOLEAN]]
    BY <1>12 DEF Construct
  <2> QED
    BY <1>12, <2>1, <2>2 DEF Construct, Rest
<1>13. ASSUME NEW a \in Actors, Assign(a) PROVE TypeOK'
  <2>1. wanted' \in [Channels -> BOOLEAN] /\ disturbed' \subseteq Channels
    BY <1>13, <1>h DEF Assign
  <2> QED
    BY <1>13, <2>1 DEF Assign, Rest
<1>14. ASSUME NEW a \in Actors, SetLevel(a) PROVE TypeOK'
  <2>1. relay' \in [Channels -> BOOLEAN]
    BY <1>14 DEF SetLevel
  <2> QED
    BY <1>14, <2>1 DEF SetLevel
<1>15. ASSUME NEW a \in Actors, SetState(a) PROVE TypeOK'
  <2>1. mState' \in [Actors -> [Channels -> BOOLEAN]]
    BY <1>15 DEF SetState
  <2>2. CASE a = "mqtt"
    <3>1. Tail(todo) \in Seq([type : Nat, on : BOOLEAN])
      BY <1>15, <1>l, <2>2 DEF SetState, CommandInv
    <3>2. val' \in [Actors -> BOOLEAN]
      BY <1>15, <2>2 DEF SetState, SetDone
    <3> QED
      <4>1. /\ pc' = [pc EXCEPT ![a] = "have"] /\ chan' = [chan EXCEPT ![a] = Unhandled]
            /\ todo' = Tail(todo)
            /\ UNCHANGED <<inst, sent, edges, relay, cleared, mInstance, wanted, disturbed>>
        BY <1>15, <2>2 DEF SetState, SetDone
      <4>2. pc' \in [Actors -> Places] /\ chan' \in [Actors -> Channels \cup {Unhandled}]
        BY <4>1
      <4>3. \A b \in Actors : pc'[b] \in {"gpio", "mem"} =>
              pc[b] = pc'[b] /\ chan'[b] = chan[b]
        BY <4>1
      <4>4. \A b \in Actors : pc'[b] \in {"have", "gpio", "mem"} => inst'[b] \in Actors
        BY <1>15, <4>1 DEF SetState
      <4> QED
        BY <2>1, <3>1, <3>2, <4>1, <4>2, <4>3, <4>4
  <2>3. CASE a # "mqtt"
    <3>1. Ends(a) /\ UNCHANGED <<todo, edges, relay, cleared, mInstance, wanted, disturbed>>
      BY <1>15, <2>3 DEF SetState, SetDone
    <3> QED
      BY <1>e, <2>1, <3>1
  <2> QED
    BY <2>2, <2>3
<1>16. CASE UNCHANGED vars
  BY <1>16 DEF vars
<1> QED
  BY <1>1, <1>2, <1>3, <1>4, <1>5, <1>6, <1>7, <1>8, <1>9, <1>10, <1>11, <1>12, <1>13,
     <1>14, <1>15, <1>16, Steps

\* Where the tasks are, and what the MQTT task is at.
LEMMA PlaceNext == TypeOK /\ PlaceInv /\ CommandInv /\ [Next]_vars => PlaceInv' /\ CommandInv'
<1> SUFFICES ASSUME TypeOK, PlaceInv, CommandInv, [Next]_vars PROVE PlaceInv' /\ CommandInv'
  OBVIOUS
<1>n. /\ "mqtt" \in Actors /\ NoObject \notin Actors
      /\ ToggleTasks \subseteq Actors /\ Pollers \subseteq Actors
      /\ "mqtt" \notin ToggleTasks /\ "mqtt" \notin Pollers /\ ToggleTasks \cap Pollers = {}
  BY Names
<1>t. /\ pc \in [Actors -> {"idle", "arg", "get", "new", "assign", "have", "gpio", "mem"}]
      /\ chan \in [Actors -> Channels \cup {Unhandled}]
      /\ inst \in [Actors -> Actors \cup {NoObject}]
      /\ val \in [Actors -> BOOLEAN] /\ mInstance \in Actors \cup {NoObject}
  BY DEF TypeOK
\* A task goes from one place to another where it is not at a relay.
<1>m. ASSUME NEW a \in Actors, NEW place \in {"idle", "get", "new", "assign", "have"},
             pc' = [pc EXCEPT ![a] = place], place = "have" => inst'[a] \in Actors,
             \A b \in Actors : b # a => chan'[b] = chan[b] /\ inst'[b] = inst[b] /\ val'[b] = val[b],
             a = "mqtt" => (place = "idle" => todo' = <<>>),
             a # "mqtt" => UNCHANGED todo
      PROVE  PlaceInv' /\ CommandInv'
  <2>1. PlaceInv'
    BY <1>m, <1>n, <1>t DEF PlaceInv
  <2>2. CommandInv'
    BY <1>m, <1>n, <1>t DEF CommandInv
  <2> QED
    BY <2>1, <2>2
\* Nothing that is spoken of changes.
<1>u. ASSUME UNCHANGED <<pc, chan, inst, val, todo>> PROVE PlaceInv' /\ CommandInv'
  BY <1>u DEF PlaceInv, CommandInv
<1>e. ASSUME NEW a \in Actors, Ends(a), UNCHANGED todo, a = "mqtt" => todo = <<>>
      PROVE  PlaceInv' /\ CommandInv'
  BY <1>e, <1>m, EndsOK
<1>1. ASSUME NEW ch \in Channels, PressSwitch(ch) PROVE PlaceInv' /\ CommandInv'
  BY <1>1, <1>u DEF PressSwitch
<1>2. CASE PressConfig \/ ClearStates
  BY <1>2, <1>u DEF PressConfig, ClearStates
<1>3. CASE handleInterruptGpio
  <2>1. \A a \in Actors : pc'[a] = pc[a] \/ (pc'[a] = "arg" /\ a \in ToggleTasks)
    <3>1. PICK served \in SUBSET Channels : \E taskOf \in [served -> IdleTasks] :
            pc' = [a \in Actors |-> IF \E c \in served : taskOf[c] = a THEN "arg" ELSE pc[a]]
      BY <1>3 DEF handleInterruptGpio
    <3>2. PICK taskOf \in [served -> IdleTasks] :
            pc' = [a \in Actors |-> IF \E c \in served : taskOf[c] = a THEN "arg" ELSE pc[a]]
      BY <3>1
    <3>3. \A c \in served : taskOf[c] \in ToggleTasks
      BY DEF IdleTasks
    <3> QED
      BY <3>2, <3>3
  <2>2. UNCHANGED <<chan, inst, val, todo>>
    BY <1>3 DEF handleInterruptGpio
  <2>3. PlaceInv'
    BY <1>n, <2>1, <2>2 DEF PlaceInv
  <2>4. CommandInv'
    BY <1>n, <2>1, <2>2 DEF CommandInv
  <2> QED
    BY <2>3, <2>4
<1>4. ASSUME NEW command \in Commands, Deliver(command) PROVE PlaceInv' /\ CommandInv'
  BY <1>4, <1>m, <1>n DEF Deliver
<1>5. ASSUME NEW t \in ToggleTasks, toggleChannel(t) PROVE PlaceInv' /\ CommandInv'
  <2>1. PICK channel : chan' = [chan EXCEPT ![t] = channel]
    BY <1>5 DEF toggleChannel
  <2> QED
    BY <1>5, <1>m, <1>n, <1>t, <2>1 DEF toggleChannel
<1>6. ASSUME NEW t \in ToggleTasks, ReadState(t) PROVE PlaceInv' /\ CommandInv'
  <2>1. CASE chan[t] = Unhandled
    BY <1>6, <1>e, <1>n, <2>1 DEF ReadState, Rest
  <2>2. CASE chan[t] # Unhandled
    <3>1. /\ pc' = [pc EXCEPT ![t] = "gpio"] /\ pc[t] = "have"
          /\ UNCHANGED <<chan, inst, todo>>
          /\ \A b \in Actors : b # t => val'[b] = val[b]
      BY <1>6, <1>t, <2>2 DEF ReadState, Rest
    <3>2. PlaceInv'
      BY <1>n, <1>t, <2>2, <3>1 DEF PlaceInv
    <3>3. CommandInv'
      BY <1>n, <1>t, <3>1 DEF CommandInv
    <3> QED
      BY <3>2, <3>3
  <2> QED
    BY <2>1, <2>2
<1>7. ASSUME NEW p \in Pollers, Poll(p) PROVE PlaceInv' /\ CommandInv'
  BY <1>7, <1>m, <1>n DEF Poll
<1>8. ASSUME NEW p \in Pollers, Report(p) PROVE PlaceInv' /\ CommandInv'
  BY <1>8, <1>e, <1>n DEF Report, Rest
<1>9. CASE NextElement
  <2>1. pc["mqtt"] = "have" /\ todo # <<>> /\ UNCHANGED inst
    BY <1>9 DEF NextElement
  <2>2. CASE ChannelOf(Head(todo).type) = Unhandled
    <3>1. UNCHANGED <<pc, chan, val, inst>>
      BY <1>9, <2>2 DEF NextElement
    <3> QED
      BY <2>1, <3>1 DEF PlaceInv, CommandInv
  <2>3. CASE ChannelOf(Head(todo).type) # Unhandled
    <3>1. /\ pc' = [pc EXCEPT !["mqtt"] = "gpio"]
          /\ chan' = [chan EXCEPT !["mqtt"] = ChannelOf(Head(todo).type)]
          /\ val' = [val EXCEPT !["mqtt"] = Head(todo).on]
          /\ UNCHANGED todo
      BY <1>9, <2>3 DEF NextElement
    <3>2. ChannelOf(Head(todo).type) \in Channels
      BY <2>3, ChannelsAre
    <3>3. PlaceInv'
      BY <1>n, <1>t, <2>1, <3>1, <3>2 DEF PlaceInv
    <3>4. CommandInv'
      BY <1>n, <1>t, <2>1, <3>1 DEF CommandInv
    <3> QED
      BY <3>3, <3>4
  <2> QED
    BY <2>2, <2>3
<1>10. CASE CommandDone
  BY <1>10, <1>e, <1>n DEF CommandDone, Rest
<1>11. ASSUME NEW a \in Actors, getInstance(a) PROVE PlaceInv' /\ CommandInv'
  <2>1. CASE mInstance = NoObject
    BY <1>11, <1>m, <2>1 DEF getInstance, Rest
  <2>2. CASE mInstance # NoObject
    <3>1. /\ inst' = [inst EXCEPT ![a] = mInstance] /\ mInstance \in Actors
          /\ pc' = [pc EXCEPT ![a] = "have"] /\ UNCHANGED <<chan, val, todo>>
      BY <1>11, <1>t, <2>2 DEF getInstance, Rest
    <3> QED
      BY <1>m, <1>t, <3>1
  <2> QED
    BY <2>1, <2>2
<1>12. ASSUME NEW a \in Actors, Construct(a) PROVE PlaceInv' /\ CommandInv'
  BY <1>12, <1>m DEF Construct, Rest
<1>13. ASSUME NEW a \in Actors, Assign(a) PROVE PlaceInv' /\ CommandInv'
  <2>1. /\ inst' = [inst EXCEPT ![a] = a]
        /\ pc' = [pc EXCEPT ![a] = "have"] /\ UNCHANGED <<chan, val, todo>>
    BY <1>13 DEF Assign, Rest
  <2> QED
    BY <1>m, <1>t, <2>1
<1>14. ASSUME NEW a \in Actors, SetLevel(a) PROVE PlaceInv' /\ CommandInv'
  <2>1. pc' = [pc EXCEPT ![a] = "mem"] /\ pc[a] = "gpio" /\ UNCHANGED <<chan, inst, val, todo>>
    BY <1>14 DEF SetLevel
  <2>2. PlaceInv'
    BY <1>n, <1>t, <2>1 DEF PlaceInv
  <2>3. CommandInv'
    BY <1>n, <1>t, <2>1 DEF CommandInv
  <2> QED
    BY <2>2, <2>3
<1>15. ASSUME NEW a \in Actors, SetState(a) PROVE PlaceInv' /\ CommandInv'
  <2>1. CASE a = "mqtt"
    <3>1. /\ pc' = [pc EXCEPT ![a] = "have"] /\ pc[a] = "mem"
          /\ chan' = [chan EXCEPT ![a] = Unhandled] /\ val' = [val EXCEPT ![a] = FALSE]
          /\ UNCHANGED inst
      BY <1>15, <2>1 DEF SetState, SetDone
    <3>2. inst'[a] \in Actors
      BY <3>1 DEF PlaceInv
    <3> QED
      BY <1>m, <1>t, <2>1, <3>1, <3>2
  <2>2. CASE a # "mqtt"
    BY <1>15, <1>e, <2>2 DEF SetState, SetDone
  <2> QED
    BY <2>1, <2>2
<1>16. CASE UNCHANGED vars
  BY <1>16, <1>u DEF vars
<1> QED
  BY <1>1, <1>2, <1>3, <1>4, <1>5, <1>6, <1>7, <1>8, <1>9, <1>10, <1>11, <1>12, <1>13,
     <1>14, <1>15, <1>16, Steps

\* The pointer is assigned once for each connector that is made, and no relay is
\* set before.
LEMMA PointerNext == TypeOK /\ PlaceInv /\ PointerInv /\ [Next]_vars => PointerInv'
<1> SUFFICES ASSUME TypeOK, PlaceInv, PointerInv, [Next]_vars PROVE PointerInv'
  OBVIOUS
<1>n. "mqtt" \in Actors /\ NoObject \notin Actors /\ ToggleTasks \subseteq Actors /\ Pollers \subseteq Actors
  BY Names
<1>t. pc \in [Actors -> {"idle", "arg", "get", "new", "assign", "have", "gpio", "mem"}]
  BY DEF TypeOK
\* No task comes to a connector, nor to the making of one.
<1>k. ASSUME UNCHANGED <<relay, mInstance>>,
             \A a \in Actors :
               \/ pc'[a] = pc[a]
               \/ pc'[a] \in {"idle", "arg", "get"}
               \/ pc[a] \in {"have", "gpio", "mem"} /\ pc'[a] \in {"have", "gpio", "mem"}
               \/ pc[a] = "new" /\ pc'[a] = "assign"
      PROVE  PointerInv'
  BY <1>k DEF PointerInv
<1>1. CASE (\E ch \in Channels : PressSwitch(ch)) \/ PressConfig \/ ClearStates \/ UNCHANGED vars
  BY <1>1, <1>k DEF PressSwitch, PressConfig, ClearStates, vars
<1>2. CASE handleInterruptGpio
  <2>1. PICK served : \E taskOf \in [served -> IdleTasks] :
          pc' = [a \in Actors |-> IF \E c \in served : taskOf[c] = a THEN "arg" ELSE pc[a]]
    BY <1>2 DEF handleInterruptGpio
  <2>2. \A a \in Actors : pc'[a] = pc[a] \/ pc'[a] = "arg"
    BY <2>1
  <2> QED
    BY <1>2, <1>k, <2>2 DEF handleInterruptGpio
<1>3. CASE (\E command \in Commands : Deliver(command)) \/ \E p \in Pollers : Poll(p)
  BY <1>3, <1>k, <1>n, <1>t DEF Deliver, Poll
<1>4. CASE \E t \in ToggleTasks : toggleChannel(t)
  BY <1>4, <1>k, <1>n, <1>t DEF toggleChannel
<1>5. CASE \/ \E t \in ToggleTasks : ReadState(t)
           \/ \E p \in Pollers : Report(p)
           \/ NextElement \/ CommandDone
           \/ \E a \in Actors : SetState(a)
  BY <1>5, <1>k, <1>n, <1>t DEF ReadState, Report, NextElement, CommandDone, SetState, SetDone, Ends, Rest
<1>6. CASE \E a \in Actors : Construct(a)
  BY <1>6, <1>k, <1>t DEF Construct, Rest
<1>7. ASSUME NEW a \in Actors, getInstance(a) PROVE PointerInv'
  BY <1>7, <1>n, <1>t DEF getInstance, Rest, PointerInv
<1>8. ASSUME NEW a \in Actors, Assign(a) PROVE PointerInv'
  <2>1. /\ \A b \in Actors : b # a => pc'[b] = pc[b]
        /\ pc'[a] = "have" /\ mInstance' = a
    BY <1>8, <1>t DEF Assign
  <2> QED
    BY <1>n, <2>1 DEF PointerInv
<1>9. ASSUME NEW a \in Actors, SetLevel(a) PROVE PointerInv'
  <2>1. /\ mInstance # NoObject /\ mInstance' = mInstance
        /\ \A b \in Actors : pc'[b] = pc[b] \/ pc'[b] = "mem"
    BY <1>9, <1>t DEF SetLevel, PointerInv
  <2> QED
    BY <2>1 DEF PointerInv
<1> QED
  BY <1>1, <1>2, <1>3, <1>4, <1>5, <1>6, <1>7, <1>8, <1>9, Steps

-----------------------------------------------------------------------------
\* Who works on a channel.
LEMMA Works ==
  ASSUME NEW ch \in Channels
  PROVE  /\ \A t \in ToggleTasks :
              WorksOn(t, ch) <=> pc[t] # "idle" /\ (IF pc[t] = "arg" THEN sent[t] = ch
                                                                   ELSE chan[t] = ch)
         /\ WorksOn("mqtt", ch) <=> \E i \in 1..Len(todo) : ChannelOf(todo[i].type) = ch
         /\ \A p \in Pollers : ~WorksOn(p, ch)
BY Names DEF WorksOn

LEMMA WorksNext ==
  ASSUME NEW ch \in Channels
  PROVE  /\ \A t \in ToggleTasks :
              WorksOn(t, ch)' <=> pc'[t] # "idle" /\ (IF pc'[t] = "arg" THEN sent'[t] = ch
                                                                     ELSE chan'[t] = ch)
         /\ WorksOn("mqtt", ch)' <=> \E i \in 1..Len(todo') : ChannelOf(todo'[i].type) = ch
         /\ \A p \in Pollers : ~WorksOn(p, ch)'
BY Names DEF WorksOn

LEMMA AtMemWorks ==
  ASSUME TypeOK, PlaceInv, CommandInv, NEW ch \in Channels, NEW a \in Actors,
         pc[a] \in {"gpio", "mem"}, chan[a] = ch
  PROVE  WorksOn(a, ch)
<1>1. CASE a \in ToggleTasks
  BY <1>1, Works
<1>2. CASE a = "mqtt"
  BY <1>2, Works, Elements DEF CommandInv
<1> QED
  BY <1>1, <1>2, Names DEF PlaceInv

\* What leaves a channel as it was.
LEMMA WorkKept ==
  ASSUME NEW ch \in Channels, Alone(ch), Towards(ch),
         Pin(ch) \in edges' <=> Pin(ch) \in edges,
         \A a \in Actors : WorksOn(a, ch)' <=> WorksOn(a, ch),
         relay'[ch] = relay[ch], wanted'[ch] = wanted[ch],
         \A t \in ToggleTasks : WorksOn(t, ch) =>
           (pc'[t] \in {"gpio", "mem"} <=> pc[t] \in {"gpio", "mem"}) /\ val'[t] = val[t],
         \A i \in 1..Len(todo') : LastOf(todo', i, ch) => todo'[i].on = wanted[ch]
  PROVE  Alone(ch)' /\ Towards(ch)'
<1>1. Alone(ch)'
  BY DEF Alone
<1>2. Busy(ch)' <=> Busy(ch)
  BY DEF Busy
<1>3. \A t \in ToggleTasks : t \in Actors
  BY Names
<1>4. \A t \in ToggleTasks : WorksOn(t, ch)' =>
        IF pc'[t] \in {"gpio", "mem"} THEN val'[t] = wanted'[ch]
                                      ELSE wanted'[ch] = ~relay'[ch]
  BY <1>3 DEF Towards
<1> QED
  BY <1>1, <1>2, <1>4 DEF Towards

LEMMA ConnectorKept ==
  ASSUME NEW ch \in Channels, OneConnector(ch),
         UNCHANGED mInstance, relay'[ch] = relay[ch],
         \A a \in Actors : pc'[a] \in {"have", "gpio", "mem"} /\ WorksOn(a, ch)' =>
                            inst'[a] = mInstance,
         WorksOn("mqtt", ch)' <=> WorksOn("mqtt", ch),
         \A a \in Actors : pc'[a] = "assign" /\ mInstance = NoObject /\ ~WorksOn("mqtt", ch) =>
                            ~mState'[a][ch],
         \A a \in Actors : AtMem(a, ch)' <=> AtMem(a, ch),
         \A a \in Actors : AtMem(a, ch) => val'[a] = val[a],
         mInstance # NoObject => mState'[mInstance][ch] = mState[mInstance][ch]
  PROVE  OneConnector(ch)'
BY DEF OneConnector

LEMMA UndisturbedInit == Init => Undisturbed
<1> SUFFICES ASSUME Init, NEW ch \in Channels PROVE Alone(ch) /\ Towards(ch) /\ OneConnector(ch)
  BY DEF Undisturbed
<1>1. \A a \in Actors : pc[a] = "idle"
  BY DEF Init
<1>2. Len(todo) = 0 /\ edges = {} /\ mInstance = NoObject /\ relay[ch] = FALSE /\ wanted[ch] = FALSE
  BY DEF Init
<1>3. \A a \in Actors : ~WorksOn(a, ch)
  BY <1>1, <1>2, Names, Works
<1>4. Alone(ch)
  BY <1>2, <1>3 DEF Alone
<1>5. Towards(ch)
  <2>1. 1..Len(todo) = {}
    BY <1>2
  <2> QED
    BY <1>2, <1>3, <2>1, Names DEF Towards
<1>6. OneConnector(ch)
  BY <1>1, <1>2 DEF OneConnector, AtMem
<1> QED
  BY <1>4, <1>5, <1>6

-----------------------------------------------------------------------------
\* What one step leaves true of a channel it does not disturb, action by action.

\* The interrupt: the edge of a channel becomes its one task.
LEMMA InterruptEffect ==
  ASSUME TypeOK, handleInterruptGpio, NEW ch \in Channels, ch \notin disturbed'
  PROVE  IF Pin(ch) \in edges
         THEN \E t \in ToggleTasks :
                /\ pc[t] = "idle" /\ pc'[t] = "arg" /\ sent'[t] = ch
                /\ \A b \in ToggleTasks : b # t =>
                     \/ pc'[b] = pc[b] /\ sent'[b] = sent[b]
                     \/ pc[b] = "idle" /\ pc'[b] = "arg" /\ sent'[b] # ch
         ELSE \A b \in ToggleTasks :
                \/ pc'[b] = pc[b] /\ sent'[b] = sent[b]
                \/ pc[b] = "idle" /\ pc'[b] = "arg" /\ sent'[b] # ch
<1> DEFINE toggled == {c \in Channels : Pin(c) \in ToggledPins}
<1>1. PICK served \in SUBSET toggled : \E taskOf \in [served -> IdleTasks] :
        /\ \A c, d \in served : taskOf[c] = taskOf[d] => c = d
        /\ pc' = [a \in Actors |-> IF \E c \in served : taskOf[c] = a THEN "arg" ELSE pc[a]]
        /\ sent' = [t \in ToggleTasks |->
                     IF \E c \in served : taskOf[c] = t
                     THEN CHOOSE c \in served : taskOf[c] = t ELSE sent[t]]
        /\ History({c \in Channels \ served : Pin(c) \in edges}, {}, wanted)
  BY DEF handleInterruptGpio
<1>2. PICK taskOf \in [served -> IdleTasks] :
        /\ \A c, d \in served : taskOf[c] = taskOf[d] => c = d
        /\ pc' = [a \in Actors |-> IF \E c \in served : taskOf[c] = a THEN "arg" ELSE pc[a]]
        /\ sent' = [t \in ToggleTasks |->
                     IF \E c \in served : taskOf[c] = t
                     THEN CHOOSE c \in served : taskOf[c] = t ELSE sent[t]]
        /\ History({c \in Channels \ served : Pin(c) \in edges}, {}, wanted)
  BY <1>1
<1>3. \A c \in served : Pin(c) \in edges
  <2> SUFFICES ASSUME NEW c \in served PROVE Pin(c) \in edges
    OBVIOUS
  <2>1. c \in {0, 1} /\ Pin(c) = 32 + c /\ BIT(Pin(c)) \in GPIO_STATUS1
    <3>1. c \in Channels /\ Pin(c) \in ToggledPins
      OBVIOUS
    <3> QED
      BY <3>1, ChannelsAre DEF ToggledPins
  <2>2. BIT(Pin(c)) = c
    BY <2>1 DEF BIT
  <2>3. PICK p \in edges : p >= 32 /\ c = p - 32
    BY <2>1, <2>2 DEF GPIO_STATUS1
  <2>4. p \in Nat
    BY DEF TypeOK, SW_PIN, SW_1_PIN, SW_2_PIN
  <2> QED
    BY <2>1, <2>3, <2>4
<1>4. Pin(ch) \in edges => ch \in served
  <2>1. ch \notin {c \in Channels \ served : Pin(c) \in edges}
    BY <1>2, Told
  <2> QED
    BY <2>1
<1>5. \A t \in ToggleTasks : t \in Actors
  BY Names
<1>6. \A c \in served : /\ taskOf[c] \in ToggleTasks /\ pc[taskOf[c]] = "idle"
                        /\ pc'[taskOf[c]] = "arg" /\ sent'[taskOf[c]] = c
  <2> SUFFICES ASSUME NEW c \in served
               PROVE  /\ taskOf[c] \in ToggleTasks /\ pc[taskOf[c]] = "idle"
                      /\ pc'[taskOf[c]] = "arg" /\ sent'[taskOf[c]] = c
    OBVIOUS
  <2>1. taskOf[c] \in ToggleTasks /\ pc[taskOf[c]] = "idle"
    BY DEF IdleTasks
  <2>2. c = CHOOSE d \in served : taskOf[d] = taskOf[c]
    BY <1>2
  <2>3. sent'[taskOf[c]] = c
    BY <1>2, <2>1, <2>2
  <2> QED
    BY <1>2, <1>5, <2>1, <2>3
<1>7. \A b \in ToggleTasks : (\A c \in served : taskOf[c] # b) =>
        pc'[b] = pc[b] /\ sent'[b] = sent[b]
  BY <1>2, <1>5
<1>8. \A b \in ToggleTasks : (\A c \in served : taskOf[c] = b => c # ch) =>
        \/ pc'[b] = pc[b] /\ sent'[b] = sent[b]
        \/ pc[b] = "idle" /\ pc'[b] = "arg" /\ sent'[b] # ch
  BY <1>6, <1>7
<1>9. CASE Pin(ch) \in edges
  BY <1>4, <1>6, <1>8, <1>9
<1>10. CASE Pin(ch) \notin edges
  BY <1>3, <1>8, <1>10
<1> QED
  BY <1>9, <1>10

LEMMA InterruptNext ==
  ASSUME TypeOK, PlaceInv, PointerInv, CommandInv, NEW ch \in Channels, ch \notin disturbed',
         Alone(ch), Towards(ch), OneConnector(ch), handleInterruptGpio
  PROVE  Alone(ch)' /\ Towards(ch)' /\ OneConnector(ch)'
<1>1. /\ edges' = {} /\ UNCHANGED <<relay, cleared, mInstance, mState, chan, inst, val, todo>>
      /\ wanted'[ch] = wanted[ch]
  <2>1. PICK hit : History(hit, {}, wanted)
    BY DEF handleInterruptGpio
  <2>2. wanted'[ch] <=> wanted[ch]
    BY <2>1, Told
  <2>3. wanted' \in [Channels -> BOOLEAN]
    BY <2>1, Told
  <2> QED
    BY <2>2, <2>3 DEF handleInterruptGpio, TypeOK
<1>2. \A a \in Actors : pc'[a] = pc[a] \/ (a \in ToggleTasks /\ pc[a] = "idle" /\ pc'[a] = "arg")
  <2>1. PICK served : \E taskOf \in [served -> IdleTasks] :
          pc' = [a \in Actors |-> IF \E c \in served : taskOf[c] = a THEN "arg" ELSE pc[a]]
    BY DEF handleInterruptGpio
  <2>2. PICK taskOf \in [served -> IdleTasks] :
          pc' = [a \in Actors |-> IF \E c \in served : taskOf[c] = a THEN "arg" ELSE pc[a]]
    BY <2>1
  <2>3. \A c \in served : taskOf[c] \in ToggleTasks /\ pc[taskOf[c]] = "idle"
    BY DEF IdleTasks
  <2> QED
    BY <2>2, <2>3
<1>3. OneConnector(ch)'
  <2>1. \A t \in ToggleTasks : pc'[t] \in {"have", "gpio", "mem"} =>
          (WorksOn(t, ch)' <=> WorksOn(t, ch))
    BY <1>1, <1>2, Names, Works, WorksNext
  <2>2. WorksOn("mqtt", ch)' <=> WorksOn("mqtt", ch)
    BY <1>1, Works, WorksNext
  <2>3. \A a \in Actors : pc'[a] \in {"have", "gpio", "mem"} /\ WorksOn(a, ch)' =>
          pc[a] = pc'[a] /\ WorksOn(a, ch)
    BY <1>2, <2>1, <2>2, Names, WorksNext
  <2> QED
    BY <1>1, <1>2, <2>2, <2>3, ConnectorKept DEF OneConnector, AtMem
<1>4. CASE Pin(ch) \in edges
  <2>1. PICK t \in ToggleTasks :
                /\ pc[t] = "idle" /\ pc'[t] = "arg" /\ sent'[t] = ch
                /\ \A b \in ToggleTasks : b # t =>
                     \/ pc'[b] = pc[b] /\ sent'[b] = sent[b]
                     \/ pc[b] = "idle" /\ pc'[b] = "arg" /\ sent'[b] # ch
    BY <1>4, InterruptEffect
  <2>2. \A a \in Actors : ~WorksOn(a, ch)
    BY <1>4 DEF Alone
  <2>3. \A a \in Actors : WorksOn(a, ch)' <=> a = t
    <3>1. \A b \in ToggleTasks : b # t => ~WorksOn(b, ch)'
      BY <1>1, <2>1, <2>2, Names, Works, WorksNext
    <3>2. ~WorksOn("mqtt", ch)' /\ \A p \in Pollers : ~WorksOn(p, ch)'
      BY <1>1, <2>2, Names, Works, WorksNext
    <3>3. WorksOn(t, ch)'
      BY <2>1, WorksNext
    <3> QED
      BY <3>1, <3>2, <3>3, Names
  <2>4. Alone(ch)'
    BY <1>1, <2>3 DEF Alone
  <2>5. wanted[ch] = ~relay[ch]
    BY <1>4 DEF Towards
  <2>6. Busy(ch)'
    BY <2>3, Names DEF Busy
  <2>7. \A i \in 1..Len(todo) : ~LastOf(todo, i, ch)
    BY <2>2, Names, Works DEF LastOf
  <2>8. \A s \in ToggleTasks : WorksOn(s, ch)' => s = t /\ pc'[s] = "arg"
    BY <2>1, <2>3, Names
  <2> QED
    BY <1>1, <1>3, <2>4, <2>5, <2>6, <2>7, <2>8 DEF Towards
<1>5. CASE Pin(ch) \notin edges
  <2>1. \A b \in ToggleTasks :
          \/ pc'[b] = pc[b] /\ sent'[b] = sent[b]
          \/ pc[b] = "idle" /\ pc'[b] = "arg" /\ sent'[b] # ch
    BY <1>5, InterruptEffect
  <2>2. \A a \in Actors : WorksOn(a, ch)' <=> WorksOn(a, ch)
    BY <1>1, <2>1, Names, Works, WorksNext
  <2>3. \A t \in ToggleTasks : WorksOn(t, ch) =>
          (pc'[t] \in {"gpio", "mem"} <=> pc[t] \in {"gpio", "mem"}) /\ val'[t] = val[t]
    BY <1>1, <2>1, Works
  <2>4. \A i \in 1..Len(todo') : LastOf(todo', i, ch) => todo'[i].on = wanted[ch]
    BY <1>1 DEF Towards
  <2> QED
    BY <1>1, <1>3, <1>5, <2>2, <2>3, <2>4, WorkKept
<1> QED
  BY <1>4, <1>5

\* The switches, CONFIG, and what app_main does.
LEMMA PressNext ==
  ASSUME TypeOK, PlaceInv, PointerInv, CommandInv, NEW ch \in Channels, ch \notin disturbed',
         Alone(ch), Towards(ch), OneConnector(ch), NEW c \in Channels, PressSwitch(c)
  PROVE  Alone(ch)' /\ Towards(ch)' /\ OneConnector(ch)'
<1>1. /\ edges' = edges \cup {Pin(c)}
      /\ UNCHANGED <<relay, cleared, mInstance, mState, pc, sent, chan, inst, val, todo>>
  BY DEF PressSwitch
<1>2. \A a \in Actors : WorksOn(a, ch)' <=> WorksOn(a, ch)
  BY <1>1, Names, Works, WorksNext
<1>3. OneConnector(ch)'
  BY <1>1, <1>2, Names, ConnectorKept DEF OneConnector, AtMem
<1>w. wanted'[ch] <=> [wanted EXCEPT ![c] = ~@][ch]
  BY Told DEF PressSwitch
<1>b. wanted' \in [Channels -> BOOLEAN] /\ wanted \in [Channels -> BOOLEAN]
  BY Told DEF PressSwitch, TypeOK
<1>4. CASE c = ch
  <2>1. ~Busy(ch)
    BY <1>4, Told DEF PressSwitch
  <2>2. /\ \A a \in Actors : ~WorksOn(a, ch)
        /\ relay[ch] = wanted[ch]
    BY <2>1 DEF Busy, Towards
  <2>3. wanted'[ch] = ~wanted[ch]
    BY <1>4, <1>w, <1>b
  <2>4. Pin(ch) \in edges'
    BY <1>1, <1>4
  <2>5. Busy(ch)' /\ Alone(ch)'
    BY <1>2, <2>2, <2>4 DEF Busy, Alone
  <2>6. \A i \in 1..Len(todo) : ~LastOf(todo, i, ch)
    BY <2>2, Names, Works DEF LastOf
  <2>7. \A t \in ToggleTasks : ~WorksOn(t, ch)'
    BY <1>2, <2>2, Names
  <2>8. wanted'[ch] = ~relay'[ch]
    BY <1>1, <2>2, <2>3
  <2> QED
    BY <1>1, <1>3, <2>5, <2>6, <2>7, <2>8 DEF Towards
<1>5. CASE c # ch
  <2>1. wanted'[ch] = wanted[ch]
    BY <1>5, <1>w, <1>b
  <2>2. Pin(ch) \in edges' <=> Pin(ch) \in edges
    BY <1>1, <1>5, ChannelsAre
  <2> QED
    BY <1>1, <1>2, <1>3, <2>1, <2>2, WorkKept DEF Towards
<1> QED
  BY <1>4, <1>5

LEMMA AppMainNext ==
  ASSUME TypeOK, PlaceInv, PointerInv, CommandInv, NEW ch \in Channels,
         Alone(ch), Towards(ch), OneConnector(ch), PressConfig \/ ClearStates \/ UNCHANGED vars
  PROVE  Alone(ch)' /\ Towards(ch)' /\ OneConnector(ch)'
<1>1. UNCHANGED <<relay, mInstance, mState, pc, sent, chan, inst, val, todo, wanted>>
  BY DEF PressConfig, ClearStates, vars
<1>2. Pin(ch) \in edges' <=> Pin(ch) \in edges
  BY ChannelsAre DEF PressConfig, ClearStates, vars, SW_PIN
<1>3. \A a \in Actors : WorksOn(a, ch)' <=> WorksOn(a, ch)
  BY <1>1, Names, Works, WorksNext
<1>4. OneConnector(ch)'
  BY <1>1, <1>3, Names, ConnectorKept DEF OneConnector, AtMem
<1> QED
  BY <1>1, <1>2, <1>3, <1>4, WorkKept DEF Towards

\* A command of the server.
LEMMA DeliverNext ==
  ASSUME TypeOK, PlaceInv, PointerInv, CommandInv, NEW ch \in Channels, ch \notin disturbed',
         ch \notin disturbed => Alone(ch) /\ Towards(ch) /\ OneConnector(ch),
         NEW command \in Commands, Deliver(command)
  PROVE  Alone(ch)' /\ Towards(ch)' /\ OneConnector(ch)'
<1> DEFINE named == {ChannelOf(command[i].type) : i \in 1..Len(command)}
           asked == [c \in Channels |->
                      IF c \in named
                      THEN \E i \in 1..Len(command) : LastOf(command, i, c) /\ command[i].on
                      ELSE wanted[c]]
           hit == {c \in named : Busy(c)}
           set == {c \in named : ~Busy(c)}
<1>1. /\ UNCHANGED <<edges, relay, cleared, mInstance, mState, sent, chan, inst, val>>
      /\ pc["mqtt"] = "idle" /\ pc' = [pc EXCEPT !["mqtt"] = "get"] /\ todo' = command
      /\ History(hit, set, asked)
  BY DEF Deliver
<1>2. /\ wanted'[ch] <=> asked[ch]
      /\ ch \in named => ~Busy(ch)
      /\ ch \notin named => ch \notin disturbed
      /\ wanted' \in [Channels -> BOOLEAN]
  <2> HIDE DEF named, asked, hit, set
  <2>1. /\ wanted'[ch] <=> asked[ch]
        /\ wanted' \in [Channels -> BOOLEAN]
        /\ ch \notin hit
    BY <1>1, Told
  <2>2. ch \in named => ~Busy(ch)
    BY <2>1 DEF hit
  <2>3. ch \notin named => ch \notin disturbed
    BY <1>1, Told DEF set
  <2> QED
    BY <2>1, <2>2, <2>3
<1>3. \A a \in Actors : a # "mqtt" => pc'[a] = pc[a]
  BY <1>1 DEF TypeOK
<1>4. \A a \in Actors : a # "mqtt" => (WorksOn(a, ch)' <=> WorksOn(a, ch))
  BY <1>1, <1>3, Names, Works, WorksNext
<1>5. pc'["mqtt"] = "get"
  BY <1>1, Names DEF TypeOK
<1>c. /\ \A i \in 1..Len(command) : command[i].on \in BOOLEAN
      /\ Len(command) \in Nat
  <2> DEFINE E == [type : Nat, on : BOOLEAN]
  <2>1. command \in Seq(E)
    BY SwitchesAssumption
  <2>2. \A e \in E : e.on \in BOOLEAN
    OBVIOUS
  <2> HIDE DEF E
  <2>3. Len(command) \in Nat /\ \A i \in 1..Len(command) : command[i] \in E
    BY <2>1
  <2> QED
    BY <2>2, <2>3
<1>7. CASE ch \in named
  <2>1. ~Busy(ch)
    BY <1>2, <1>7
  <2>2. Pin(ch) \notin edges /\ \A a \in Actors : ~WorksOn(a, ch)
    BY <2>1 DEF Busy
  <2>3. WorksOn("mqtt", ch)'
    BY <1>1, <1>7, WorksNext
  <2>4. \A a \in Actors : WorksOn(a, ch)' <=> a = "mqtt"
    BY <1>4, <2>2, <2>3
  <2>5. Alone(ch)' /\ Busy(ch)'
    BY <1>1, <2>2, <2>4, Names DEF Alone, Busy
  <2>6. \A t \in ToggleTasks : ~WorksOn(t, ch)'
    BY <2>4, Names
  <2>8. OneConnector(ch)'
    <3>1. \A b \in Actors : ~AtMem(b, ch)'
      <4> SUFFICES ASSUME NEW b \in Actors, AtMem(b, ch)' PROVE FALSE
        OBVIOUS
      <4>1. AtMem(b, ch)
        BY <1>1, <1>3, <1>5 DEF AtMem
      <4> QED
        BY <2>2, <4>1, AtMemWorks DEF AtMem
    <3> QED
      BY <1>5, <2>3, <2>4, <3>1 DEF OneConnector
  <2>7. ASSUME NEW i \in 1..Len(command), LastOf(command, i, ch)
        PROVE  command[i].on = wanted'[ch]
    <3>1. \A k \in 1..Len(command) : LastOf(command, k, ch) => k = i
      BY <1>c, <2>7 DEF LastOf
    <3>2. asked[ch] <=> \E k \in 1..Len(command) : LastOf(command, k, ch) /\ command[k].on
      BY <1>7
    <3>3. asked[ch] <=> command[i].on
      BY <2>7, <3>1, <3>2
    <3>4. command[i].on \in BOOLEAN /\ wanted'[ch] \in BOOLEAN
      BY <1>2, <1>c
    <3> QED
      BY <1>2, <3>3, <3>4
  <2> HIDE DEF named, asked, hit, set
  <2> QED
    BY <1>1, <2>2, <2>5, <2>6, <2>7, <2>8 DEF Towards
<1>8. CASE ch \notin named
  <2>0. Alone(ch) /\ Towards(ch) /\ OneConnector(ch)
    BY <1>2, <1>8
  <2>1. wanted'[ch] = wanted[ch]
    BY <1>2, <1>8 DEF TypeOK
  <2>2. \A i \in 1..Len(command) : ChannelOf(command[i].type) # ch
    BY <1>8
  <2>3. ~WorksOn("mqtt", ch)'
    BY <1>1, <2>2, WorksNext
  <2>4. ~WorksOn("mqtt", ch)
    <3>1. todo = <<>>
      BY <1>1 DEF CommandInv
    <3> QED
      BY <3>1, Works
  <2>5. \A a \in Actors : WorksOn(a, ch)' <=> WorksOn(a, ch)
    BY <1>4, <2>3, <2>4
  <2>6. \A i \in 1..Len(todo') : ~LastOf(todo', i, ch)
    BY <1>1, <2>2 DEF LastOf
  <2> HIDE DEF named, asked, hit, set
  <2>7. OneConnector(ch)'
    BY <1>1, <1>3, <1>5, <2>0, <2>5, Names, ConnectorKept DEF OneConnector, AtMem
  <2> QED
    BY <1>1, <1>3, <2>0, <2>1, <2>5, <2>6, <2>7, Names, WorkKept
<1> QED
  BY <1>7, <1>8

\* A task that goes on between places where it is at no relay, on the channel it
\* had.
LEMMA MovesNext ==
  ASSUME TypeOK, PlaceInv, PointerInv, CommandInv, NEW ch \in Channels,
         Alone(ch), Towards(ch), OneConnector(ch), NEW a \in Actors,
         NEW place \in {"get", "new", "assign", "have"},
         pc[a] \in {"get", "new", "assign"} \/ (a \in Pollers /\ pc[a] = "idle"),
         pc' = [pc EXCEPT ![a] = place],
         UNCHANGED <<edges, relay, sent, chan, val, todo>>, wanted'[ch] = wanted[ch]
  PROVE  /\ Alone(ch)' /\ Towards(ch)'
         /\ \A b \in Actors : WorksOn(b, ch)' <=> WorksOn(b, ch)
         /\ \A b \in Actors : AtMem(b, ch)' <=> AtMem(b, ch)
         /\ \A b \in Actors : b # a => pc'[b] = pc[b]
         /\ pc'[a] = place
<1>1. \A b \in Actors : b # a => pc'[b] = pc[b]
  BY DEF TypeOK
<1>2. pc'[a] = place
  BY DEF TypeOK
<1>3. \A b \in Actors : WorksOn(b, ch)' <=> WorksOn(b, ch)
  BY <1>1, <1>2, Names, Works, WorksNext
<1>4. \A t \in ToggleTasks : WorksOn(t, ch) =>
        (pc'[t] \in {"gpio", "mem"} <=> pc[t] \in {"gpio", "mem"}) /\ val'[t] = val[t]
  BY <1>1, <1>2, Names
<1>5. \A b \in Actors : AtMem(b, ch)' <=> AtMem(b, ch)
  BY <1>1, <1>2, Names DEF AtMem, PlaceInv
<1>6. Alone(ch)' /\ Towards(ch)'
  BY <1>3, <1>4, WorkKept DEF Towards
<1> QED
  BY <1>1, <1>2, <1>3, <1>5, <1>6

LEMMA GetNext ==
  ASSUME TypeOK, PlaceInv, PointerInv, CommandInv, NEW ch \in Channels, ch \notin disturbed',
         Alone(ch), Towards(ch), OneConnector(ch), NEW a \in Actors,
         getInstance(a) \/ Construct(a) \/ Assign(a) \/ (a \in Pollers /\ Poll(a))
  PROVE  Alone(ch)' /\ Towards(ch)' /\ OneConnector(ch)'
<1>h. ASSUME NEW hit, History(hit, {}, wanted) PROVE wanted'[ch] = wanted[ch] /\ ch \notin hit
  <2>1. (wanted'[ch] <=> wanted[ch]) /\ wanted' \in [Channels -> BOOLEAN] /\ ch \notin hit
    BY <1>h, Told
  <2> QED
    BY <2>1 DEF TypeOK
<1>m. mInstance \in Actors \cup {NoObject} /\ NoObject \notin Actors
  BY Names DEF TypeOK
<1>1. CASE getInstance(a)
  <2>1. /\ pc[a] = "get"
        /\ UNCHANGED <<edges, relay, sent, chan, val, todo, mInstance, mState, wanted>>
    BY <1>1 DEF getInstance, Rest
  <2>2. CASE mInstance = NoObject
    <3>1. pc' = [pc EXCEPT ![a] = "new"] /\ UNCHANGED inst
      BY <1>1, <2>2 DEF getInstance
    <3>2. /\ Alone(ch)' /\ Towards(ch)'
          /\ \A b \in Actors : WorksOn(b, ch)' <=> WorksOn(b, ch)
          /\ \A b \in Actors : AtMem(b, ch)' <=> AtMem(b, ch)
          /\ \A b \in Actors : b # a => pc'[b] = pc[b]
          /\ pc'[a] = "new"
      BY <2>1, <3>1, MovesNext
    <3>3. OneConnector(ch)'
      BY <1>m, <2>1, <2>2, <3>1, <3>2, Names, ConnectorKept DEF OneConnector, PointerInv
    <3> QED
      BY <3>2, <3>3
  <2>3. CASE mInstance # NoObject
    <3>1. pc' = [pc EXCEPT ![a] = "have"] /\ inst' = [inst EXCEPT ![a] = mInstance]
      BY <1>1, <2>3 DEF getInstance
    <3>2. /\ Alone(ch)' /\ Towards(ch)'
          /\ \A b \in Actors : WorksOn(b, ch)' <=> WorksOn(b, ch)
          /\ \A b \in Actors : AtMem(b, ch)' <=> AtMem(b, ch)
          /\ \A b \in Actors : b # a => pc'[b] = pc[b]
          /\ pc'[a] = "have"
      BY <2>1, <3>1, MovesNext
    <3>3. \A b \in Actors : inst'[b] = IF b = a THEN mInstance ELSE inst[b]
      BY <3>1 DEF TypeOK
    <3>4. OneConnector(ch)'
      BY <2>1, <2>3, <3>2, <3>3, Names, ConnectorKept DEF OneConnector
    <3> QED
      BY <3>2, <3>4
  <2> QED
    BY <2>2, <2>3
<1>2. CASE Construct(a)
  <2>1. /\ pc[a] = "new" /\ pc' = [pc EXCEPT ![a] = "assign"]
        /\ mState' = [mState EXCEPT ![a] = [c \in Channels |-> ~cleared]]
        /\ UNCHANGED <<edges, relay, sent, chan, val, todo, mInstance, inst>>
        /\ History(IF cleared THEN {} ELSE Channels, {}, wanted)
    BY <1>2 DEF Construct, Rest
  <2>2. wanted'[ch] = wanted[ch] /\ cleared
    BY <1>h, <2>1
  <2>3. /\ Alone(ch)' /\ Towards(ch)'
        /\ \A b \in Actors : WorksOn(b, ch)' <=> WorksOn(b, ch)
        /\ \A b \in Actors : AtMem(b, ch)' <=> AtMem(b, ch)
        /\ \A b \in Actors : b # a => pc'[b] = pc[b]
        /\ pc'[a] = "assign"
    BY <2>1, <2>2, MovesNext
  <2>4. /\ ~mState'[a][ch]
        /\ \A b \in Actors : b # a => mState'[b][ch] = mState[b][ch]
    BY <2>1, <2>2 DEF TypeOK
  <2>5. mInstance # a
    BY <2>1 DEF PointerInv
  <2>w. WorksOn("mqtt", ch)' <=> WorksOn("mqtt", ch)
    BY <2>3, Names
  <2>6. OneConnector(ch)'
    BY <1>m, <2>1, <2>3, <2>4, <2>5, <2>w, ConnectorKept DEF OneConnector
  <2> QED
    BY <2>3, <2>6
<1>3. CASE Assign(a)
  <2>1. /\ pc[a] = "assign" /\ pc' = [pc EXCEPT ![a] = "have"]
        /\ mInstance' = a /\ inst' = [inst EXCEPT ![a] = a]
        /\ UNCHANGED <<edges, relay, sent, chan, val, todo, mState>>
        /\ History(IF mInstance = NoObject THEN {} ELSE Channels, {}, wanted)
    BY <1>3 DEF Assign, Rest
  <2>2. wanted'[ch] = wanted[ch] /\ mInstance = NoObject
    BY <1>h, <2>1
  <2>3. /\ Alone(ch)' /\ Towards(ch)'
        /\ \A b \in Actors : WorksOn(b, ch)' <=> WorksOn(b, ch)
        /\ \A b \in Actors : AtMem(b, ch)' <=> AtMem(b, ch)
        /\ \A b \in Actors : b # a => pc'[b] = pc[b]
        /\ pc'[a] = "have"
    BY <2>1, <2>2, MovesNext
  <2>4. \A b \in Actors : pc[b] \notin {"have", "gpio", "mem"}
    BY <2>2 DEF PointerInv
  <2>5. inst'[a] = a
    BY <2>1 DEF TypeOK
  <2>6. /\ ~relay[ch] /\ relay[ch] \in BOOLEAN /\ mState[a][ch] \in BOOLEAN
        /\ ~WorksOn("mqtt", ch) => ~mState[a][ch]
    BY <2>1, <2>2 DEF OneConnector, PointerInv, TypeOK
  <2>7. \A b \in Actors : ~AtMem(b, ch)'
    BY <2>3, <2>4 DEF AtMem
  <2>w. WorksOn("mqtt", ch)' <=> WorksOn("mqtt", ch)
    BY <2>3, Names
  <2>8. ~WorksOn("mqtt", ch)' => mState'[mInstance'][ch] = relay'[ch]
    BY <2>1, <2>6, <2>w
  <2>9. OneConnector(ch)'
    BY <1>m, <2>1, <2>3, <2>4, <2>5, <2>7, <2>8 DEF OneConnector
  <2> QED
    BY <2>3, <2>9
<1>4. CASE a \in Pollers /\ Poll(a)
  <2>1. /\ pc[a] = "idle" /\ pc' = [pc EXCEPT ![a] = "get"]
        /\ UNCHANGED <<edges, relay, sent, chan, val, todo, mInstance, mState, inst, wanted>>
    BY <1>4 DEF Poll
  <2>2. /\ Alone(ch)' /\ Towards(ch)'
        /\ \A b \in Actors : WorksOn(b, ch)' <=> WorksOn(b, ch)
        /\ \A b \in Actors : AtMem(b, ch)' <=> AtMem(b, ch)
        /\ \A b \in Actors : b # a => pc'[b] = pc[b]
        /\ pc'[a] = "get"
    BY <1>4, <2>1, MovesNext
  <2>w. WorksOn("mqtt", ch)' <=> WorksOn("mqtt", ch)
    BY <2>2, Names
  <2>3. OneConnector(ch)'
    BY <2>1, <2>2, <2>w, ConnectorKept DEF OneConnector
  <2> QED
    BY <2>2, <2>3
<1> QED
  BY <1>1, <1>2, <1>3, <1>4

\* A task that ends without having set the relay of the channel.
LEMMA EndsNext ==
  ASSUME TypeOK, PlaceInv, PointerInv, CommandInv, NEW ch \in Channels,
         Alone(ch), Towards(ch), OneConnector(ch), NEW a \in Actors,
         Ends(a), ~WorksOn(a, ch), ~AtMem(a, ch),
         UNCHANGED <<edges, todo, mInstance>>, relay'[ch] = relay[ch], wanted'[ch] = wanted[ch],
         \A b \in Actors : mState'[b][ch] = mState[b][ch]
  PROVE  Alone(ch)' /\ Towards(ch)' /\ OneConnector(ch)'
<1>1. /\ \A b \in Actors : b # a => /\ pc'[b] = pc[b] /\ chan'[b] = chan[b]
                                  /\ inst'[b] = inst[b] /\ val'[b] = val[b]
      /\ \A t \in ToggleTasks : t # a => sent'[t] = sent[t]
      /\ pc'[a] = "idle"
  BY EndsOK DEF TypeOK
<1>2. \A b \in Actors : WorksOn(b, ch)' <=> WorksOn(b, ch)
  BY <1>1, Names, Works, WorksNext
<1>3. \A b \in Actors : AtMem(b, ch)' <=> AtMem(b, ch)
  BY <1>1 DEF AtMem
<1>4. mInstance # NoObject => mInstance \in Actors
  BY DEF TypeOK
<1>5. OneConnector(ch)'
  BY <1>1, <1>2, <1>3, <1>4, Names, ConnectorKept DEF OneConnector, AtMem
<1>6. Alone(ch)' /\ Towards(ch)'
  BY <1>1, <1>2, Names, WorkKept DEF Towards
<1> QED
  BY <1>5, <1>6

\* The argument and the state a toggle task reads.
LEMMA ToggleNext ==
  ASSUME TypeOK, PlaceInv, PointerInv, CommandInv, NEW ch \in Channels, ch \notin disturbed',
         Alone(ch), Towards(ch), OneConnector(ch), NEW t \in ToggleTasks,
         toggleChannel(t) \/ ReadState(t)
  PROVE  Alone(ch)' /\ Towards(ch)' /\ OneConnector(ch)'
<1>a. t \in Actors /\ t # "mqtt" /\ t \notin Pollers
  BY Names
<1>1. CASE toggleChannel(t)
  <2>1. PICK channel \in atoi :
          /\ chan' = [chan EXCEPT ![t] = channel]
          /\ History(IF channel = sent[t] THEN {} ELSE {channel, sent[t]}, {}, wanted)
    BY <1>1 DEF toggleChannel
  <2>2. /\ pc[t] = "arg" /\ pc' = [pc EXCEPT ![t] = "get"]
        /\ UNCHANGED <<edges, relay, cleared, mInstance, mState, sent, inst, val, todo>>
    BY <1>1 DEF toggleChannel
  <2>3. (wanted'[ch] <=> wanted[ch]) /\ wanted' \in [Channels -> BOOLEAN]
    BY <2>1, Told
  <2>4. wanted'[ch] = wanted[ch]
    BY <2>3 DEF TypeOK
  <2>5. channel = sent[t] \/ (ch # channel /\ ch # sent[t])
    <3>1. ch \notin (IF channel = sent[t] THEN {} ELSE {channel, sent[t]})
      BY <2>1, Told
    <3> QED
      BY <3>1
  <2>6. /\ \A b \in Actors : b # t => pc'[b] = pc[b] /\ chan'[b] = chan[b]
        /\ pc'[t] = "get" /\ chan'[t] = channel
    BY <1>a, <2>1, <2>2 DEF TypeOK
  <2>7. \A b \in Actors : WorksOn(b, ch)' <=> WorksOn(b, ch)
    BY <2>2, <2>5, <2>6, Names, Works, WorksNext
  <2>8. \A b \in Actors : AtMem(b, ch)' <=> AtMem(b, ch)
    BY <2>2, <2>6 DEF AtMem
  <2>9. OneConnector(ch)'
    BY <2>2, <2>6, <2>7, <2>8, Names, ConnectorKept DEF OneConnector
  <2>10. Alone(ch)' /\ Towards(ch)'
    BY <2>2, <2>4, <2>6, <2>7, Names, WorkKept DEF Towards
  <2> QED
    BY <2>9, <2>10
<1>2. CASE ReadState(t) /\ chan[t] = Unhandled
  <2>1. Ends(t) /\ pc[t] = "have" /\ UNCHANGED <<Rest, mInstance, mState, wanted>>
    BY <1>2 DEF ReadState
  <2>2. ~WorksOn(t, ch) /\ ~AtMem(t, ch)
    BY <1>2, <2>1, Works, ChannelsAre DEF AtMem
  <2> QED
    BY <1>a, <2>1, <2>2, EndsNext DEF Rest
<1>3. CASE ReadState(t) /\ chan[t] # Unhandled
  <2>1. /\ pc[t] = "have" /\ pc' = [pc EXCEPT ![t] = "gpio"]
        /\ val' = [val EXCEPT ![t] = ~mState[inst[t]][chan[t]]]
        /\ UNCHANGED <<edges, relay, todo, sent, chan, inst, mInstance, mState, wanted>>
    BY <1>3 DEF ReadState, Rest
  <2>2. /\ \A b \in Actors : b # t => pc'[b] = pc[b] /\ val'[b] = val[b]
        /\ pc'[t] = "gpio" /\ val'[t] = ~mState[inst[t]][chan[t]]
    BY <1>a, <2>1 DEF TypeOK
  <2>3. \A b \in Actors : WorksOn(b, ch)' <=> WorksOn(b, ch)
    BY <2>1, <2>2, Names, Works, WorksNext
  <2>4. \A b \in Actors : AtMem(b, ch)' <=> AtMem(b, ch)
    BY <2>1, <2>2 DEF AtMem
  <2>5. OneConnector(ch)'
    BY <2>1, <2>2, <2>3, <2>4, Names, ConnectorKept DEF OneConnector, AtMem
  <2>6. CASE chan[t] # ch
    <3>1. ~WorksOn(t, ch)
      BY <2>1, <2>6, Works
    <3> QED
      BY <2>1, <2>2, <2>3, <2>5, <3>1, Names, WorkKept DEF Towards
  <2>7. CASE chan[t] = ch
    <3>1. WorksOn(t, ch)
      BY <2>1, <2>7, Works
    <3>2. \A b \in Actors : ~AtMem(b, ch)
      <4> SUFFICES ASSUME NEW b \in Actors, AtMem(b, ch) PROVE FALSE
        OBVIOUS
      <4>1. WorksOn(b, ch) /\ pc[b] = "mem"
        BY AtMemWorks DEF AtMem
      <4> QED
        BY <1>a, <2>1, <3>1, <4>1 DEF Alone
    <3>3. inst[t] = mInstance /\ mInstance # NoObject /\ ~WorksOn("mqtt", ch)
      BY <1>a, <2>1, <3>1, Names DEF OneConnector, PlaceInv, Alone
    <3>4. mState[mInstance][ch] = relay[ch]
      BY <3>2, <3>3 DEF OneConnector
    <3>5. wanted[ch] = ~relay[ch]
      BY <2>1, <3>1 DEF Towards
    <3>6. val'[t] = wanted[ch]
      BY <2>2, <2>7, <3>3, <3>4, <3>5
    <3>7. \A b \in Actors : WorksOn(b, ch) => b = t
      BY <1>a, <3>1 DEF Alone
    <3>8. Alone(ch)'
      BY <2>1, <2>3 DEF Alone
    <3>9. Busy(ch)' /\ Pin(ch) \notin edges'
      BY <1>a, <2>1, <2>3, <3>1 DEF Busy, Alone
    <3>10. \A s \in ToggleTasks : WorksOn(s, ch)' => s = t
      BY <2>3, <3>7, Names
    <3> QED
      BY <2>1, <2>2, <2>5, <3>6, <3>8, <3>9, <3>10 DEF Towards
  <2> QED
    BY <2>6, <2>7
<1> QED
  BY <1>1, <1>2, <1>3

LEMMA ReportNext ==
  ASSUME TypeOK, PlaceInv, PointerInv, CommandInv, NEW ch \in Channels,
         Alone(ch), Towards(ch), OneConnector(ch), NEW p \in Pollers, Report(p)
  PROVE  Alone(ch)' /\ Towards(ch)' /\ OneConnector(ch)'
<1>1. Ends(p) /\ pc[p] = "have" /\ p \in Actors /\ UNCHANGED <<Rest, mInstance, mState, wanted>>
  BY Names DEF Report
<1>2. ~WorksOn(p, ch) /\ ~AtMem(p, ch)
  BY <1>1, Works DEF AtMem
<1> QED
  BY <1>1, <1>2, EndsNext DEF Rest

\* What is left of a command when its head is done.
LEMMA TailOf ==
  ASSUME TypeOK, todo # <<>>, NEW ch \in Channels, Towards(ch)
  PROVE  /\ \A i \in 1..Len(Tail(todo)) : LastOf(Tail(todo), i, ch) => Tail(todo)[i].on = wanted[ch]
         /\ (\E i \in 1..Len(todo) : ChannelOf(todo[i].type) = ch) <=>
              \/ ChannelOf(Head(todo).type) = ch
              \/ \E i \in 1..Len(Tail(todo)) : ChannelOf(Tail(todo)[i].type) = ch
         /\ /\ ChannelOf(Head(todo).type) = ch
            /\ \A i \in 1..Len(Tail(todo)) : ChannelOf(Tail(todo)[i].type) # ch
            => Head(todo).on = wanted[ch]
<1> DEFINE t == Tail(todo)
<1>1. /\ Head(todo) = todo[1] /\ Len(todo) \in Nat /\ Len(todo) > 0 /\ Len(t) = Len(todo) - 1
      /\ \A i \in 1..Len(t) : t[i] = todo[i + 1]
  BY Elements
<1> HIDE DEF t
<1>2. \A i \in 1..Len(todo) : i = 1 \/ (i - 1 \in 1..Len(t) /\ t[i - 1] = todo[i])
  BY <1>1
<1>3. ASSUME NEW i \in 1..Len(t), LastOf(t, i, ch) PROVE t[i].on = wanted[ch]
  <2>1. i + 1 \in 1..Len(todo) /\ todo[i + 1] = t[i]
    BY <1>1
  <2>2. \A j \in (i + 1) + 1..Len(todo) : ChannelOf(todo[j].type) # ch
    <3> SUFFICES ASSUME NEW j \in (i + 1) + 1..Len(todo) PROVE ChannelOf(todo[j].type) # ch
      OBVIOUS
    <3>1. j - 1 \in i + 1..Len(t) /\ t[j - 1] = todo[j]
      BY <1>1, <1>2
    <3> QED
      BY <1>3, <3>1 DEF LastOf
  <2>3. LastOf(todo, i + 1, ch)
    BY <1>3, <2>1, <2>2 DEF LastOf
  <2> QED
    BY <2>1, <2>3 DEF Towards
<1>4. (\E i \in 1..Len(todo) : ChannelOf(todo[i].type) = ch) <=>
        \/ ChannelOf(Head(todo).type) = ch
        \/ \E i \in 1..Len(t) : ChannelOf(t[i].type) = ch
  <2>1. ASSUME NEW i \in 1..Len(todo), ChannelOf(todo[i].type) = ch
        PROVE  \/ ChannelOf(Head(todo).type) = ch
               \/ \E k \in 1..Len(t) : ChannelOf(t[k].type) = ch
    BY <1>1, <1>2, <2>1
  <2>2. ASSUME ChannelOf(Head(todo).type) = ch
        PROVE  \E i \in 1..Len(todo) : ChannelOf(todo[i].type) = ch
    BY <1>1, <2>2
  <2>3. ASSUME NEW i \in 1..Len(t), ChannelOf(t[i].type) = ch
        PROVE  \E k \in 1..Len(todo) : ChannelOf(todo[k].type) = ch
    <3>1. i + 1 \in 1..Len(todo) /\ todo[i + 1] = t[i]
      BY <1>1
    <3> QED
      BY <2>3, <3>1
  <2> QED
    BY <2>1, <2>2, <2>3
<1>5. ASSUME ChannelOf(Head(todo).type) = ch, \A i \in 1..Len(t) : ChannelOf(t[i].type) # ch
      PROVE  Head(todo).on = wanted[ch]
  <2>1. LastOf(todo, 1, ch)
    BY <1>1, <1>2, <1>5 DEF LastOf
  <2> QED
    BY <1>1, <2>1 DEF Towards
<1> QED
  BY <1>3, <1>4, <1>5 DEF t

\* The MQTT task between two settings.
LEMMA CommandNext ==
  ASSUME TypeOK, PlaceInv, PointerInv, CommandInv, NEW ch \in Channels,
         Alone(ch), Towards(ch), OneConnector(ch), NextElement \/ CommandDone
  PROVE  Alone(ch)' /\ Towards(ch)' /\ OneConnector(ch)'
<1>m. "mqtt" \in Actors
  BY Names
<1>1. CASE CommandDone
  <2>1. /\ Ends("mqtt") /\ pc["mqtt"] = "have" /\ todo = <<>>
        /\ UNCHANGED <<Rest, mInstance, mState, wanted>>
    BY <1>1 DEF CommandDone
  <2>2. ~WorksOn("mqtt", ch) /\ ~AtMem("mqtt", ch)
    BY <2>1, Works DEF AtMem
  <2> QED
    BY <1>m, <2>1, <2>2, EndsNext DEF Rest
<1>2. CASE NextElement /\ ChannelOf(Head(todo).type) = Unhandled
  <2>1. /\ todo # <<>> /\ todo' = Tail(todo)
        /\ UNCHANGED <<pc, chan, val, edges, relay, cleared, mInstance, mState, sent, inst, wanted>>
    BY <1>2 DEF NextElement
  <2>2. WorksOn("mqtt", ch)' <=> WorksOn("mqtt", ch)
    BY <1>2, <2>1, ChannelsAre, TailOf, Works, WorksNext
  <2>3. \A b \in Actors : WorksOn(b, ch)' <=> WorksOn(b, ch)
    BY <2>1, <2>2, Names, Works, WorksNext
  <2>4. \A i \in 1..Len(todo') : LastOf(todo', i, ch) => todo'[i].on = wanted[ch]
    BY <2>1, TailOf
  <2>5. OneConnector(ch)'
    BY <2>1, <2>3, Names, ConnectorKept DEF OneConnector, AtMem
  <2> QED
    BY <2>1, <2>3, <2>4, <2>5, WorkKept
<1>3. CASE NextElement /\ ChannelOf(Head(todo).type) # Unhandled
  <2>1. /\ pc["mqtt"] = "have" /\ pc' = [pc EXCEPT !["mqtt"] = "gpio"]
        /\ chan' = [chan EXCEPT !["mqtt"] = ChannelOf(Head(todo).type)]
        /\ val' = [val EXCEPT !["mqtt"] = Head(todo).on]
        /\ UNCHANGED <<todo, edges, relay, cleared, mInstance, mState, sent, inst, wanted>>
    BY <1>3 DEF NextElement
  <2>2. /\ \A b \in Actors : b # "mqtt" => pc'[b] = pc[b] /\ chan'[b] = chan[b] /\ val'[b] = val[b]
        /\ pc'["mqtt"] = "gpio"
    BY <1>m, <2>1 DEF TypeOK
  <2>3. \A b \in Actors : WorksOn(b, ch)' <=> WorksOn(b, ch)
    BY <2>1, <2>2, Names, Works, WorksNext
  <2>4. \A b \in Actors : AtMem(b, ch)' <=> AtMem(b, ch)
    BY <2>1, <2>2 DEF AtMem
  <2>5. OneConnector(ch)'
    BY <2>1, <2>2, <2>3, <2>4, Names, ConnectorKept DEF OneConnector, AtMem
  <2> QED
    BY <2>1, <2>2, <2>3, <2>5, Names, WorkKept DEF Towards
<1> QED
  BY <1>1, <1>2, <1>3

\* The relay goes to the wanted state, or to one on the way to it.
LEMMA SetLevelNext ==
  ASSUME TypeOK, PlaceInv, PointerInv, CommandInv, NEW ch \in Channels,
         Alone(ch), Towards(ch), OneConnector(ch), NEW a \in Actors, SetLevel(a)
  PROVE  Alone(ch)' /\ Towards(ch)' /\ OneConnector(ch)'
<1>1. /\ pc[a] = "gpio" /\ pc' = [pc EXCEPT ![a] = "mem"]
      /\ relay' = [relay EXCEPT ![chan[a]] = val[a]]
      /\ UNCHANGED <<edges, cleared, mInstance, mState, sent, chan, inst, val, todo, wanted>>
  BY DEF SetLevel
<1>2. /\ \A b \in Actors : b # a => pc'[b] = pc[b]
      /\ pc'[a] = "mem"
  BY <1>1 DEF TypeOK
<1>3. \A b \in Actors : WorksOn(b, ch)' <=> WorksOn(b, ch)
  BY <1>1, <1>2, Names, Works, WorksNext
<1>4. CASE chan[a] # ch
  <2>1. relay'[ch] = relay[ch]
    BY <1>1, <1>4 DEF TypeOK
  <2>2. \A b \in Actors : AtMem(b, ch)' <=> AtMem(b, ch)
    BY <1>1, <1>2, <1>4 DEF AtMem
  <2>3. OneConnector(ch)'
    BY <1>1, <1>2, <1>3, <2>1, <2>2, Names, ConnectorKept DEF OneConnector, AtMem
  <2> QED
    BY <1>1, <1>2, <1>3, <2>1, <2>3, Names, WorkKept DEF Towards
<1>5. CASE chan[a] = ch
  <2>1. WorksOn(a, ch)
    BY <1>1, <1>5, AtMemWorks
  <2>2. \A b \in Actors : WorksOn(b, ch) => b = a
    BY <2>1 DEF Alone
  <2>3. relay'[ch] = val[a]
    BY <1>1, <1>5 DEF TypeOK
  <2>4. Alone(ch)' /\ Busy(ch)' /\ Pin(ch) \notin edges'
    BY <1>1, <1>3, <2>1 DEF Alone, Busy
  <2>5. \A t \in ToggleTasks : WorksOn(t, ch)' => t = a /\ val[t] = wanted[ch]
    BY <1>1, <1>3, <2>2, Names DEF Towards
  <2>6. Towards(ch)'
    BY <1>1, <1>2, <2>4, <2>5 DEF Towards
  <2>7. \A b \in Actors : AtMem(b, ch)' => b = a
    <3> SUFFICES ASSUME NEW b \in Actors, AtMem(b, ch)', b # a PROVE FALSE
      OBVIOUS
    <3>1. AtMem(b, ch)
      BY <1>1, <1>2 DEF AtMem
    <3>2. WorksOn(b, ch)
      BY <3>1, AtMemWorks DEF AtMem
    <3> QED
      BY <2>2, <3>2
  <2>8. AtMem(a, ch)'
    BY <1>1, <1>2, <1>5 DEF AtMem
  <2>9. mInstance # NoObject
    BY <1>1 DEF PointerInv
  <2>10. OneConnector(ch)'
    BY <1>1, <1>2, <1>3, <2>3, <2>7, <2>8, <2>9 DEF OneConnector
  <2> QED
    BY <2>4, <2>6, <2>10
<1> QED
  BY <1>4, <1>5

\* The state of the relay is remembered, and its task is done with the channel.
LEMMA SetStateNext ==
  ASSUME TypeOK, PlaceInv, PointerInv, CommandInv, NEW ch \in Channels,
         Alone(ch), Towards(ch), OneConnector(ch), NEW a \in Actors, SetState(a)
  PROVE  Alone(ch)' /\ Towards(ch)' /\ OneConnector(ch)'
<1>1. /\ pc[a] = "mem"
      /\ mState' = [mState EXCEPT ![inst[a]][chan[a]] = val[a]]
      /\ UNCHANGED <<edges, relay, cleared, mInstance, wanted>>
  BY DEF SetState
<1>2. /\ mInstance \in Actors /\ mInstance # NoObject
      /\ chan[a] \in Channels /\ inst[a] \in Actors
      /\ chan[a] = ch => inst[a] = mInstance
  BY <1>1, Names, AtMemWorks DEF OneConnector, PlaceInv, PointerInv, TypeOK
<1>3. /\ \A b \in Actors : b # a => /\ pc'[b] = pc[b] /\ chan'[b] = chan[b]
                                  /\ inst'[b] = inst[b] /\ val'[b] = val[b]
      /\ \A t \in ToggleTasks : t # a => sent'[t] = sent[t]
      /\ IF a = "mqtt" THEN /\ pc'[a] = "have" /\ inst'[a] = inst[a]
                           /\ todo' = Tail(todo) /\ todo # <<>>
                           /\ UNCHANGED sent
                      ELSE pc'[a] = "idle" /\ UNCHANGED todo
  <2>1. CASE a = "mqtt"
    BY <1>1, <2>1 DEF SetState, SetDone, TypeOK, CommandInv
  <2>2. CASE a # "mqtt"
    <3>1. Ends(a) /\ UNCHANGED todo
      BY <2>2 DEF SetState, SetDone
    <3>2. pc'[a] = "idle"
      BY <3>1, EndsOK DEF TypeOK
    <3> QED
      BY <2>2, <3>1, <3>2, EndsOK DEF Ends, TypeOK
  <2> QED
    BY <2>1, <2>2
<1>4. \A b \in Actors : b # "mqtt" /\ b # a => (WorksOn(b, ch)' <=> WorksOn(b, ch))
  BY <1>3, Names, Works, WorksNext
<1>5. \A b \in Actors : AtMem(b, ch)' <=> (b # a /\ AtMem(b, ch))
  BY <1>3 DEF AtMem
<1>6. CASE chan[a] # ch
  <2>1. mState'[mInstance][ch] = mState[mInstance][ch]
    BY <1>1, <1>2, <1>6 DEF TypeOK
  <2>2. \A b \in Actors : AtMem(b, ch)' <=> AtMem(b, ch)
    BY <1>5, <1>6 DEF AtMem
  <2>4. WorksOn("mqtt", ch)' <=> WorksOn("mqtt", ch)
    <3>1. CASE a = "mqtt"
      <4>1. ChannelOf(Head(todo).type) # ch
        BY <1>1, <1>6, <3>1 DEF CommandInv
      <4>2. (\E i \in 1..Len(todo) : ChannelOf(todo[i].type) = ch) <=>
              (\E i \in 1..Len(todo') : ChannelOf(todo'[i].type) = ch)
        <5>1. todo' = Tail(todo) /\ todo # <<>>
          BY <1>3, <3>1
        <5>2. (\E i \in 1..Len(todo) : ChannelOf(todo[i].type) = ch) <=>
                \/ ChannelOf(Head(todo).type) = ch
                \/ \E i \in 1..Len(Tail(todo)) : ChannelOf(Tail(todo)[i].type) = ch
          BY <5>1, TailOf
        <5> QED
          BY <4>1, <5>1, <5>2
      <4> QED
        BY <4>2, Works, WorksNext
    <3>2. CASE a # "mqtt"
      BY <1>3, <3>2, Works, WorksNext
    <3> QED
      BY <3>1, <3>2
  <2>5. a # "mqtt" => ~WorksOn(a, ch) /\ ~WorksOn(a, ch)'
    BY <1>1, <1>3, <1>6, Names, Works, WorksNext
  <2>6. \A b \in Actors : WorksOn(b, ch)' <=> WorksOn(b, ch)
    BY <1>4, <2>4, <2>5
  <2>3. OneConnector(ch)'
    BY <1>1, <1>2, <1>3, <2>1, <2>2, <2>4, <2>6, ConnectorKept DEF OneConnector, AtMem
  <2>7. \A i \in 1..Len(todo') : LastOf(todo', i, ch) => todo'[i].on = wanted[ch]
    <3>1. CASE a = "mqtt"
      <4>1. todo' = Tail(todo) /\ todo # <<>>
        BY <1>3, <3>1
      <4> QED
        BY <4>1, TailOf
    <3>2. CASE a # "mqtt"
      <4>1. todo' = todo
        BY <1>3, <3>2
      <4> QED
        BY <4>1 DEF Towards
    <3> QED
      BY <3>1, <3>2
  <2>8. \A t \in ToggleTasks : WorksOn(t, ch) => t # a
    BY <2>5, Names
  <2> QED
    BY <1>1, <1>3, <2>3, <2>6, <2>7, <2>8, Names, WorkKept
<1>7. CASE chan[a] = ch
  <2>1. WorksOn(a, ch) /\ AtMem(a, ch)
    BY <1>1, <1>7, AtMemWorks DEF AtMem
  <2>2. \A b \in Actors : WorksOn(b, ch) => b = a
    BY <2>1 DEF Alone
  <2>3. relay[ch] = val[a] /\ Pin(ch) \notin edges
    BY <2>1 DEF OneConnector, Alone
  <2>4. mState'[mInstance][ch] = relay[ch]
    BY <1>1, <1>2, <1>7, <2>3 DEF TypeOK
  <2>5. \A b \in Actors : ~AtMem(b, ch)'
    <3> SUFFICES ASSUME NEW b \in Actors, AtMem(b, ch), b # a PROVE FALSE
      BY <1>5
    <3>1. WorksOn(b, ch)
      BY AtMemWorks DEF AtMem
    <3> QED
      BY <2>2, <3>1
  <2>7. \A b \in Actors : WorksOn(b, ch)' => b = "mqtt" /\ a = "mqtt"
    <3>1. a # "mqtt" => ~WorksOn(a, ch)'
      BY <1>3, Names, WorksNext
    <3>2. a # "mqtt" => ~WorksOn("mqtt", ch)'
      BY <1>3, <2>2, Names, Works, WorksNext
    <3> QED
      BY <1>4, <2>2, <3>1, <3>2
  <2>6. OneConnector(ch)'
    BY <1>1, <1>2, <1>3, <1>7, <2>4, <2>5, <2>7 DEF OneConnector
  <2>8. Alone(ch)'
    BY <1>1, <2>3, <2>7 DEF Alone
  <2>9. \A t \in ToggleTasks : ~WorksOn(t, ch)'
    BY <2>7, Names
  <2>10. \A i \in 1..Len(todo') : LastOf(todo', i, ch) => todo'[i].on = wanted[ch]
    <3>1. CASE a = "mqtt"
      <4>1. todo' = Tail(todo) /\ todo # <<>>
        BY <1>3, <3>1
      <4> QED
        BY <4>1, TailOf
    <3>2. CASE a # "mqtt"
      <4>1. todo' = todo
        BY <1>3, <3>2
      <4> QED
        BY <4>1 DEF Towards
    <3> QED
      BY <3>1, <3>2
  <2>11. ~Busy(ch)' => relay[ch] = wanted[ch]
    <3>1. CASE a = "mqtt"
      <4>1. ~Busy(ch)' => ~WorksOn("mqtt", ch)'
        BY Names DEF Busy
      <4>2. ChannelOf(Head(todo).type) = ch /\ val[a] = Head(todo).on
        BY <1>1, <1>7, <3>1 DEF CommandInv
      <4>3. ~WorksOn("mqtt", ch)' => \A i \in 1..Len(Tail(todo)) : ChannelOf(Tail(todo)[i].type) # ch
        BY <1>3, <3>1, WorksNext
      <4> QED
        BY <1>3, <2>3, <3>1, <4>1, <4>2, <4>3, TailOf
    <3>2. CASE a # "mqtt"
      <4>1. a \in ToggleTasks
        BY <1>1, <3>2, Names DEF PlaceInv
      <4> QED
        BY <1>1, <2>1, <2>3, <4>1 DEF Towards
    <3> QED
      BY <3>1, <3>2
  <2>12. Towards(ch)'
    BY <1>1, <2>3, <2>9, <2>10, <2>11 DEF Towards
  <2> QED
    BY <2>6, <2>8, <2>12
<1> QED
  BY <1>6, <1>7

\* A channel once disturbed stays so until a command.
LEMMA DisturbedStays ==
  ASSUME [Next]_vars, \A command \in Commands : ~Deliver(command)
  PROVE  disturbed \subseteq disturbed'
<1>h. ASSUME NEW hit, NEW asked, History(hit, {}, asked) PROVE disturbed \subseteq disturbed'
  BY <1>h DEF History
<1>1. CASE (\E ch \in Channels : PressSwitch(ch)) \/ handleInterruptGpio
  BY <1>1, <1>h DEF PressSwitch, handleInterruptGpio
<1>2. CASE PressConfig \/ ClearStates \/ UNCHANGED vars
  BY <1>2 DEF PressConfig, ClearStates, vars
<1>3. CASE \E t \in ToggleTasks : toggleChannel(t) \/ ReadState(t)
  BY <1>3, <1>h DEF toggleChannel, ReadState
<1>4. CASE NextElement \/ CommandDone \/ \E p \in Pollers : Poll(p) \/ Report(p)
  BY <1>4 DEF NextElement, CommandDone, Poll, Report
<1>5. CASE \E a \in Actors : \/ getInstance(a) \/ Construct(a) \/ Assign(a)
                             \/ SetLevel(a) \/ SetState(a)
  BY <1>5, <1>h DEF getInstance, Construct, Assign, SetLevel, SetState
<1> QED
  BY <1>1, <1>2, <1>3, <1>4, <1>5, Steps

LEMMA UndisturbedNext == IInv /\ [Next]_vars => Undisturbed'
<1> SUFFICES ASSUME TypeOK, PlaceInv, PointerInv, CommandInv, Undisturbed, [Next]_vars,
                    NEW ch \in Channels, ch \notin disturbed'
             PROVE  Alone(ch)' /\ Towards(ch)' /\ OneConnector(ch)'
  BY DEF IInv, Undisturbed
<1>d. ch \notin disturbed => Alone(ch) /\ Towards(ch) /\ OneConnector(ch)
  BY DEF Undisturbed
<1>5. CASE \E command \in Commands : Deliver(command)
  BY <1>d, <1>5, DeliverNext
<1> SUFFICES ASSUME \A command \in Commands : ~Deliver(command)
             PROVE  Alone(ch)' /\ Towards(ch)' /\ OneConnector(ch)'
  BY <1>5
<1>1. Alone(ch) /\ Towards(ch) /\ OneConnector(ch)
  BY <1>d, DisturbedStays
<1>2. CASE \E c \in Channels : PressSwitch(c)
  BY <1>1, <1>2, PressNext
<1>3. CASE PressConfig \/ ClearStates \/ UNCHANGED vars
  BY <1>1, <1>3, AppMainNext
<1>4. CASE handleInterruptGpio
  BY <1>1, <1>4, InterruptNext
<1>6. CASE \E t \in ToggleTasks : toggleChannel(t) \/ ReadState(t)
  BY <1>1, <1>6, ToggleNext
<1>7. CASE \E p \in Pollers : Poll(p)
  BY <1>1, <1>7, GetNext, Names
<1>8. CASE \E p \in Pollers : Report(p)
  BY <1>1, <1>8, ReportNext
<1>9. CASE NextElement \/ CommandDone
  BY <1>1, <1>9, CommandNext
<1>10. CASE \E a \in Actors : getInstance(a) \/ Construct(a) \/ Assign(a)
  BY <1>1, <1>10, GetNext
<1>11. CASE \E a \in Actors : SetLevel(a)
  BY <1>1, <1>11, SetLevelNext
<1>12. CASE \E a \in Actors : SetState(a)
  BY <1>1, <1>12, SetStateNext
<1> QED
  BY <1>2, <1>3, <1>4, <1>6, <1>7, <1>8, <1>9, <1>10, <1>11, <1>12, Steps

\* The inductive invariant.
LEMMA Invariant == Spec => []IInv
<1>1. Init => IInv
  BY TypesInit, UndisturbedInit DEF IInv
<1>2. IInv /\ [Next]_vars => IInv'
  BY TypesNext, PlaceNext, PointerNext, UndisturbedNext DEF IInv
<1> QED
  BY <1>1, <1>2, PTL DEF Spec

-----------------------------------------------------------------------------
\* Every variable has its type, and a task that is about to set a relay has a
\* channel that exists and a connector, never the NULL that getInstance found.
THEOREM TypeInvariant == Spec => []TypeOK
<1>1. IInv => TypeOK
  BY DEF IInv
<1> QED
  BY <1>1, Invariant, PTL

\* A channel nothing has disturbed, once no edge and no task is at work on it,
\* has the relay level it was last asked for and is reported with that level.
THEOREM ChannelFollows == Spec => []SwitchFollows
<1>1. IInv => SwitchFollows
  <2> SUFFICES ASSUME IInv, NEW ch \in Channels, ch \notin disturbed, ~Busy(ch)
               PROVE  /\ relay[ch] = wanted[ch]
                      /\ mInstance # NoObject => mState[mInstance][ch] = relay[ch]
    BY DEF SwitchFollows
  <2>1. Towards(ch) /\ OneConnector(ch) /\ TypeOK /\ PlaceInv /\ CommandInv
    BY DEF IInv, Undisturbed
  <2>3. ~WorksOn("mqtt", ch)
    BY Names DEF Busy
  <2>2. \A a \in Actors : ~AtMem(a, ch)
    BY <2>1, AtMemWorks DEF AtMem, Busy
  <2> QED
    BY <2>1, <2>2, <2>3 DEF Towards, OneConnector
<1> QED
  BY <1>1, Invariant, PTL

\* No two elements of a command are for the same channel.
OnceEach(command) ==
  \A i, j \in 1..Len(command) :
    i # j /\ ChannelOf(command[i].type) \in Channels =>
      ChannelOf(command[i].type) # ChannelOf(command[j].type)

LEMMA OnceEachInit == Init => OnceEach(todo)
BY DEF Init, OnceEach

LEMMA OnceEachNext ==
  ASSUME \A c \in Commands : OnceEach(c), IInv, OnceEach(todo), [Next]_vars
  PROVE  OnceEach(todo)'
<1>1. ASSUME todo # <<>>, todo' = Tail(todo) PROVE OnceEach(todo)'
  <2>1. /\ Len(todo) \in Nat /\ Len(todo') = Len(todo) - 1
        /\ \A i \in 1..Len(todo') : todo'[i] = todo[i + 1]
    BY <1>1, Elements DEF IInv
  <2>2. \A i \in 1..Len(todo') : i + 1 \in 1..Len(todo)
    BY <2>1
  <2> SUFFICES ASSUME NEW i \in 1..Len(todo'), NEW j \in 1..Len(todo'), i # j,
                      ChannelOf(todo'[i].type) \in Channels
               PROVE  ChannelOf(todo'[i].type) # ChannelOf(todo'[j].type)
    BY DEF OnceEach
  <2>3. i + 1 # j + 1 /\ i + 1 \in 1..Len(todo) /\ j + 1 \in 1..Len(todo)
    BY <2>2
  <2> QED
    BY <2>1, <2>3 DEF OnceEach
<1>2. ASSUME todo' = todo PROVE OnceEach(todo)'
  BY <1>2 DEF OnceEach
<1>3. CASE \/ \E ch \in Channels : PressSwitch(ch)
           \/ PressConfig \/ handleInterruptGpio \/ ClearStates \/ UNCHANGED vars
  BY <1>2, <1>3 DEF PressSwitch, PressConfig, handleInterruptGpio, ClearStates, vars
<1>4. CASE \E command \in Commands : Deliver(command)
  <2>1. PICK command \in Commands : Deliver(command)
    BY <1>4
  <2>2. todo' = command
    BY <2>1 DEF Deliver
  <2> QED
    BY <2>1, <2>2 DEF OnceEach
<1>5. CASE \/ \E t \in ToggleTasks : toggleChannel(t) \/ ReadState(t)
           \/ \E p \in Pollers : Poll(p) \/ Report(p)
           \/ CommandDone
  BY <1>2, <1>5 DEF toggleChannel, ReadState, Poll, Report, CommandDone, Rest
<1>6. CASE NextElement
  BY <1>1, <1>2, <1>6 DEF NextElement
<1>7. CASE \E a \in Actors : \/ getInstance(a) \/ Construct(a) \/ Assign(a) \/ SetLevel(a)
  BY <1>2, <1>7 DEF getInstance, Construct, Assign, SetLevel, Rest
<1>8. CASE \E a \in Actors : SetState(a)
  <2>1. PICK a \in Actors : SetState(a)
    BY <1>8
  <2>2. a = "mqtt" => todo # <<>> /\ todo' = Tail(todo)
    BY <2>1 DEF SetState, SetDone, IInv, CommandInv
  <2>3. a # "mqtt" => todo' = todo
    BY <2>1 DEF SetState, SetDone
  <2> QED
    BY <1>1, <1>2, <2>2, <2>3
<1> QED
  BY <1>3, <1>4, <1>5, <1>6, <1>7, <1>8, Steps

\* The one step that moves a relay moves it where its channel is wanted.
LEMMA RelayMoves ==
  ASSUME IInv, OnceEach(todo), [Next]_vars, NEW ch \in Channels,
         relay'[ch] # relay[ch], ch \notin disturbed
  PROVE  relay'[ch] = wanted[ch]
<1>1. TypeOK /\ PlaceInv /\ CommandInv /\ Towards(ch)
  BY DEF IInv, Undisturbed
<1>2. PICK a \in Actors : SetLevel(a)
  BY Steps DEF PressSwitch, PressConfig, handleInterruptGpio, ClearStates, Deliver, toggleChannel,
               ReadState, Poll, Report, NextElement, CommandDone, getInstance, Construct, Assign,
               SetState, Rest, vars
<1>3. pc[a] = "gpio" /\ relay' = [relay EXCEPT ![chan[a]] = val[a]]
  BY <1>2 DEF SetLevel
<1>4. chan[a] = ch /\ relay'[ch] = val[a]
  BY <1>1, <1>3 DEF TypeOK
<1>5. WorksOn(a, ch)
  BY <1>1, <1>3, <1>4, AtMemWorks
<1>6. CASE a \in ToggleTasks
  BY <1>1, <1>3, <1>4, <1>5, <1>6 DEF Towards
<1>7. CASE a = "mqtt"
  <2>1. /\ todo # <<>> /\ ChannelOf(Head(todo).type) = ch /\ val[a] = Head(todo).on
    BY <1>1, <1>3, <1>4, <1>7 DEF CommandInv
  <2>2. /\ Head(todo) = todo[1] /\ Len(todo) \in Nat /\ Len(todo) > 0
    BY <1>1, <2>1, Elements
  <2>3. \A j \in 2..Len(todo) : ChannelOf(todo[j].type) # ch
    BY <2>1, <2>2 DEF OnceEach
  <2>4. LastOf(todo, 1, ch)
    BY <2>1, <2>2, <2>3 DEF LastOf
  <2> QED
    BY <1>1, <1>4, <2>1, <2>2, <2>4 DEF Towards
<1> QED
  BY <1>1, <1>3, <1>6, <1>7, Names DEF PlaceInv

\* The relay of a channel nothing has disturbed only ever goes to the state the
\* channel is wanted in, whoever sets it, as long as no command of the server
\* names a channel twice.
THEOREM Flicker ==
  ASSUME \A c \in Commands : OnceEach(c)
  PROVE  Spec => NoFlicker
<1>1. Init => OnceEach(todo)
  BY OnceEachInit
<1>2. IInv /\ OnceEach(todo) /\ [Next]_vars => OnceEach(todo)'
  BY OnceEachNext
<1> DEFINE Moves == \A ch \in Channels : relay'[ch] # relay[ch] /\ ch \notin disturbed
                                           => relay'[ch] = wanted[ch]
<1>3. IInv /\ OnceEach(todo) /\ [Next]_vars => [Moves]_vars
  BY RelayMoves
<1>4. Spec => [][Moves]_vars
  BY <1>1, <1>2, <1>3, Invariant, PTL DEF Spec
<1> QED
  BY <1>4 DEF NoFlicker

-----------------------------------------------------------------------------
\* A pressed switch whose bit CONFIG does not take is seen by the loop.
LEMMA EdgeIsToggled ==
  ASSUME NEW ch \in Channels, Pin(ch) \in edges, Pin(ch) - 32 \notin edges
  PROVE  Pin(ch) \in ToggledPins
<1> USE DEF SW_1_PIN, SW_2_PIN, CONTROLLER_CHANNEL_1
<1>1. Pin(ch) \in {32, 33} /\ Pin(ch) \in {SW_1_PIN, SW_2_PIN}
  BY DEF Pin
<1>2. BIT(Pin(ch)) = Pin(ch) - 32
  BY <1>1 DEF BIT
<1>3. BIT(Pin(ch)) \notin GPIO_STATUS
  BY <1>2 DEF GPIO_STATUS
<1>4. BIT(Pin(ch)) \in GPIO_STATUS1
  BY <1>1, <1>2 DEF GPIO_STATUS1
<1> QED
  BY <1>1, <1>3, <1>4 DEF ToggledPins

\* The interrupt creates a task for each channel it toggles, when the heap has
\* room for two.
LEMMA RoomServesAll ==
  ASSUME NEW t \in ToggleTasks, NEW u \in ToggleTasks, t # u, IdleTasks = ToggleTasks,
         NEW toggled \in SUBSET Channels, NEW served \in SUBSET toggled,
         NEW taskOf \in [served -> IdleTasks],
         served = toggled \/ IdleTasks = {taskOf[c] : c \in served}
  PROVE  served = toggled
<1> SUFFICES ASSUME NEW c \in toggled, c \notin served PROVE FALSE
  OBVIOUS
<1>1. PICK d \in Channels : served \subseteq {d}
  BY ChannelsAre
<1>2. IdleTasks = {taskOf[e] : e \in served}
  OBVIOUS
<1>3. t = taskOf[d] /\ u = taskOf[d]
  BY <1>1, <1>2
<1> QED
  BY <1>3

\* The tasks the interrupt creates.
LEMMA InterruptTasks ==
  ASSUME handleInterruptGpio
  PROVE  LET toggled == {ch \in Channels : Pin(ch) \in ToggledPins}
         IN \E served \in SUBSET toggled : \E taskOf \in [served -> IdleTasks] :
              /\ \A c, d \in served : taskOf[c] = taskOf[d] => c = d
              /\ served = toggled \/ IdleTasks = {taskOf[c] : c \in served}
              /\ pc' = [a \in Actors |->
                         IF \E c \in served : taskOf[c] = a THEN "arg" ELSE pc[a]]
              /\ sent' = [t \in ToggleTasks |->
                           IF \E c \in served : taskOf[c] = t
                           THEN CHOOSE c \in served : taskOf[c] = t ELSE sent[t]]
BY Zenon DEF handleInterruptGpio

\* The edges of the wall switches that one interrupt finds are all answered by a
\* task of their own, but for a switch whose bit is that of CONFIG pressed with
\* it, as long as the heap has room for the task of each switch.
THEOREM EdgeServed ==
  ASSUME \E t, u \in ToggleTasks : t # u
  PROVE  Spec => SwitchEdgeServed
<1> DEFINE Answered == IdleTasks = ToggleTasks =>
             \A ch \in Channels :
               Pin(ch) \in edges /\ Pin(ch) \notin edges' /\ Pin(ch) - 32 \notin edges =>
                 \E t \in ToggleTasks : pc'[t] = "arg" /\ sent'[t] = ch
<1>1. [Next]_vars => [Answered]_vars
  <2> SUFFICES ASSUME Next, IdleTasks = ToggleTasks, NEW ch \in Channels,
                      Pin(ch) \in edges, Pin(ch) \notin edges', Pin(ch) - 32 \notin edges
               PROVE  \E t \in ToggleTasks : pc'[t] = "arg" /\ sent'[t] = ch
    OBVIOUS
  <2>1. handleInterruptGpio
    BY Steps DEF PressSwitch, PressConfig, ClearStates, Deliver, toggleChannel, ReadState, Poll,
                 Report, NextElement, CommandDone, getInstance, Construct, Assign, SetLevel,
                 SetState, Rest, vars
  <2> DEFINE toggled == {c \in Channels : Pin(c) \in ToggledPins}
  <2>2. PICK served \in SUBSET toggled : \E taskOf \in [served -> IdleTasks] :
          /\ \A c, d \in served : taskOf[c] = taskOf[d] => c = d
          /\ served = toggled \/ IdleTasks = {taskOf[c] : c \in served}
          /\ pc' = [a \in Actors |->
                     IF \E c \in served : taskOf[c] = a THEN "arg" ELSE pc[a]]
          /\ sent' = [t \in ToggleTasks |->
                       IF \E c \in served : taskOf[c] = t
                       THEN CHOOSE c \in served : taskOf[c] = t ELSE sent[t]]
    BY <2>1, InterruptTasks
  <2>3. PICK taskOf \in [served -> IdleTasks] :
          /\ \A c, d \in served : taskOf[c] = taskOf[d] => c = d
          /\ served = toggled \/ IdleTasks = {taskOf[c] : c \in served}
          /\ pc' = [a \in Actors |->
                     IF \E c \in served : taskOf[c] = a THEN "arg" ELSE pc[a]]
          /\ sent' = [t \in ToggleTasks |->
                       IF \E c \in served : taskOf[c] = t
                       THEN CHOOSE c \in served : taskOf[c] = t ELSE sent[t]]
    BY <2>2
  <2>4. ch \in served
    <3>1. toggled \in SUBSET Channels
      OBVIOUS
    <3>2. served = toggled
      BY <2>3, <3>1, RoomServesAll
    <3> QED
      BY <3>2, EdgeIsToggled
  <2>5. taskOf[ch] \in ToggleTasks /\ taskOf[ch] \in Actors
    BY <2>4 DEF Actors
  <2>6. pc'[taskOf[ch]] = "arg"
    BY <2>3, <2>4, <2>5
  <2>7. (CHOOSE c \in served : taskOf[c] = taskOf[ch]) = ch
    BY <2>3, <2>4
  <2>8. sent'[taskOf[ch]] = ch
    BY <2>3, <2>4, <2>5, <2>7
  <2> QED
    BY <2>5, <2>6, <2>8
<1>2. Spec => [][Answered]_vars
  BY <1>1, PTL DEF Spec
<1> QED
  BY <1>2 DEF SwitchEdgeServed
=============================================================================
