------------------------------ MODULE Switches ------------------------------
(***************************************************************************)
(* The two relays of the switch and everybody who sets them: the interrupt *)
(* handler of the wall switches and the toggle tasks it creates, and the   *)
(* MQTT task with the commands of the server.  The connector they share,   *)
(* which remembers the state of the relays, has no lock and is created by  *)
(* whoever asks for it first.                                              *)
(*                                                                         *)
(* A task's steps are its accesses to what it shares: both cores run them  *)
(* and any other task, or the interrupt, may come between two of them.     *)
(***************************************************************************)
EXTENDS Naturals, Sequences, FiniteSets

CONSTANTS
  ToggleTasks,  \* the toggleChannel tasks the heap has room for
  Commands,     \* the "data" arrays of the server: [type, on] sequences
  Pollers       \* the tasks that report the states

ASSUME SwitchesAssumption ==
  /\ "mqtt" \notin ToggleTasks \cup Pollers /\ "NULL" \notin ToggleTasks \cup Pollers
  /\ ToggleTasks \cap Pollers = {}
  /\ \A c \in Commands : c \in Seq([type : Nat, on : BOOLEAN])

SW_PIN == 0
SW_1_PIN == 32
SW_2_PIN == 33

CONTROLLER_CHANNEL_1 == 0
CONTROLLER_CHANNEL_2 == 1
Channels == {CONTROLLER_CHANNEL_1, CONTROLLER_CHANNEL_2}
Unhandled == 2  \* CONTROLLER_CHANNEL_3, _4 and every value that is no channel

Pin(ch) == IF ch = CONTROLLER_CHANNEL_1 THEN SW_1_PIN ELSE SW_2_PIN

\* The tasks that call smart_switch_connector::getInstance().
Actors == ToggleTasks \cup Pollers \cup {"mqtt"}
NoObject == "NULL"

VARIABLES
  edges,      \* the pins whose interrupt status bit is set
  relay,      \* the levels of the relay pins
  cleared,    \* app_main has set both channel states of Config to false
  mInstance,  \* the connector, named after the task that created it, or NULL
  mState,     \* the channel states remembered by each connector object
  pc,         \* where each task is
  sent,       \* the channel the interrupt handler meant for each toggle task
  chan,       \* the channel each task works on
  inst,       \* the connector each task got
  val,        \* the state each task is about to set
  todo,       \* what the MQTT task has left of its command
  wanted,     \* history: the state each channel was last asked to have
  disturbed   \* history: the channels one of the hazards below has hit, and no
              \* command that came alone has set since

vars == <<edges, relay, cleared, mInstance, mState, pc, sent, chan, inst, val,
          todo, wanted, disturbed>>

\* setControllerState maps a controller type to its channel.
ChannelOf(type) == CASE type = 24        -> CONTROLLER_CHANNEL_2
                     [] type \in {25, 26} -> Unhandled
                     [] OTHER            -> CONTROLLER_CHANNEL_1

\* Task a still has something to do on channel ch.
WorksOn(a, ch) ==
  \/ a \in ToggleTasks /\ pc[a] # "idle"
       /\ (IF pc[a] = "arg" THEN sent[a] = ch ELSE chan[a] = ch)
  \/ a = "mqtt" /\ \E i \in 1..Len(todo) : ChannelOf(todo[i].type) = ch

Busy(ch) == Pin(ch) \in edges \/ \E a \in Actors : WorksOn(a, ch)

Init ==
  /\ edges = {}
  /\ relay = [ch \in Channels |-> FALSE]
  /\ cleared = FALSE
  /\ mInstance = NoObject
  /\ mState = [a \in Actors |-> [ch \in Channels |-> FALSE]]
  /\ pc = [a \in Actors |-> "idle"]
  /\ sent = [t \in ToggleTasks |-> Unhandled]
  /\ chan = [a \in Actors |-> Unhandled]
  /\ inst = [a \in Actors |-> NoObject]
  /\ val = [a \in Actors |-> FALSE]
  /\ todo = <<>>
  /\ wanted = [ch \in Channels |-> FALSE]
  /\ disturbed = {}

-----------------------------------------------------------------------------
\* The history: what a channel was asked is forgotten from a hazard on, to the
\* next command that finds nobody at work on it.
History(hit, set, asked) ==
  /\ disturbed' = (disturbed \ set) \cup (hit \cap Channels)
  /\ wanted' = [ch \in Channels |-> ch \notin disturbed' /\ asked[ch]]

\* The interrupt.

\* A falling edge of a wall switch, or of the CONFIG button.
PressSwitch(ch) ==
  /\ edges' = edges \cup {Pin(ch)}
  /\ History({c \in {ch} : Busy(c)}, {}, [wanted EXCEPT ![ch] = ~@])
  /\ UNCHANGED <<relay, cleared, mInstance, mState, pc, sent, chan, inst, val,
                 todo>>

PressConfig ==
  /\ edges' = edges \cup {SW_PIN}
  /\ UNCHANGED <<relay, cleared, mInstance, mState, pc, sent, chan, inst, val,
                 todo, wanted, disturbed>>

\* BIT(gpio_num) for a gpio_num of 32 and more: the processor shifts by the
\* low five bits of the count.
BIT(n) == n % 32

GPIO_STATUS == {p \in edges : p < 32}
GPIO_STATUS1 == {p - 32 : p \in {q \in edges : q >= 32}}

\* Mutant: the loop ends with the first pin it serves.
ToggledPins_First ==
  {n \in {SW_1_PIN, SW_2_PIN} : /\ BIT(n) \notin GPIO_STATUS
                                /\ BIT(n) \in GPIO_STATUS1
                                /\ n = SW_2_PIN => BIT(SW_1_PIN) \notin GPIO_STATUS1}

\* The loop over the pins reaches the second register only for the pins whose
\* bit is not set in the first.
ToggledPins ==
  {n \in {SW_1_PIN, SW_2_PIN} : BIT(n) \notin GPIO_STATUS
                                /\ BIT(n) \in GPIO_STATUS1}

IdleTasks == {t \in ToggleTasks : pc[t] = "idle"}

\* One toggleChannel task is created for each toggled pin, while there is
\* room.  What CONFIG does is in module Provisioning.
handleInterruptGpio ==
  /\ edges # {}
  /\ edges' = {}
  /\ LET toggled == {ch \in Channels : Pin(ch) \in ToggledPins}
     IN \E served \in SUBSET toggled :
        \E taskOf \in [served -> IdleTasks] :
          /\ \A c, d \in served : taskOf[c] = taskOf[d] => c = d
          /\ served = toggled \/ IdleTasks = {taskOf[c] : c \in served}
          /\ pc' = [a \in Actors |->
                     IF \E c \in served : taskOf[c] = a THEN "arg" ELSE pc[a]]
          /\ sent' = [t \in ToggleTasks |->
                       IF \E c \in served : taskOf[c] = t
                       THEN CHOOSE c \in served : taskOf[c] = t ELSE sent[t]]
          /\ History({ch \in Channels \ served : Pin(ch) \in edges}, {}, wanted)
  /\ UNCHANGED <<relay, cleared, mInstance, mState, chan, inst, val, todo>>

-----------------------------------------------------------------------------
\* The tasks.

\* What atoi makes of the argument.  It is on the stack of an interrupt that has
\* returned: the digit may still be there, the digit of the other switch may have
\* been written over it, by the same interrupt or a later one, or anything else.
atoi == Channels \cup {Unhandled}

toggleChannel(t) ==
  /\ pc[t] = "arg"
  /\ \E channel \in atoi :
       /\ chan' = [chan EXCEPT ![t] = channel]
       /\ History(IF channel = sent[t] THEN {} ELSE {channel, sent[t]}, {}, wanted)
  /\ pc' = [pc EXCEPT ![t] = "get"]
  /\ UNCHANGED <<edges, relay, cleared, mInstance, mState, sent, inst, val, todo>>

\* Element i is the last one of the command for channel ch: the one that counts.
LastOf(command, i, ch) ==
  /\ ChannelOf(command[i].type) = ch
  /\ \A j \in i+1..Len(command) : ChannelOf(command[j].type) # ch

\* A message of the server; app_main starts MQTT after it cleared the states.
Deliver(command) ==
  /\ cleared
  /\ pc["mqtt"] = "idle"
  /\ pc' = [pc EXCEPT !["mqtt"] = "get"]
  /\ todo' = command
  /\ LET named == {ChannelOf(command[i].type) : i \in 1..Len(command)}
     IN History({ch \in named : Busy(ch)}, {ch \in named : ~Busy(ch)},
                [ch \in Channels |->
                  IF ch \in named
                  THEN \E i \in 1..Len(command) : LastOf(command, i, ch) /\ command[i].on
                  ELSE wanted[ch]])
  /\ UNCHANGED <<edges, relay, cleared, mInstance, mState, sent, chan, inst, val>>

\* pollData asks the connector for its states.
Poll(p) ==
  /\ cleared
  /\ pc[p] = "idle"
  /\ pc' = [pc EXCEPT ![p] = "get"]
  /\ UNCHANGED <<edges, relay, cleared, mInstance, mState, sent, chan, inst, val,
                 todo, wanted, disturbed>>

Rest == <<edges, relay, cleared, todo>>

\* A task that ends forgets its locals.
Ends(a) ==
  /\ pc' = [pc EXCEPT ![a] = "idle"]
  /\ inst' = [inst EXCEPT ![a] = NoObject]
  /\ chan' = [chan EXCEPT ![a] = Unhandled]
  /\ val' = [val EXCEPT ![a] = FALSE]
  /\ sent' = [t \in ToggleTasks |-> IF t = a THEN Unhandled ELSE sent[t]]

\* getInstance: the pointer is read, and a connector made where it is NULL.
getInstance(a) ==
  /\ pc[a] = "get"
  /\ IF mInstance = NoObject
     THEN /\ pc' = [pc EXCEPT ![a] = "new"]
          /\ UNCHANGED inst
     ELSE /\ pc' = [pc EXCEPT ![a] = "have"]
          /\ inst' = [inst EXCEPT ![a] = mInstance]
  /\ UNCHANGED <<Rest, sent, chan, mInstance, mState, val, wanted, disturbed>>

\* The constructor copies the channel states of Config: they are on until
\* app_main clears them, which is after it has enabled the interrupt.
Construct(a) ==
  /\ pc[a] = "new"
  /\ mState' = [mState EXCEPT ![a] = [ch \in Channels |-> ~cleared]]
  /\ pc' = [pc EXCEPT ![a] = "assign"]
  /\ History(IF cleared THEN {} ELSE Channels, {}, wanted)
  /\ UNCHANGED <<Rest, sent, chan, mInstance, inst, val>>

\* Mutant: the pointer that was read is handed back.
Assign_HandsBackNull(a) ==
  /\ pc[a] = "assign"
  /\ mInstance' = a
  /\ pc' = [pc EXCEPT ![a] = "have"]
  /\ History(IF mInstance = NoObject THEN {} ELSE Channels, {}, wanted)
  /\ UNCHANGED <<Rest, sent, chan, mState, inst, val>>

Assign(a) ==
  /\ pc[a] = "assign"
  /\ mInstance' = a
  /\ inst' = [inst EXCEPT ![a] = a]
  /\ pc' = [pc EXCEPT ![a] = "have"]
  /\ History(IF mInstance = NoObject THEN {} ELSE Channels, {}, wanted)
  /\ UNCHANGED <<Rest, sent, chan, mState, val>>

\* toggleChannel of the connector: read, negate, then setControllerState,
\* which ignores the channels that have no relay.
ReadState(t) ==
  /\ t \in ToggleTasks
  /\ pc[t] = "have"
  /\ IF chan[t] = Unhandled
     THEN Ends(t)
     ELSE /\ pc' = [pc EXCEPT ![t] = "gpio"]
          /\ val' = [val EXCEPT ![t] = ~mState[inst[t]][chan[t]]]
          /\ UNCHANGED <<sent, chan, inst>>
  /\ UNCHANGED <<Rest, mInstance, mState, wanted, disturbed>>

\* handleDeviceControlling takes the elements of the command in turn.
NextElement ==
  /\ pc["mqtt"] = "have"
  /\ todo # <<>>
  /\ LET channel == ChannelOf(Head(todo).type)
     IN IF channel = Unhandled
        THEN todo' = Tail(todo) /\ UNCHANGED <<pc, chan, val>>
        ELSE /\ pc' = [pc EXCEPT !["mqtt"] = "gpio"]
             /\ chan' = [chan EXCEPT !["mqtt"] = channel]
             /\ val' = [val EXCEPT !["mqtt"] = Head(todo).on]
             /\ UNCHANGED todo
  /\ UNCHANGED <<edges, relay, cleared, mInstance, mState, sent, inst, wanted,
                 disturbed>>

CommandDone ==
  /\ pc["mqtt"] = "have"
  /\ todo = <<>>
  /\ Ends("mqtt")
  /\ UNCHANGED <<Rest, mInstance, mState, wanted, disturbed>>

\* toJsonString reports both states.
Report(p) ==
  /\ pc[p] = "have"
  /\ Ends(p)
  /\ UNCHANGED <<Rest, mInstance, mState, wanted, disturbed>>

\* Mutant: the relay is taken to be active low.
SetLevel_ActiveLow(a) ==
  /\ pc[a] = "gpio"
  /\ relay' = [relay EXCEPT ![chan[a]] = ~val[a]]
  /\ pc' = [pc EXCEPT ![a] = "mem"]
  /\ UNCHANGED <<edges, cleared, mInstance, mState, sent, chan, inst, val, todo,
                 wanted, disturbed>>

\* setControllerState: the relay first, then the state that is remembered.
SetLevel(a) ==
  /\ pc[a] = "gpio"
  /\ relay' = [relay EXCEPT ![chan[a]] = val[a]]
  /\ pc' = [pc EXCEPT ![a] = "mem"]
  /\ UNCHANGED <<edges, cleared, mInstance, mState, sent, chan, inst, val, todo,
                 wanted, disturbed>>

\* After setControllerState a toggle task ends, and a command goes on.
SetDone(a) ==
  IF a = "mqtt"
  THEN /\ pc' = [pc EXCEPT ![a] = "have"]
       /\ chan' = [chan EXCEPT ![a] = Unhandled]
       /\ val' = [val EXCEPT ![a] = FALSE]
       /\ todo' = Tail(todo)
       /\ UNCHANGED <<inst, sent>>
  ELSE Ends(a) /\ UNCHANGED todo

\* Mutant: the state is not remembered.
SetState_Forgets(a) ==
  /\ pc[a] = "mem"
  /\ SetDone(a)
  /\ UNCHANGED <<edges, relay, cleared, mInstance, mState, wanted, disturbed>>

SetState(a) ==
  /\ pc[a] = "mem"
  /\ mState' = [mState EXCEPT ![inst[a]][chan[a]] = val[a]]
  /\ SetDone(a)
  /\ UNCHANGED <<edges, relay, cleared, mInstance, wanted, disturbed>>

\* app_main clears the channel states once Config exists.
ClearStates ==
  /\ ~cleared
  /\ cleared' = TRUE
  /\ UNCHANGED <<edges, relay, mInstance, mState, pc, sent, chan, inst, val, todo,
                 wanted, disturbed>>

-----------------------------------------------------------------------------
Connector(a) ==
  \/ getInstance(a) \/ Construct(a) \/ Assign(a)
  \/ SetLevel(a) \/ SetState(a)

ToggleTask(t) == toggleChannel(t) \/ ReadState(t) \/ Connector(t)
MqttTask == NextElement \/ CommandDone \/ Connector("mqtt")
PollTask(p) == Report(p) \/ Connector(p)

Next ==
  \/ \E ch \in Channels : PressSwitch(ch)
  \/ PressConfig \/ handleInterruptGpio \/ ClearStates
  \/ \E command \in Commands : Deliver(command)
  \/ \E t \in ToggleTasks : ToggleTask(t)
  \/ \E p \in Pollers : Poll(p) \/ PollTask(p)
  \/ MqttTask

Spec == Init /\ [][Next]_vars

-----------------------------------------------------------------------------
\* Every variable has its type, whoever is past getInstance has a connector, and
\* whoever sets a relay a channel that exists.
TypeOK ==
  /\ edges \subseteq {SW_PIN, SW_1_PIN, SW_2_PIN}
  /\ relay \in [Channels -> BOOLEAN]
  /\ cleared \in BOOLEAN
  /\ mInstance \in Actors \cup {NoObject}
  /\ mState \in [Actors -> [Channels -> BOOLEAN]]
  /\ pc \in [Actors -> {"idle", "arg", "get", "new", "assign", "have", "gpio",
                         "mem"}]
  /\ sent \in [ToggleTasks -> Channels \cup {Unhandled}]
  /\ chan \in [Actors -> Channels \cup {Unhandled}]
  /\ inst \in [Actors -> Actors \cup {NoObject}]
  /\ val \in [Actors -> BOOLEAN]
  /\ todo \in Seq([type : Nat, on : BOOLEAN])
  /\ wanted \in [Channels -> BOOLEAN]
  /\ disturbed \subseteq Channels
  /\ \A a \in Actors : pc[a] \in {"gpio", "mem"} => chan[a] \in Channels
  /\ \A a \in Actors : pc[a] \in {"have", "gpio", "mem"} => inst[a] \in Actors

\* A channel at rest has the relay level it was last asked for, and the
\* connector reports that level, unless: two settings of the channel
\* overlapped, an edge was cleared without a task, a task read another channel
\* from the dead stack, the connector was made before app_main cleared the
\* states, or it was made twice.  None of them outlasts the next command of the
\* server that finds nobody at work on the channel.
SwitchFollows ==
  \A ch \in Channels : ch \notin disturbed /\ ~Busy(ch) =>
    /\ relay[ch] = wanted[ch]
    /\ mInstance # NoObject => mState[mInstance][ch] = relay[ch]

\* A relay nothing disturbs, or that a command has put right, never flickers: it
\* goes to the wanted state only.
NoFlicker ==
  [][ \A ch \in Channels : relay'[ch] # relay[ch] /\ ch \notin disturbed
        => relay'[ch] = wanted[ch] ]_vars

\* The presses of one interrupt all get their tasks when there is room, but for
\* the pin whose bit, 32 places further, is that of CONFIG pressed with it.
SwitchEdgeServed ==
  [][ IdleTasks = ToggleTasks =>
      \A ch \in Channels :
        Pin(ch) \in edges /\ Pin(ch) \notin edges' /\ Pin(ch) - 32 \notin edges =>
          \E t \in ToggleTasks : pc'[t] = "arg" /\ sent'[t] = ch ]_vars

=============================================================================
