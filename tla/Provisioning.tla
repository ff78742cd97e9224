---------------------------- MODULE Provisioning ----------------------------
(***************************************************************************)
(* How the switch is provisioned: the settings kept in NVS flash and their *)
(* copy in RAM (class Config), the web handlers that change them, the      *)
(* CONFIG button that forces the device back into configuration mode, and  *)
(* the restarts that cut any of them short.                                *)
(*                                                                         *)
(* Every writeCF is one committed NVS write under the Config mutex, so it  *)
(* is one step; a handler that saves several settings is a sequence of     *)
(* steps between which the other tasks run and the power may fail.  The    *)
(* two relay states are not kept here: module Switches has them.           *)
(***************************************************************************)
EXTENDS Naturals, Sequences

CONSTANTS
  Forms,        \* the [ssid, pwd] pairs a user may post to connect_wifi
  Brokers,      \* the broker settings a user may post to setup_mqtt
  ButtonTasks,  \* the gotoConfigMode tasks that may be alive at once
  PointerReads, \* what reading through readCF's dangling pointer may give
  NvsErrors     \* TRUE when a writeCF may fail

Modes == {"CONFIG", "OPERATION", "OTHER"}

ASSUME ProvisioningAssumption ==
  /\ \A f \in Forms : f = [ssid |-> f.ssid, pwd |-> f.pwd]
  /\ PointerReads \subseteq {"stored", "null", "garbage"}
  /\ NvsErrors \in BOOLEAN

VARIABLES
  flash,     \* NVS: the stored value of every key
  cfg,       \* RAM: the ConfigStruct of this boot
  service,   \* what app_main started: "off" while restarting
  web,       \* the mongoose task: its handler, its place, its last result
  pressed,   \* the level of the CONFIG button
  count,     \* s_TimerCountInSecond
  task,      \* the gotoConfigMode tasks
  seen,      \* the count each task has loaded to increment
  countdown, \* a rebootTask is counting down
  joined,    \* history: the forms for which connectSTA returned true
  damaged    \* history: the stored credentials were cut or not saved

vars == <<flash, cfg, service, web, pressed, count, task, seen, countdown,
          joined, damaged>>

BrokerKeys == {"mqtt_server", "mqtt_username", "mqtt_password", "mqtt_port"}
CredentialKeys == {"sta_ssid", "sta_pwd"}
Keys == CredentialKeys \cup BrokerKeys \cup {"boot_mode"}

Empty == "empty"       \* the empty string
Factory == "factory"   \* MQTT_SERVER, MQTT_PORT, MQTT_USERNAME, ...

\* The initialisers of ConfigStruct.
Default == [k \in Keys |-> CASE k \in CredentialKeys -> Empty
                             [] k \in BrokerKeys     -> Factory
                             [] k = "boot_mode"      -> "CONFIG"]

-----------------------------------------------------------------------------
\* What the handlers store, in the order they store it.

Ram(key, val) == [to |-> "ram", key |-> key, val |-> val]
Nvs(key, val) == [to |-> "nvs", key |-> key, val |-> val]

\* Mutant: the mode before the credentials it needs.
ConnectStores_ModeFirst(form) ==
  <<Ram("boot_mode", "OPERATION"), Nvs("boot_mode", "OPERATION"),
    Nvs("sta_ssid", form.ssid), Nvs("sta_pwd", form.pwd)>>

\* The last two are setRunningMode(SYSTEM_MODE_OPERATION).
ConnectStores(form) ==
  <<Nvs("sta_ssid", form.ssid), Nvs("sta_pwd", form.pwd),
    Ram("boot_mode", "OPERATION"), Nvs("boot_mode", "OPERATION")>>

\* Mutant: the user name is forgotten.
SetupStores_NoUser(broker) ==
  <<Nvs("mqtt_server", broker), Nvs("mqtt_password", broker),
    Nvs("mqtt_port", broker)>>

SetupStores(broker) ==
  <<Nvs("mqtt_server", broker), Nvs("mqtt_username", broker),
    Nvs("mqtt_password", broker), Nvs("mqtt_port", broker)>>

\* Mutant: the WiFi password survives the reset.
restore_KeepsPassword ==
  <<Nvs("sta_ssid", Empty), Nvs("boot_mode", "CONFIG"),
    Nvs("mqtt_server", Factory), Nvs("mqtt_username", Factory),
    Nvs("mqtt_password", Factory), Nvs("mqtt_port", Factory)>>

restore ==
  <<Ram("sta_ssid", Empty), Ram("sta_pwd", Empty), Ram("boot_mode", "CONFIG"),
    Nvs("sta_ssid", Empty), Nvs("sta_pwd", Empty), Nvs("boot_mode", "CONFIG"),
    Ram("mqtt_server", Factory), Ram("mqtt_port", Factory),
    Ram("mqtt_username", Factory), Ram("mqtt_password", Factory),
    Nvs("mqtt_server", Factory), Nvs("mqtt_username", Factory),
    Nvs("mqtt_password", Factory), Nvs("mqtt_port", Factory)>>

Stores(op, form) == CASE op = "connect" -> ConnectStores(form)
                      [] op = "setup"   -> SetupStores(form)
                      [] op = "reset"   -> restore

NoForm == [ssid |-> Empty, pwd |-> Empty]

IdleWeb == [op |-> "none", form |-> NoForm, at |-> 0, ok |-> TRUE,
            failed |-> FALSE]

\* The handler has made its last store.
AtEnd == web.op \in {"connect", "setup", "reset"}
         /\ web.at = Len(Stores(web.op, web.form)) + 1

-----------------------------------------------------------------------------
\* Start, restart and loss of power.

Init ==
  /\ flash = [Default EXCEPT !["boot_mode"] = "unset"]
  /\ cfg = Default
  /\ service = "off"
  /\ web = IdleWeb
  /\ pressed = FALSE
  /\ count = 0
  /\ task = [t \in ButtonTasks |-> "none"]
  /\ seen = [t \in ButtonTasks |-> 0]
  /\ countdown = FALSE
  /\ joined = {}
  /\ damaged = FALSE

\* readCF hands back the address of a local for every integer type: what is
\* then read is the stored byte, NULL (the default stays) or stale stack.
ReadInteger(key) ==
  IF flash[key] = "unset" THEN {Default[key]}
  ELSE (IF "stored"  \in PointerReads THEN {flash[key]}   ELSE {})
  \cup (IF "null"    \in PointerReads THEN {Default[key]} ELSE {})
  \cup (IF "garbage" \in PointerReads THEN {"OTHER"}      ELSE {})

\* app_main: the Config constructor reads every key, then the mode read
\* decides which service runs.
Boot ==
  /\ service = "off"
  /\ \E mode \in ReadInteger("boot_mode"), port \in ReadInteger("mqtt_port") :
       /\ cfg' = [flash EXCEPT !["boot_mode"] = mode, !["mqtt_port"] = port]
       /\ service' = CASE mode = "CONFIG"    -> "web"
                       [] mode = "OPERATION" -> "mqtt"
                       [] OTHER              -> "none"
  /\ UNCHANGED <<flash, web, pressed, count, task, seen, countdown,
                 joined, damaged>>

\* esp_restart, or the power failing: all that is volatile is gone.
Restart ==
  /\ service' = "off"
  /\ cfg' = Default
  /\ web' = IdleWeb
  /\ count' = 0
  /\ task' = [t \in ButtonTasks |-> "none"]
  /\ seen' = [t \in ButtonTasks |-> 0]
  /\ countdown' = FALSE
  /\ UNCHANGED <<flash, pressed, joined, damaged>>

PowerCut == service # "off" /\ Restart

\* rebootTask at the end of its ten seconds.
rebootTask == countdown /\ Restart

-----------------------------------------------------------------------------
\* The mongoose task runs one handler at a time.

\* Mutant: requests are served whatever app_main started.
WebIdle_AnyService == service # "off" /\ web.op = "none"

WebIdle == service = "web" /\ web.op = "none"

Other == <<service, pressed, count, task, seen, countdown>>

ConnectWifi(form) ==
  /\ WebIdle
  /\ web' = [IdleWeb EXCEPT !.op = "join", !.form = form]
  /\ UNCHANGED <<flash, cfg, Other, joined, damaged>>

\* Mutant: connectSTA waits for a connection without counting its timeout.
Joined_NoTimeout ==
  /\ web.op = "join"
  /\ web.form \in joined
  /\ web' = [web EXCEPT !.op = "connect", !.at = 1]
  /\ UNCHANGED <<flash, cfg, Other, joined, damaged>>

\* connectSTA returns, within its ten seconds; module Station models it.
Joined ==
  /\ web.op = "join"
  /\ \/ /\ joined' = joined \cup {web.form}
        /\ web' = [web EXCEPT !.op = "connect", !.at = 1]
     \/ /\ web' = IdleWeb
        /\ UNCHANGED joined
  /\ UNCHANGED <<flash, cfg, Other, damaged>>

SetupMqtt(broker) ==
  /\ WebIdle
  /\ web' = [IdleWeb EXCEPT !.op = "setup", !.form = broker, !.at = 1]
  /\ UNCHANGED <<flash, cfg, Other, joined, damaged>>

FactoryReset ==
  /\ WebIdle
  /\ web' = [IdleWeb EXCEPT !.op = "reset", !.at = 1]
  /\ UNCHANGED <<flash, cfg, Other, joined, damaged>>

RebootDevice ==
  /\ WebIdle
  /\ countdown' = TRUE
  /\ UNCHANGED <<flash, cfg, service, web, pressed, count, task, seen,
                 joined, damaged>>

\* The stored pair is no longer known to be one that joined, when a
\* credential of a provisioned device is overwritten or is not saved; it is
\* again once a connect has saved all of its stores.
Damage(s, saved) ==
  IF s.key \in CredentialKeys
  THEN damaged \/ ~saved \/ flash["boot_mode"] = "OPERATION"
  ELSE IF s.key = "boot_mode" /\ s.val = "OPERATION" /\ saved
  THEN web.failed
  ELSE damaged

StoreRam(s) ==
  /\ s.to = "ram"
  /\ cfg' = [cfg EXCEPT ![s.key] = s.val]
  /\ web' = [web EXCEPT !.at = @ + 1]
  /\ UNCHANGED <<flash, damaged>>

writeCF(s) ==
  /\ s.to = "nvs"
  /\ \E saved \in {TRUE} \cup {~NvsErrors} :
       /\ flash' = IF saved THEN [flash EXCEPT ![s.key] = s.val] ELSE flash
       /\ web' = [web EXCEPT !.at = @ + 1, !.ok = saved,
                             !.failed = @ \/ ~saved]
       /\ damaged' = Damage(s, saved)
  /\ UNCHANGED cfg

WebStore ==
  /\ web.op \in {"connect", "setup", "reset"}
  /\ web.at \in 1..Len(Stores(web.op, web.form))
  /\ LET s == Stores(web.op, web.form)[web.at]
     IN StoreRam(s) \/ writeCF(s)
  /\ UNCHANGED <<Other, joined>>

\* The answer to setup_mqtt is the result of its last write; that to
\* factory_reset is what file_storage::factoryReset returns.
WebDone ==
  /\ AtEnd
  /\ web' = IdleWeb
  /\ \/ UNCHANGED countdown
     \/ web.op = "reset" /\ countdown' = TRUE
  /\ UNCHANGED <<flash, cfg, service, pressed, count, task, seen,
                 joined, damaged>>

-----------------------------------------------------------------------------
\* The CONFIG button and its tasks.

TIME_PRESS_BTN_IN_SECOND == 3

Rest == <<web, joined, damaged>>

\* A falling edge: the interrupt clears the shared count and creates a task.
Press ==
  /\ service # "off"
  /\ ~pressed
  /\ pressed' = TRUE
  /\ count' = 0
  /\ IF \E t \in ButtonTasks : task[t] = "none"
     THEN \E t \in ButtonTasks : task[t] = "none"
                                 /\ task' = [task EXCEPT ![t] = "poll"]
     ELSE UNCHANGED task
  /\ UNCHANGED <<flash, cfg, service, seen, countdown, Rest>>

\* Released, or found released after a restart.
Release ==
  /\ pressed
  /\ pressed' = FALSE
  /\ UNCHANGED <<flash, cfg, service, count, task, seen, countdown, Rest>>

\* gotoConfigMode: compare the shared count, look at the button, increment.
\* The increment is a load and a store that other tasks may come between.
Held(t) ==
  /\ task[t] = "poll"
  /\ count < TIME_PRESS_BTN_IN_SECOND
  /\ pressed
  /\ task' = [task EXCEPT ![t] = "load"]
  /\ UNCHANGED <<flash, cfg, service, pressed, count, seen, countdown, Rest>>

LoadCount(t) ==
  /\ task[t] = "load"
  /\ seen' = [seen EXCEPT ![t] = count]
  /\ task' = [task EXCEPT ![t] = "store"]
  /\ UNCHANGED <<flash, cfg, service, pressed, count, countdown, Rest>>

StoreCount(t) ==
  /\ task[t] = "store"
  /\ count' = seen[t] + 1
  /\ seen' = [seen EXCEPT ![t] = 0]
  /\ task' = [task EXCEPT ![t] = "poll"]
  /\ UNCHANGED <<flash, cfg, service, pressed, countdown, Rest>>

Released(t) ==
  /\ task[t] = "poll"
  /\ count < TIME_PRESS_BTN_IN_SECOND
  /\ ~pressed
  /\ Restart

ForceConfigRam(t) ==
  /\ task[t] = "poll"
  /\ count >= TIME_PRESS_BTN_IN_SECOND
  /\ cfg' = [cfg EXCEPT !["boot_mode"] = "CONFIG"]
  /\ task' = [task EXCEPT ![t] = "write"]
  /\ UNCHANGED <<flash, service, pressed, count, seen, countdown, Rest>>

ForceConfigNvs(t) ==
  /\ task[t] = "write"
  /\ \/ flash' = [flash EXCEPT !["boot_mode"] = "CONFIG"]
     \/ NvsErrors /\ UNCHANGED flash
  /\ task' = [task EXCEPT ![t] = "wait"]
  /\ UNCHANGED <<cfg, service, pressed, count, seen, countdown, Rest>>

ForceConfigWait(t) ==
  /\ task[t] = "wait"
  /\ count' = 0
  /\ task' = [task EXCEPT ![t] = "restart"]
  /\ UNCHANGED <<flash, cfg, service, pressed, seen, countdown, Rest>>

\* Mutant: the task ends after storing the mode, without a restart.
ForceConfigRestart_Ends(t) ==
  /\ task[t] = "restart"
  /\ task' = [task EXCEPT ![t] = "none"]
  /\ UNCHANGED <<flash, cfg, service, pressed, count, seen, countdown, Rest>>

ForceConfigRestart(t) == task[t] = "restart" /\ Restart

gotoConfigMode(t) ==
  \/ Held(t) \/ LoadCount(t) \/ StoreCount(t) \/ Released(t)
  \/ ForceConfigRam(t) \/ ForceConfigNvs(t)
  \/ ForceConfigWait(t) \/ ForceConfigRestart(t)

-----------------------------------------------------------------------------
WebTask == Joined \/ WebStore \/ WebDone

Next ==
  \/ Boot \/ PowerCut \/ rebootTask
  \/ \E form \in Forms : ConnectWifi(form)
  \/ \E broker \in Brokers : SetupMqtt(broker)
  \/ FactoryReset \/ RebootDevice
  \/ WebTask
  \/ Press \/ Release
  \/ \E t \in ButtonTasks : gotoConfigMode(t)

Spec == Init /\ [][Next]_vars

\* The scheduler runs every ready task: none of the tasks here spins, and the
\* handlers and delays are bounded.
FairSpec ==
  /\ Spec
  /\ WF_vars(Boot) /\ WF_vars(rebootTask) /\ WF_vars(WebTask)
  /\ \A t \in ButtonTasks : WF_vars(gotoConfigMode(t))

-----------------------------------------------------------------------------
Ssids == {f.ssid : f \in Forms} \cup {Empty}
Pwds == {f.pwd : f \in Forms} \cup {Empty}
BrokerValues == Brokers \cup {Factory}

StoredOK(store, modes, ports) ==
  /\ store \in [Keys -> Ssids \cup Pwds \cup BrokerValues \cup modes \cup ports]
  /\ store["sta_ssid"] \in Ssids
  /\ store["sta_pwd"] \in Pwds
  /\ store["boot_mode"] \in modes
  /\ \A k \in BrokerKeys \ {"mqtt_port"} : store[k] \in BrokerValues
  /\ store["mqtt_port"] \in ports

FlashOK == StoredOK(flash, {"unset", "CONFIG", "OPERATION"}, BrokerValues)

CfgOK == StoredOK(cfg, Modes, BrokerValues \cup {"OTHER"})

\* A handler's form fits the handler, and the mongoose task is only at work
\* when app_main started the web service.
WebOK ==
  /\ web \in [op : {"none", "join", "connect", "setup", "reset"},
              form : Forms \cup Brokers \cup {NoForm},
              at : 0..15, ok : BOOLEAN, failed : BOOLEAN]
  /\ web.op # "none" => service = "web"
  /\ web.op \in {"join", "connect"} => web.form \in Forms
  /\ web.op = "setup" => web.form \in Brokers
  /\ web.op \in {"connect", "setup", "reset"} =>
       web.at \in 1..Len(Stores(web.op, web.form)) + 1

ButtonOK ==
  /\ pressed \in BOOLEAN
  /\ count \in Nat
  /\ seen \in [ButtonTasks -> Nat]
  /\ task \in [ButtonTasks -> {"none", "poll", "load", "store", "write",
                               "wait", "restart"}]

\* Every variable has its type.
TypeOK ==
  /\ FlashOK /\ CfgOK /\ WebOK /\ ButtonOK
  /\ service \in {"off", "web", "mqtt", "none"}
  /\ countdown \in BOOLEAN
  /\ joined \subseteq Forms
  /\ damaged \in BOOLEAN

StoredForm == [ssid |-> flash["sta_ssid"], pwd |-> flash["sta_pwd"]]

\* A device whose flash says OPERATION has the credentials of one connect
\* that succeeded: never the ssid of one form with the password of another,
\* and never none, wherever a restart or a power cut fell, unless a
\* provisioned device was being overwritten or a write failed.
OperationHasCredentials ==
  flash["boot_mode"] = "OPERATION" /\ ~damaged => StoredForm \in joined

\* A connect under way has joined with its form, and what it has stored so
\* far without a failure is in flash.
ConnectInProgress ==
  web.op = "connect" =>
    /\ web.form \in joined
    /\ web.at > 1 /\ ~web.failed => flash["sta_ssid"] = web.form.ssid
    /\ web.at > 2 /\ ~web.failed => flash["sta_pwd"] = web.form.pwd

\* A write fails only where writes can fail.
FailuresAreErrors == web.failed => NvsErrors

\* The inductive invariant of module ProvisioningProofs.
IInv == TypeOK /\ OperationHasCredentials /\ ConnectInProgress
               /\ FailuresAreErrors

\* No step makes a device that was not provisioned boot into OPERATION with a
\* pair that no connect obtained, however earlier attempts were cut short.
ProvisioningIsAtomic ==
  [][ flash["boot_mode"] # "OPERATION" /\ flash'["boot_mode"] = "OPERATION"
        /\ ~web.failed
      => StoredForm' \in joined ]_vars

\* What the device joins when it next boots, as the abstract JoinTarget.
NoTarget == [ssid |-> Empty, pwd |-> Empty, mode |-> "CONFIG"]

Target == IF flash["boot_mode"] = "OPERATION"
          THEN [ssid |-> flash["sta_ssid"], pwd |-> flash["sta_pwd"],
                mode |-> "OPERATION"]
          ELSE NoTarget

JT == INSTANCE JoinTarget
        WITH target <- Target, obtained <- joined, None <- NoTarget

\* Without write errors the code implements JoinTarget: an unprovisioned
\* device takes its credentials over in one indivisible step.
ImplementsJoinTarget == JT!Spec

\* What the web page is told has happened has happened: setup_mqtt answers
\* success only with all four broker settings in flash.
SetupAnswerIsTrue ==
  web.op = "setup" /\ AtEnd /\ web.ok =>
    \A k \in BrokerKeys : flash[k] = web.form

\* A factory reset that is answered with success, which starts the countdown
\* to the restart, has left nothing of the old owner in flash.
ResetAnswerIsTrue ==
  [][ web.op = "reset" /\ web'.op = "none" /\ ~countdown /\ countdown'
      => \A k \in Keys : flash'[k] = Default[k] ]_vars

\* Holding the CONFIG button brings the device to a restart: the task counts,
\* stores CONFIG and restarts, or sees the button released and restarts.
HeldButtonRestarts ==
  \A t \in ButtonTasks :
    [](task[t] = "poll" /\ []pressed => <>(service = "off"))

\* Every handler of the web page ends, by answering or by the restart.
HandlerEnds == web.op # "none" ~> web.op = "none"

=============================================================================
