------------------------------ MODULE Station ------------------------------
(***************************************************************************)
(* The WiFi station: the task that joins a network and waits for it, which *)
(* is app_main in OPERATION and the mongoose task in CONFIG, and the event *)
(* loop task, which handles what the WiFi driver reports, one event at a   *)
(* time, sleeping inside the handlers.  The two share one flag, connected, *)
(* and the driver; what each event was about is not in the flag.           *)
(*                                                                         *)
(* The mongoose task also scans for networks.  It waits for a flag that    *)
(* the event loop sets before it fetches the number and the list of what   *)
(* was found, in variables of WiFiScanClass that nothing locks.            *)
(*                                                                         *)
(* Provisioning!Joined is the outcome of ConnectWifi here, and the flag is *)
(* what MqttClient calls wifi.                                             *)
(***************************************************************************)
EXTENDS Integers, Sequences, Functions

CONSTANTS
  Forms,                \* the credentials that may be tried
  Seconds,              \* the 10 or 15 seconds connectSTA waits
  STA_CONNECT_TIMEOUT,  \* the 300 of wifi_manager.cpp
  BusyConnect,          \* what esp_wifi_connect may do when it is not needed
  Lists,                \* the lists of networks a scan may find
  MaxQueue              \* bound: the events that wait for the event loop

\* In place of _scanResult while it is NULL.
Null == <<"NULL">>

\* What records may hold that nothing has filled: heap that a list of an earlier
\* scan was in, or anything else.
Names == UNION {Range(l) : l \in Lists}
Garbage == Names \cup {"garbage"}

ASSUME StationAssumption ==
  /\ Seconds \in Nat \ {0}
  /\ STA_CONNECT_TIMEOUT \in Nat
  /\ BusyConnect \subseteq {"ignored", "error"} /\ BusyConnect # {}
  /\ MaxQueue \in Nat \ {0}
  /\ "none" \notin Forms
  /\ Lists # {} /\ \A l \in Lists : l \in Seq(Range(l))
  /\ "NULL" \notin Names

VARIABLES
  portal,      \* app_main started the portal, or else connectSTA
  ssid,        \* an ssid is stored
  mode,        \* the running mode, which connect_wifi changes
  connected,   \* wifi_sta::connected
  config,      \* the credentials the driver was last given
  link,        \* the driver: "down", "trying" or "joined", and with what
  queue,       \* the events the event loop has still to handle
  loop,        \* where the event loop task is
  staTimeout,  \* s_staTimeout
  call,        \* the task inside connectSTA: its place, form and seconds left
  scan,        \* the task inside handleScanWiFi: its place, n and what it lists
  scanFlags,   \* _scanStarted and _scanComplete
  scanCount,   \* _scanCount
  scanResult,  \* _scanResult: NULL, new and not filled, or the list in it
  radio,       \* the driver: "scanning" or "idle"
  found,       \* and what its last scan has found
  fresh,       \* history: the station was at rest when the call began
  reached      \* history: the form of the call has joined since it began

driver == <<config, link, queue>>
history == <<fresh, reached>>
scanList == <<scanCount, scanResult>>
scanning == <<scan, scanFlags, scanList, radio, found>>
joining == <<portal, ssid, mode, connected, config, link, staTimeout, call, history>>
vars == <<portal, ssid, mode, connected, driver, loop, staTimeout, call, history, scanning>>

NoLink == [state |-> "down", form |-> "none"]
NoCall == [at |-> "idle", form |-> "none", left |-> 0, ok |-> FALSE,
           told |-> FALSE]
NoScan == [at |-> "idle", n |-> 0, told |-> <<>>, early |-> FALSE]

NothingScanned ==
  /\ scan = NoScan
  /\ scanFlags = [started |-> FALSE, complete |-> FALSE]
  /\ scanCount = 0 /\ scanResult = Null
  /\ radio = "idle" /\ found = <<>>

Rest ==
  /\ connected = FALSE
  /\ config = "none" /\ link = NoLink /\ queue = <<>>
  /\ loop = "idle"
  /\ staTimeout = 0

\* The ssid may be empty in OPERATION too: a restart in Config::restore, which
\* clears it before it writes the mode.
Init ==
  /\ portal \in BOOLEAN
  /\ ssid \in BOOLEAN
  /\ mode = IF portal THEN "CONFIG" ELSE "OPERATION"
  /\ Rest
  /\ call = NoCall
  /\ NothingScanned
  /\ fresh = TRUE /\ reached = FALSE

-----------------------------------------------------------------------------
\* The WiFi driver.

Posts(event) ==
  /\ Len(queue) < MaxQueue
  /\ queue' = Append(queue, event)

Associates ==
  /\ link.state = "trying"
  /\ link' = [link EXCEPT !.state = "joined"]
  /\ Posts("GOT_IP")
  /\ reached' = (reached \/ link.form = call.form)
  /\ UNCHANGED <<portal, ssid, mode, connected, config, loop, staTimeout, call, fresh, scanning>>

Fails ==
  /\ link.state = "trying"
  /\ link' = NoLink
  /\ Posts("DISCONNECTED")
  /\ UNCHANGED <<portal, ssid, mode, connected, config, loop, staTimeout, call, history, scanning>>

LosesNetwork ==
  /\ link.state = "joined"
  /\ link' = NoLink
  /\ Posts("DISCONNECTED")
  /\ UNCHANGED <<portal, ssid, mode, connected, config, loop, staTimeout, call, history, scanning>>

\* esp_wifi_disconnect: the event is posted if there was anything to end.
esp_wifi_disconnect ==
  IF link.state = "down" THEN UNCHANGED <<link, queue>>
  ELSE link' = NoLink /\ Posts("DISCONNECTED")

\* esp_wifi_connect, under ESP_ERROR_CHECK: when the station is at it already,
\* or joined, it does nothing, or the error aborts.
Aborts == link.state # "down" /\ "error" \in BusyConnect

esp_wifi_connect ==
  \/ link.state = "down" /\ link' = [state |-> "trying", form |-> config]
  \/ link.state # "down" /\ "ignored" \in BusyConnect /\ UNCHANGED link

\* A scan ends, or is ended by an attempt to connect and has found what it has
\* by then.  It takes longer than the two assignments that follow its start.
\* Its one event has a place in the queue beside the MaxQueue.
ScanEndsInDriver ==
  /\ radio = "scanning"
  /\ scan.at = "wait"
  /\ radio' = "idle"
  /\ found' \in Lists
  /\ queue' = Append(queue, "SCAN_DONE")
  /\ UNCHANGED <<joining, loop, scan, scanFlags, scanList>>

-----------------------------------------------------------------------------
\* connectSTA.

\* connect_wifi of the portal; otherwise connectSTA of wifi_manager, once, and
\* only with an ssid.
ConnectWifi(form) ==
  /\ loop # "reboot"
  /\ call.at = "idle" /\ scan.at = "idle"
  /\ \/ portal /\ esp_wifi_disconnect
     \/ ~portal /\ ssid /\ config = "none" /\ UNCHANGED <<link, queue>>
  /\ call' = [at |-> "set", form |-> form, left |-> Seconds, ok |-> FALSE,
              told |-> FALSE]
  /\ fresh' = (~connected /\ link = NoLink /\ queue = <<>> /\ loop = "idle")
  /\ reached' = FALSE
  /\ UNCHANGED <<portal, ssid, mode, connected, config, loop, staTimeout, scanning>>

\* A connection of the flag is ended, and the driver is given the form.
SetConfig ==
  /\ loop # "reboot"
  /\ call.at = "set"
  /\ IF connected THEN esp_wifi_disconnect ELSE UNCHANGED <<link, queue>>
  /\ config' = call.form
  /\ call' = [call EXCEPT !.at = "connect"]
  /\ UNCHANGED <<portal, ssid, mode, connected, loop, staTimeout, history, scanning>>

Connect ==
  /\ loop # "reboot"
  /\ call.at = "connect"
  /\ \/ /\ esp_wifi_connect
        /\ call' = [call EXCEPT !.at = "wait"]
        /\ UNCHANGED loop
     \/ Aborts /\ loop' = "reboot" /\ UNCHANGED <<link, call>>
  /\ UNCHANGED <<portal, ssid, mode, connected, config, queue, staTimeout, history, scanning>>

EventLoopSleeps == loop \in {"delay", "sntp"} \/ (loop = "idle" /\ queue = <<>>)

\* Mutant: the end of the time is taken for success.
WaitSecond_TimeoutIsOk ==
  /\ call.at = "wait"
  /\ EventLoopSleeps
  /\ call' = IF connected \/ call.left = 1
             THEN [call EXCEPT !.at = "done", !.left = 0, !.ok = TRUE]
             ELSE [call EXCEPT !.left = @ - 1]
  /\ UNCHANGED <<portal, ssid, mode, connected, driver, loop, staTimeout, history, scanning>>

\* One second of the wait, in which an event loop that does not sleep handles
\* what is in its queue.
WaitSecond ==
  /\ call.at = "wait"
  /\ EventLoopSleeps
  /\ call' = IF connected \/ call.left = 1
             THEN [call EXCEPT !.at = "done", !.left = 0, !.ok = connected]
             ELSE [call EXCEPT !.left = @ - 1]
  /\ UNCHANGED <<portal, ssid, mode, connected, driver, loop, staTimeout, history, scanning>>

\* The portal answers with the flag as it is now, and then stores the form if
\* the wait was a success.
Answer ==
  /\ loop # "reboot"
  /\ portal /\ call.at = "done"
  /\ call' = [call EXCEPT !.at = "told", !.told = connected]
  /\ UNCHANGED <<portal, ssid, mode, connected, driver, loop, staTimeout, history, scanning>>

Return ==
  /\ loop # "reboot"
  /\ call.at = IF portal THEN "told" ELSE "done"
  /\ call' = NoCall
  /\ IF call.ok THEN ssid' = TRUE /\ mode' = "OPERATION" ELSE UNCHANGED <<ssid, mode>>
  /\ UNCHANGED <<portal, connected, driver, loop, staTimeout, history, scanning>>

-----------------------------------------------------------------------------
\* handleScanWiFi and scanNetworks.

\* Mutant: what the scan before has left is kept.
scanDelete_Nothing == UNCHANGED scanList

\* The list of the scan before, and its number with it.
scanDelete ==
  /\ scanResult' = Null
  /\ scanCount' = IF scanResult = Null THEN scanCount ELSE 0

InScanDone == loop \in {"ap_num", "new", "ap_records"}

\* The next request comes later than the few lines of _scanDone take, which may
\* still be under way when the answer before was read early.
StartScan ==
  /\ loop # "reboot" /\ ~InScanDone
  /\ portal /\ call.at = "idle" /\ scan.at = "idle"
  /\ ~scanFlags.started
  /\ scanDelete
  /\ scanFlags' = [scanFlags EXCEPT !.complete = FALSE]
  /\ \/ radio' = "scanning" /\ scan' = [scan EXCEPT !.at = "flags"]
        /\ UNCHANGED loop
     \/ \* It fails: n = -2, and the text is an array that is larger than
        \* the stack of the task.
        /\ scan' = [scan EXCEPT !.at = "told", !.n = -2]
        /\ loop' \in {loop, "reboot"}
        /\ UNCHANGED radio
  /\ UNCHANGED <<joining, queue, found>>

SetScanFlags ==
  /\ loop # "reboot"
  /\ scan.at = "flags"
  /\ scanFlags' = [started |-> TRUE, complete |-> FALSE]
  /\ scan' = [scan EXCEPT !.at = "wait"]
  /\ UNCHANGED <<joining, queue, loop, scanList, radio, found>>

\* The flag is polled every 10 ms.
CountNetworks ==
  /\ loop # "reboot"
  /\ scan.at = "wait" /\ scanFlags.complete
  /\ scan' = [scan EXCEPT !.at = "list", !.n = scanCount,
                          !.early = InScanDone]
  /\ UNCHANGED <<joining, queue, loop, scanFlags, scanList, radio, found>>

_getScanInfoByIndex(i) ==
  IF scanResult = Null THEN "NULL" ELSE scanResult[i]

\* The answer: a line for each of the n.
ListNetworks ==
  /\ loop # "reboot"
  /\ scan.at = "list"
  /\ scan' = [scan EXCEPT !.at = "told",
                          !.told = [i \in 1..scan.n |-> _getScanInfoByIndex(i)]]
  /\ UNCHANGED <<joining, queue, loop, scanFlags, scanList, radio, found>>

ScanReturns ==
  /\ loop # "reboot"
  /\ scan.at = "told"
  /\ scan' = NoScan
  /\ UNCHANGED <<joining, queue, loop, scanFlags, scanList, radio, found>>

-----------------------------------------------------------------------------
\* event_handler of wifi_manager.

NextEvent(event) ==
  /\ loop = "idle"
  /\ queue # <<>>
  /\ Head(queue) = event
  /\ queue' = Tail(queue)

\* The flag is cleared and the task sleeps three seconds, unless memory is
\* low in OPERATION.
Disconnected ==
  /\ NextEvent("DISCONNECTED")
  /\ \/ connected' = FALSE /\ loop' = "delay"
     \/ mode = "OPERATION" /\ loop' = "reboot" /\ UNCHANGED connected
  /\ UNCHANGED <<portal, ssid, mode, config, link, staTimeout, call, history, scanning>>

\* Mutant: in OPERATION the network is not tried again.
Retry_OnlyInConfig ==
  /\ loop = "delay"
  /\ \/ portal /\ esp_wifi_connect
     \/ mode = "OPERATION" /\ UNCHANGED link
  /\ loop' = "idle"
  /\ UNCHANGED <<portal, ssid, mode, connected, config, queue, staTimeout, call, history, scanning>>

\* Mutant: the attempts are counted without an end.
Retry_NeverReboots ==
  /\ loop = "delay"
  /\ esp_wifi_connect
  /\ staTimeout' = IF mode = "OPERATION" THEN staTimeout + 1 ELSE staTimeout
  /\ loop' = "idle"
  /\ UNCHANGED <<portal, ssid, mode, connected, config, queue, call, history, scanning>>

\* Whatever the driver was last given is tried, and the attempts counted.
Retry ==
  /\ loop = "delay"
  /\ \/ /\ esp_wifi_connect
        /\ staTimeout' = IF mode = "OPERATION" THEN staTimeout + 1
                                               ELSE staTimeout
        /\ loop' = IF staTimeout' > STA_CONNECT_TIMEOUT THEN "reboot" ELSE "idle"
     \/ Aborts /\ loop' = "reboot" /\ UNCHANGED <<link, staTimeout>>
  /\ UNCHANGED <<portal, ssid, mode, connected, config, queue, call, history, scanning>>

\* Mutant: the flag is set only when the time is known.
GotIP_FlagLater ==
  /\ NextEvent("GOT_IP")
  /\ loop' = "sntp"
  /\ UNCHANGED <<portal, ssid, mode, connected, config, link, staTimeout, call, history, scanning>>

GotIP ==
  /\ NextEvent("GOT_IP")
  /\ connected' = TRUE
  /\ loop' = "sntp"
  /\ UNCHANGED <<portal, ssid, mode, config, link, staTimeout, call, history, scanning>>

\* initialize_sntp has the time, or has given up.
SntpDone ==
  /\ loop = "sntp"
  /\ staTimeout' = 0
  /\ loop' = "idle"
  /\ UNCHANGED <<portal, ssid, mode, connected, driver, call, history, scanning>>

\* _scanDone: the flags, and only then the number, the memory and the list.

\* Mutant: only the callback of an asynchronous scan sets the flags.
ScanDone_NotComplete ==
  /\ NextEvent("SCAN_DONE")
  /\ scanFlags' = [scanFlags EXCEPT !.started = FALSE]
  /\ loop' = "ap_num"
  /\ UNCHANGED <<joining, scan, scanList, radio, found>>

ScanDone ==
  /\ NextEvent("SCAN_DONE")
  /\ scanFlags' = [started |-> FALSE, complete |-> TRUE]
  /\ loop' = "ap_num"
  /\ UNCHANGED <<joining, scan, scanList, radio, found>>

GetApNum ==
  /\ loop = "ap_num"
  /\ scanCount' = Len(found)
  /\ loop' = IF found = <<>> THEN "idle" ELSE "new"
  /\ UNCHANGED <<joining, queue, scan, scanFlags, scanResult, radio, found>>

\* new either has the memory or aborts, and fills nothing.
NewRecords ==
  /\ loop = "new"
  /\ \/ scanResult' \in [1..scanCount -> Garbage] /\ loop' = "ap_records"
     \/ loop' = "reboot" /\ UNCHANGED scanResult
  /\ UNCHANGED <<joining, queue, scan, scanFlags, scanCount, radio, found>>

GetApRecords ==
  /\ loop = "ap_records"
  /\ scanCount' = Len(found) /\ scanResult' = found
  /\ loop' = "idle"
  /\ UNCHANGED <<joining, queue, scan, scanFlags, radio, found>>

\* The button task, which restarts any device (module Provisioning): here only
\* the one that nothing else takes on, in OPERATION without an ssid.
ButtonHeld ==
  /\ ~portal /\ ~ssid
  /\ loop = "idle" /\ loop' = "reboot"
  /\ UNCHANGED <<portal, ssid, mode, connected, driver, staTimeout, call, history, scanning>>

\* esp_restart; what then boots is the same mode, or the other one.
Restart ==
  /\ loop = "reboot"
  /\ portal' \in BOOLEAN
  /\ ssid' \in BOOLEAN
  /\ mode' = IF portal' THEN "CONFIG" ELSE "OPERATION"
  /\ connected' = FALSE
  /\ config' = "none" /\ link' = NoLink /\ queue' = <<>>
  /\ loop' = "idle"
  /\ staTimeout' = 0
  /\ call' = NoCall
  /\ scan' = NoScan
  /\ scanFlags' = [started |-> FALSE, complete |-> FALSE]
  /\ scanCount' = 0 /\ scanResult' = Null
  /\ radio' = "idle" /\ found' = <<>>
  /\ fresh' = TRUE /\ reached' = FALSE

-----------------------------------------------------------------------------
Call == SetConfig \/ Connect \/ WaitSecond \/ Answer \/ Return
Scan == SetScanFlags \/ CountNetworks \/ ListNetworks \/ ScanReturns
EventLoop ==
  \/ Disconnected \/ Retry \/ GotIP \/ SntpDone
  \/ ScanDone \/ GetApNum \/ NewRecords \/ GetApRecords
Driver == Associates \/ Fails

Next ==
  \/ Driver \/ LosesNetwork \/ ScanEndsInDriver
  \/ StartScan \/ Scan
  \/ \E form \in Forms : ConnectWifi(form)
  \/ Call \/ EventLoop \/ ButtonHeld \/ Restart

Spec == Init /\ [][Next]_vars

\* The tasks are run, an attempt or a scan of the driver ends, and app_main of a
\* device in OPERATION with an ssid calls connectSTA.
FairSpec ==
  /\ Spec
  /\ WF_vars(Driver) /\ WF_vars(Call) /\ WF_vars(EventLoop) /\ WF_vars(Restart)
  /\ WF_vars(ScanEndsInDriver) /\ WF_vars(Scan)
  /\ WF_vars(~portal /\ \E form \in Forms : ConnectWifi(form))

-----------------------------------------------------------------------------
\* Every variable has its type.
TypeOK ==
  /\ portal \in BOOLEAN /\ ssid \in BOOLEAN
  /\ mode \in {"CONFIG", "OPERATION"} /\ (~portal => mode = "OPERATION")
  /\ connected \in BOOLEAN
  /\ config \in Forms \cup {"none"}
  /\ link \in [state : {"down", "trying", "joined"}, form : Forms \cup {"none"}]
  /\ queue \in Seq({"GOT_IP", "DISCONNECTED", "SCAN_DONE"}) /\ Len(queue) <= MaxQueue + 1
  /\ loop \in {"idle", "delay", "sntp", "ap_num", "new", "ap_records", "reboot"}
  /\ staTimeout \in 0..STA_CONNECT_TIMEOUT + 1
  /\ call \in [at : {"idle", "set", "connect", "wait", "done", "told"},
               form : Forms \cup {"none"}, left : 0..Seconds, ok : BOOLEAN,
               told : BOOLEAN]
  /\ fresh \in BOOLEAN /\ reached \in BOOLEAN
  /\ (link.state = "down") = (link.form = "none")
  /\ scan.at \in {"idle", "flags", "wait", "list", "told"}
  /\ scanFlags \in [started : BOOLEAN, complete : BOOLEAN]
  /\ scanResult = Null => scanCount = 0 \/ loop \in {"new", "reboot"}
  /\ scanResult = Null \/ scanResult \in [1..Len(found) -> Garbage]
  /\ scanCount = 0 \/ scanCount = Len(found)
  /\ radio \in {"idle", "scanning"} /\ found \in Lists \cup {<<>>}
  /\ scan.at # "idle" => call.at = "idle"

\* Once the event loop has caught up, the flag says what the link is.
FlagFollowsLink ==
  queue = <<>> /\ loop # "reboot" => (connected <=> link.state = "joined")

\* An attempt that begins with the station at rest is answered truthfully: it
\* stores, and tells the user, a success only if the form's network was joined.
FirstAnswerIsTrue == fresh /\ (call.ok \/ call.told) => reached

\* The page lists exactly the networks its scan has found.  When the number was
\* read between the flag and the list, the lines may be anything, or none; but
\* they are never as many as a scan before has found.
ScanAnswerIsTrue ==
  scan.at = "told" /\ scan.n >= 0 =>
    IF scan.early THEN Len(scan.told) \in {0, Len(found)} ELSE scan.told = found

\* A scan does not hold the portal for ever: it is answered, however long the
\* event loop sleeps before it comes to the end of it, or the device restarts.
ScanIsAnswered == scan.at = "flags" ~> scan.at = "told" \/ loop = "reboot"

\* A device in operation with an ssid never stays without its network: it joins
\* again and again, or restarts.
OperationRecovers ==
  [](mode = "OPERATION" /\ ssid => <>(link.state = "joined" \/ loop = "reboot"))

\* The page says CONNECT SUCCESSFULLY only for credentials that joined a
\* network after they were posted.
ConnectAnswerIsTrue == call.told => reached

=============================================================================
