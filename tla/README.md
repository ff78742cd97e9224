# A formal model of the SENSE SWITCH DUAL firmware

The firmware runs on an ESP32: a switch with two relays, two wall switches, a
CONFIG button and an energy meter, which is provisioned through a WiFi portal
of its own and then obeys an MQTT server. The modules here model the parts with
control logic of their own, and the one part of its libraries that the firmware
leans on with all its weight, the HTTP connection of Mongoose: TLC checks them
on small instances, and the TLA+ proof system proves every safety property that
a passing run checks, and both refinements, for every instance (section 6 says
under which assumptions).
Paths are relative to `src/`.

## 1. Inventory

The firmware is one program of some fifteen FreeRTOS tasks on two cores. Most
parts are singletons that are made by whoever asks first and are shared without
a lock; only the settings store and the UART have a mutex.

| Part (source) | State | Operations | Talks to |
|---|---|---|---|
| Settings store (`components/Config/config.cpp`) | NVS flash, `ConfigStruct` in RAM | `readCF`, `writeCF` (one committed write under a mutex), `restore` | everybody |
| System control (`Config/sys_ctrl.cpp`) | running mode, button counter | GPIO interrupt, `gotoConfigMode`, `toggleChannel`, `resetFactory`, `rebootSystem` | store, relays |
| Web portal (`WIFI/web_server.cpp`) | one mongoose task | `connect_wifi`, `setup_mqtt`, `factory_reset`, `reboot_device`, `scan_wifi`, `ota_update` | store, station, scan, OTA |
| WiFi station (`WIFI/wifi_manager.cpp`, `WIFI/wifi_sta.cpp`) | `connected`, `s_staTimeout` | `connectSTA`, the handlers of the event loop, SNTP | driver, portal, MQTT |
| Access point and scan (`WIFI/wifi_ap.cpp`, `WIFI/wifi_scan.cpp`) | `_scanStarted`, `_scanComplete`, the list | `scanNetworks`, `_scanDone` | portal, event loop |
| HTTP server (`Mongoose/mongoose.c`, `web_server.cpp:60` and `:430`) | receive and send buffer, multipart stream, flags of a connection | the poll loop, `mg_http_handler`, the events of an upload, `mg_get_http_var` | TCP, portal, OTA |
| Relays (`Connector/smart_switch_connector.cpp`) | relay pins, remembered states | `setControllerState`, `toggleChannel`, `toJsonString` | interrupt, MQTT |
| MQTT client (`MqttClient/mqtt_client_ex.cpp`) | `mClient`, `mClose`, `mUpdateCounter` | `start`, event handler, polling tasks | server, relays, meter |
| Energy meter (`Utility/cse7761.cpp`) | `mData`, `mEnergy` | a measuring task, every 200 ms | UART, polling tasks |
| UART exchange (`Utility/uart_ctrl.cpp`) | `mData`, `mLength`, `isWaitingData` | `sendData`, `rx_task` | meter, chip |
| OTA update (`OTA/ota_update.cpp`) | target partition, handle, address | begin, write, end | portal, flash |
| The rest | | captive DNS, LED, file storage, HTTP client, socket OTA | see section 7 |

What is hard here, and what makes each part right:

- **Multi-step writes and power cuts.** A handler saves two to seven settings
  in separate flash writes; the button task, a restart or the loss of power come
  between two of them. Right is: a device that will boot into OPERATION has a
  pair of credentials that joined a network.
- **Unlocked sharing.** The connector, the MQTT object, the energy total and
  the UART buffer are read and written by several tasks, on both cores. Right
  is: a relay ends where it was last told to go and is reported so; every unit
  of energy is reported once, up to the rounding; an answer is that of the request.
- **Stale flags.** `connected`, `mClose` and `mBusy` say what some task last
  heard. Right is: what is told to the user and to the server is true.
- **Retries without an end, and clients that multiply.** Every lost connection
  makes another MQTT client; every subscription another polling task. Right is:
  polling ends without a network, a sync comes in time, the station recovers.
- **Bytes in portions.** TCP may cut a request anywhere, and the connection may
  end anywhere. Right is: a form is read as it was typed or not at all, and the
  handler of an upload is told of its parts in order, each once, with an end;
  and no upload keeps the task of the web server in its parser.
- **Undefined behaviour.** `readCF` returns a pointer to a dead local, an
  interrupt passes a pointer into its own stack, `BIT(32)` is `1 << 32`. These
  are choices in the models (section 4).

`PROJECT.json` lists 40 places in the code under "hazards", each with the
properties that watch it or the reason why none does: nine have none.

## 2. Modules and the code

One action is what the code does between two points at which another task, an
interrupt, an event or a power cut can be seen. Names are the source's where
TLA+ allows; `PROJECT.json` "map" gives the lines of every definition.

- **`Provisioning`** - the store, the portal handlers that write it, the CONFIG
  button, restarts. `flash` is NVS and `cfg` the copy in RAM. A handler is the
  list of its stores (`ConnectStores`, `SetupStores`, `restore`) and `WebStore`
  makes the next one, which may fail (`NvsErrors`); `PowerCut` may come at any
  time. `gotoConfigMode` is a task of six steps, with the load and the store of
  the counter apart. `joined` and `damaged` are history.
- **`JoinTarget`** - what provisioning promises: an unprovisioned device adopts
  a pair that has joined in one indivisible step. `Provisioning` implements it
  with `target` mapped to the credentials in flash when `boot_mode` is
  OPERATION.
- **`Switches`** - the interrupt handler with its two status words, the toggle
  tasks it creates, the MQTT task that applies commands, the polling task that
  reports, and the connector they all make and share. Each access to the shared
  object (`ReadState`, `SetLevel`, `SetState`, `getInstance`, `Construct`,
  `Assign`) is a step. A task reads any digit from the interrupt's dead frame:
  what was sent, the other switch's, or none (`atoi`). `disturbed` has the
  channels that one of the named hazards has hit, until a command finds nobody at
  work on the channel and sets it again; the properties speak of the others.
- **`MqttClient`** - the esp-mqtt clients `start()` makes, the handler that runs
  in the task of each, and the polling tasks. Clients have one client id, so
  the server closes an older connection when a newer one comes
  (`Connected`). A poll compares `mUpdateCounter` and then increments, or clears
  it, in steps of its own (`Compare`, `Clear`, `Increment`, `Store`), as nothing
  locks the counter: two tasks carry it past its limit, up to the width of its
  type (`CounterRange`). `synced`, `polls` and `straddled` are history.
- **`Station`** - `connectSTA` in its caller's task against the event loop,
  which sleeps three seconds in one handler and up to eighteen in another, and
  a driver that posts events. The mongoose task also scans: `scanNetworks` waits
  for a flag that the event loop sets in `_scanDone` before it fetches the number
  and the list, each a step of its own (`scan`, `scanFlags`, `scanCount`,
  `scanList`, `done`). The records of the list are uninitialised: each holds any
  name until the driver fills it (`Garbage`). A device that boots into OPERATION
  without an ssid, after a reset that was cut off, does not call `connectSTA`,
  and does nothing until somebody holds its button (`ButtonHeld`).
- **`Energy`** - the measuring task from its creation inside a constructor to
  the additions, each a load and a store, against the polling tasks that take
  and clear the total, and that write the report into one shared text. The total
  has `Parts` parts to a unit, and a report prints it without them, as `%.0f`
  does (`Printed`: to the nearest, a half to the even one); `taken`, `reports` and
  `raced` are history.
- **`UartCtrl`** - the read of one register with its three tries, against
  `rx_task` and a chip that loses, delays and splits answers.
- **`OtaUpdate`** - uploads on connections of their own against the one target
  partition and handle they share, with the parts of a form before the file and
  the check of the magic byte in `esp_ota_write`.
- **`HttpConnection`** - one connection of the web server: `Poll` is the poll
  loop of Mongoose with the bytes that have come, `Parse` and `Multipart` are
  the steps of `mg_http_handler` and of `mg_http_multipart_continue`, the
  handlers of `web_server.cpp` read the form or take the upload. A byte the
  parser looks at is a token, so that a portion may end between any two. The head
  of a part is the line that names it, for a file the Content-Type line, and the
  empty line. The search for the empty line goes behind the end of the buffer
  where the buffer ends with a Content-Type line (`TypeLine`), and may find one
  there (`Past` of `EmptyLines`): such a part is `astray`. A whole upload ends in
  the state "restarted", with its answer unsent.
- **`UploadEvents`** - what Mongoose promises the handler of an upload:
  request, then for each part its beginning, its data and its end, then the end.
  `HttpConnection` implements it, and `OtaUpdate` takes the events in this order.
- **`MCProvisioning`**, **`MCSwitches`**, **`MCMqttClient`**, **`MCStation`**,
  **`MCOtaUpdate`**, **`MCHttpConnection`** - instances for TLC.
- **`ProvisioningProofs`**, **`SwitchesProofs`**, **`MqttClientProofs`**,
  **`StationProofs`**, **`EnergyProofs`**, **`UartCtrlProofs`**,
  **`OtaUpdateProofs`**, **`HttpConnectionProofs`** - theorems and proofs.

The modules meet at named points: `Provisioning!Joined` is the outcome of
`Station!ConnectWifi`; the flag of `Station` is `wifi` of `MqttClient`; the
commands of `MqttClient` are `Deliver` in `Switches`; its polls are `PollTask`
in `Energy`; the reads of `Energy` are those of `UartCtrl`; the events of
`HttpConnection`, which are those of `UploadEvents`, are the actions of
`OtaUpdate`, and the forms it reads are the `Forms` of `Provisioning` and
`Station`.

## 3. Runs

| Run | What it asks | Instance | States |
|---|---|---|---|
| `prov_credentials` | after any restart, power cut, failed write or garbled read, does OPERATION imply credentials that joined? | two networks, one button task, all pointer reads, failing writes | 1.07 M |
| `prov_answers` | without write errors: does the code implement `JoinTarget`, are the answers of the page true, does a held button restart, does every handler end? | one network, one broker, one button task | 0.55 M |
| `switches` | does a channel nothing disturbs, or that a command has put right since, end where it was told to, report it, and never flicker? is an edge answered by a task? | two toggle tasks, one poller, one command of three elements, any digit from the dead stack | 1.06 M |
| `mqtt` | open means connected; a sync first and in time; only clients that were made are published through; polling ends without WiFi | three clients, two polling tasks, a sync with every second report, a counter of 3 values | 0.69 M |
| `mqtt_interval` | *violated*: one report a minute | two clients, two polling tasks | - |
| `station` | the flag follows the link; the first answer is true; the page lists what the scan found; every scan is answered; operation with an ssid recovers | two networks, a device with or without an ssid, a wait of 3, a limit of 3, a queue of 4, lists of up to two | 579 k |
| `station_answer` | *violated*: the page says "CONNECT SUCCESSFULLY" only for what joined | two networks | - |
| `energy` | each unit is reported once, within half a unit for each report; no restart of a running device; a chip that was found is set up to the end | two polling tasks, units of 4 parts, amounts of 1 and 2 parts, up to 4 parts | 207 k |
| `uart` | one trouble never fails a read; no answer of an earlier round is taken; a read ends | two registers, three tries, three answers under way | 153 k |
| `ota` | what boots is whole and is the upload that ended; what was refused before stands in no upload's way | two uploads of two parts | 2.73 M |
| `upload` | but for a part begun too early: are the events of an upload those of `UploadEvents`, does the parser stay in the buffer, and end? is a form read as typed? is what came whole answered, and once, or the device restarted? | one connection; uploads of one and two parts, with and without a Content-Type line, whose data begin like a boundary, forms with escapes, a head over the limit, a refused upload, a request without a handler | 28 k |
| `upload_end` | *violated*: a connection that was terminated in an upload delivers its end | the same | - |

Every property of a passing run has a mutant, a plausible bug of the mapped
code (definitions named `X_...` before `X`), with which the run finds it
violated.

Why the bounds are enough: a race needs two of a kind (two toggle tasks, two
polling tasks, two uploads, two networks), and three MQTT clients let one be
published through, one be lost and one be made at the same time. Counters
(`CounterLimit`, `Seconds`, `STA_CONNECT_TIMEOUT`, `SendCountdown`,
`RxCountdown`) only need to reach their end and to be seen before it: 1 to 3 in
place of 10 to 10800. `CounterRange` leaves the counter room past its limit.
With `Parts` = 4 and `Amounts` of 1 and 2, a total is rounded up, down, to the
even unit and not at all. `MaxQueue`, `MaxMeasured` and `MaxPending` cut what is
unbounded: a full queue of the event loop makes the driver wait, and a chip
that has `MaxPending` answers under way loses the next request, which counts as
a trouble. `MG_MAX_HTTP_REQUEST_SIZE` is 3 for heads of 2 and 4 tokens, and
`FieldSize` is 3 (two characters and the NUL) for values of up to 3 characters:
both sides of each limit. One connection is enough for `HttpConnection`, as
connections share nothing there; what they share is in `OtaUpdate`.

The `switches` run cuts off (CONSTRAINT `Crowd`) what more than three edges and
tasks at once make, what more than two tasks make while a channel is disturbed,
and more than one edge or task while both are: two are enough to disturb a
channel and the other one, and one to put a channel right. Its one command has an element for a relay the board lacks before the
elements for its two relays, so that it is applied in pieces. Toggle tasks are
symmetric there and uploads in `ota`; no liveness property is checked with
symmetry. In `mqtt`, where there is one, the clients are made in a fixed order and
a polling task takes the first free place (`ClientsInOrder`, `PollsInOrder`): each
behaviour that is left out differs in names only from one that is not. The runs
of `HttpConnection` go without the deadlock check, as a connection ends.

What the three violated runs show is under "findings" in `PROJECT.json`, with
the sentence of the code or of the page it contradicts.

## 4. Choices the models make

- *Dangling reads.* `boot_mode` and `mqtt_port` are read through a pointer to a
  local of a function that has returned: the value stored, NULL or garbage
  (`PointerReads`). What is garbled is the copy in RAM; no property is about it.
- *The interrupt's stack.* A toggle task reads its channel from a buffer in the
  frame of an interrupt that may have returned, and that shares its place with
  the buffer for the other switch: any channel or none (`atoi`).
- *New records of a scan* are what the heap held: any names, those of the scan
  before among them (`Garbage`).
- *Behind the end of the buffer* (`HttpConnection`) are bytes of what was removed
  before, or of the heap: whether an empty line is found there is open.
- *The printed total.* The float is taken for exact; `%.0f` rounds it to the
  nearest unit, a half to the even one.
- *`BIT(32)`.* The shift of the Xtensa takes the amount modulo 32, so the masks
  of GPIO 32 and 33 are those of bits 0 and 1.
- *`mEnergy.power_on`* is never set: it is what the heap held.
- *`esp_wifi_connect` when the station is busy* is ignored or is an error, under
  `ESP_ERROR_CHECK` (`BusyConnect`).
- *Flash for updates* (external, from the calls in `ota_update.cpp`):
  `esp_ota_begin` refuses the running partition and erases the target,
  `esp_ota_write` refuses a first byte that is not that of an image,
  `esp_ota_end` frees the handle and verifies, `esp_ota_set_boot_partition`
  verifies; Mongoose ends a multipart request also when its connection closes.
- *The scan.* It takes longer than the two assignments that follow its start,
  and the page asks for the next one later than the few lines of `_scanDone`
  take; the hazard that names the first of these says what happens otherwise.
  The event SCAN_DONE has a place of its own in the queue. A scan that fails
  makes a text of 65408 bytes on the stack of the mongoose task: the device goes
  on or restarts. `new` has the memory or aborts.
- *Bytes of a request* (`HttpConnection`). The head is a few tokens, of which
  the last is the empty line; the boundary has two bytes; the line that names a
  part is one token, and so is a Content-Type line. The limit of the size of a
  head is checked only while the head is not complete: a long head that comes in
  one portion is accepted, in two it is refused. An upload that was refused when it began is answered again
  when it ends, if its bytes come before the connection is closed. A form that
  is cut off is handled when the connection closes, with what there is of it,
  and a value cut in an escape leaves its variable without a NUL. What is sent
  to `/ota_update` in no parts is never answered. A successful upload restarts
  the device in its handler, before the poll loop sends what is to be answered.
  A length below zero is counted as data that is not of the message ("memory").
- *Names of networks* are model values: that `handleConnectWifi` reads them into
  a variable of 32 bytes, which cuts one of 32 characters (`web_server.cpp:70`),
  is the `FieldSize` of `HttpConnection`.
- *CONFIG and a wall switch in one interrupt*: by the shift above the mask of one
  of the switches is that of CONFIG, and its edge is cleared without a task when
  both are pressed; `SwitchEdgeServed` speaks of the other edges.
- *A restart* (`Station`) brings up either mode, with or without an ssid: which of
  them are in flash is the matter of `Provisioning`.
- *Waiting.* One second in `connectSTA` (`Station!WaitSecond`) passes only when
  an event loop that is awake has emptied its queue, and half a second in
  `sendData` (`UartCtrl!WaitHalfSecond`) only when `rx_task` has taken what the
  UART had. A task that sleeps in a handler delays events for as long as it
  sleeps. Everything else is untimed: a sleeping task may wake at any time.
- *Troubles* (`UartCtrl`). No single read can be promised to succeed against a
  chip that may lose everything, so the module counts what has gone wrong in a
  read: answers lost, late, left over, joined, split, cleared or half copied.

## 5. Fairness

Specifications called `FairSpec` ask only that ready tasks are run: FreeRTOS
schedules every ready task and none of those modelled spins (each polls with a
delay). In `Provisioning`: boot, the restart task, the mongoose task, the button
tasks; never the user, the power or a failing write. In `MqttClient`: handlers
and polling tasks; never the network or the server. In `Station`: the caller,
the event loop, the restart, and that an attempt or a scan of the driver ends
one way or the other, and that `app_main` of a device with an ssid calls
`connectSTA`; never that an attempt succeeds, nor that somebody holds the button.
In `Energy`: `app_main` and the measuring
task. In `UartCtrl`: the two tasks; never the chip. In `HttpConnection`: the
mongoose task, which closes, parses and sends; never the client, which may send
nothing more or leave. All of it is weak fairness.

## 6. What is proved

For every value of the constants that satisfies the named assumption of the
module; what a theorem assumes beyond that is in its ASSUME. Each is by an
inductive invariant that TLC has also checked on the instance of the run.

- **`ProvisioningProofs`**: `TypeInvariant`, `Credentials`, `AtomicProvisioning`,
  `Refinement`, `SetupAnswer`, `ResetAnswer`. `OperationHasCredentials` is not
  inductive: the last store of `connect_wifi` makes it true only because the two
  before it are in flash and belong to a pair that joined. `IInv` adds
  `ConnectInProgress` (what the handler at each place has joined and stored) and
  `FailuresAreErrors` (a failed write is only there where writes can fail).
  `WebStoreEffect` says once what a store does, and each action has its step.
  The refinement (under `~NvsErrors`) maps each step to a step of `JoinTarget` or
  to a stutter from the same `IInv`. The two answers (also under `~NvsErrors`)
  need `StoredSoFar`: the stores a setup or a reset has made up to its place in
  the list are in flash, whatever the button tasks write beside it.
- **`SwitchesProofs`**: `TypeInvariant`, `ChannelFollows`, `Flicker`,
  `EdgeServed`. For
  `SwitchFollows` the invariant says of a channel that is not disturbed that at
  most one piece of work is at it (`Alone`), that the task at work leads it
  towards what was last wanted (`Towards`: a pending toggle wants the opposite of
  the relay, an element of a command its own state), and that there is one
  connector once a task is past `getInstance` (`OneConnector`). A command that
  finds nobody at work on a channel establishes all three anew, whatever was there
  before. `Flicker` assumes
  that a command names a channel once (`OnceEach`): one that names it twice does
  move the relay twice. `EdgeServed` is about one step, the interrupt, in any
  state of the right types; it assumes two toggle tasks, one for each switch, as
  with fewer the heap has no room for both.
- **`MqttClientProofs`**: `TypeInvariant`, `OpenConnection`, `Synced`.
  `OpenIsConnected` is inductive with the types, which have the counter anywhere
  in the width of its type. `ServerIsSynced` needs `SyncInv`, by which at most one
  task is inside a poll while `~straddled`, so that what it has compared is the
  counter, no report was made before a sync, and reports and the counter agree
  while the published client is up.
- **`StationProofs`**: `TypeInvariant`, `FlagTheorem`, `FirstAnswer`,
  `ScanAnswer`. `LinkInv`: the last event of the link in the queue of the event
  loop, or the flag when there is none, is what the link is. `FreshInv`: an attempt
  that began at rest finds no event of an earlier one, so that GOT_IP is of its
  own form. `ScanInv`: where the mongoose task and `_scanDone` are determines
  whether the number and the list are empty, half made (as many records as the
  scan found, with names that say nothing) or those of this scan.
- **`EnergyProofs`**: `TypeInvariant`, `RunningMeterStays`, `ReportedOnce`.
  `BusyInv` ties `mBusy` to the place of the measuring task. `ReportInv`: as long
  as no two tasks were at the total at once, what the measuring task has loaded
  is the total, and what the one poll that is in a report has read, written and
  copied is the total it is about to clear, or its rounding (`Rounding`: half a
  unit away at most), so that each report adds at most half a unit to the
  difference.
- **`UartCtrlProofs`**: `TypeInvariant`, `FreshAnswer`, `OneTrouble`.
  `FreshInv`: what was asked in earlier reads is of another register, if the read
  before was answered, and lies in front of what is new, from the line to
  `mData`. `SurviveInv` (for three tries or more): without trouble the answer to
  the first try is alone under way; after one trouble, of the answers under way
  at most two are no good at the first try, one at the second, none at the third,
  all of them in front; and only the first try can end without any answer.
- **`OtaUpdateProofs`**: `TypeInvariant`, `OwnImage`, `WholeUpload`.
  `AloneInv`: while an upload that is alone has an open handle, the target holds
  nothing but its own parts and junk, and no more pieces than have arrived.
  `SentInv`: no more arrives than it has. A whole image made of such pieces is its
  own. `WrittenInv`: while an upload of an image is alone and the flash has not
  failed it, its handle is open and the target holds what has come of the image, in order; this is what an
  earlier upload could spoil.
- **`HttpConnectionProofs`**: `TypeInvariant`, `RequestAnsweredOnce`, `FormWhole`,
  `FieldsRead`, `ParserAdvancing`, `EventsImplemented`, for requests of any
  length, any data that does not hold the boundary, values of any characters, and
  any portions: the assumption of the module says what a browser sends and no more.
  A connection is in one of five phases: `Gathers` (head and body come, and the
  buffer holds all of it), `Handled` (the buffer is empty), `InParts` (the
  multipart stream), `Lost`, or closed. In `InParts` the invariant is `Place`: by
  the state of the parser, the buffer begins where the data not yet told begins,
  or just before the next boundary, and what was told is the data before it.
  Of a part begun too early (`astray`) `Place` says only that the buffer begins at
  its boundary, or just before: that boundary is found again and again
  (`AstrayChunkStep`) until the head has come and the part is begun anew, and then
  all of `Place` holds again. Neither of the two theorems says anything of the
  steps between.
  `LaidOut` says where the parts lie in the request; the first boundary in the
  buffer is then that of the part in hand (`NextBoundary`), which needs that none
  is in the data nor across its ends (`Unbroken`). Each step of the parser is
  then a step of `UploadEvents` or a stutter.
  `ParserAdvancing` rests on the same place: the data begins where `Place` has it,
  so that at least the four bytes that are no data lie before the next boundary
  (`ChunkAhead`). It counts what is left to do (`Work`: twice the bytes in the
  buffer, one for a boundary to look for, one for a part to end), which each turn
  of the loop makes smaller (`MultipartAdvances`); as it is a natural number, the
  loop ends.
  `FieldsRead` is a proof about the decoder: a value is written with escapes one
  after another (`EscapesAt`), a turn of the loop at the beginning of one takes
  it whole or fails in it (`DecodeChar`), so that what is decoded is a beginning
  of the value (`DecodedIs`); and it is found where its field is (`FieldAt`), as
  names and separators stand nowhere else in a form (`FormTokens`).
  Where an argument goes along a sequence, it takes the least number for which
  its claim fails (`Least`, `Induct`) in place of an induction theorem, and the
  recursions of `FlattenSeq` and of the decoder are shown to have a solution
  (`FlattenRecursion`, `DecodeRecursion`).

Only model-checked: all liveness (`HeldButtonRestarts`, `HandlerEnds`,
`PollingEnds`, `OperationRecovers`, `ScanIsAnswered`, `MeterStarts`, `ReadEnds`,
`WholeIsAnswered`), as fairness and ENABLED are out of the prover's reach; and the
three violations, which are counterexamples. `mg_url_decode` is a recursive
function and not a RECURSIVE operator, so that it can be proved about.

## 7. What is not modelled

- Captive DNS answers each datagram by itself and keeps nothing.
- `http_request` is used only by `checkInternet`, which nobody calls.
- `socket_ota_update` is never initialised, and so never serves
  `tools/update_firmware.py`.
- `file_storage`: only `init` and `factoryReset` are called and nothing writes a
  file, so that there is nothing to be removed.
- The LED and its signal are output only.
- The arithmetic of the measured values (voltage, current, power), the text of
  reports and pages with `uint642Char`, and the device page itself, whose
  requests are the inputs.
- In `Provisioning` the relay states of `ConfigStruct`, which are in `Switches`.
- In `MqttClient` the joining of the fragments of a message (`setData`): the
  library hands out the fragments of a connection in order, so that only two
  clients in the middle of a message at once could mix theirs.
- Answers where a write failed: `setup_mqtt` answers with the outcome of its last
  write only, `factory_reset` with none of them, so that both tell success of
  what is half stored. `SetupAnswerIsTrue` and `ResetAnswerIsTrue` are checked and
  proved where no write fails; with `NvsErrors` = TRUE TLC finds both violated.
- That a report is lost when its publish fails: the total was cleared before, and
  nobody looks.
- A warning before the restart after an update: `web_server.cpp:460` restarts in
  the handler, so that the answer the page waits for is never sent.
- The access point: `wifi_ap.init` hands a fixed configuration to the driver
  once.
- Vendored code: ArduinoJson (its values are inputs), jQuery, Materialize, and
  all of Mongoose but the path of a plain HTTP request: DNS, MQTT, WebSocket,
  CoAP, SSL, CGI, chunked bodies and its file system, which the firmware does
  not use. These libraries are about two thirds of the lines of the repository,
  and the page and its data most of what then remains.

## 8. Plan

Done, in this order: `Provisioning` with `JoinTarget`, `Switches`, `MqttClient`,
`Station`, `Energy`, `OtaUpdate`, `UartCtrl`; then the scan in `Station`, the
text of the report in `Energy`, the parts and the magic byte in `OtaUpdate`,
`HttpConnection` with `UploadEvents`; and the proofs of section 6.

What is left, in the order of its use:

1. `HttpConnection` composed with `OtaUpdate`: two connections whose events are
   interleaved as the poll loop does it, in place of any order, and with the
   parts that are begun too early, whose events `OtaUpdate` does not have.
2. `Energy` composed with `MqttClient`: which publishes fail, in place of any.
3. `setData`, with fragments of two clients in one buffer.
