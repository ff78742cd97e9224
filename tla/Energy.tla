------------------------------- MODULE Energy -------------------------------
(***************************************************************************)
(* The energy meter: the task that app_main starts for the Cse7761 chip,   *)
(* which sets the chip up in four steps of a second and then adds to       *)
(* mEnergy.total every 200 ms, and the polling tasks of module MqttClient, *)
(* which put the total into a report and clear it.  The report is written  *)
(* into one buffer of the connector and copied from there.  Nothing is     *)
(* locked.                                                                 *)
(*                                                                         *)
(* Energy is counted in parts of the unit that a report tells: the total   *)
(* is a float, and a report has whole units of it (%.0f).  A read of the   *)
(* chip may fail.                                                          *)
(***************************************************************************)
EXTENDS Integers

CONSTANTS
  Polls,       \* the polling tasks
  Parts,       \* the parts of a unit
  Amounts,     \* the parts that one addition may add
  MaxMeasured  \* bound: no addition begins once that many parts are measured

ASSUME EnergyAssumption ==
  /\ Parts \in Nat \ {0}
  /\ Amounts \subseteq Nat \ {0}
  /\ MaxMeasured \in Nat

VARIABLES
  mInstance, \* Cse7761::getInstance has assigned its pointer
  task,      \* where the measuring task is; "none" until it is created
  channel,   \* the channel it is at
  mBusy,     \* mBusy
  tick,      \* mUpdateCounter
  init,      \* mData.init
  ready,     \* mData.ready
  power_on,  \* mEnergy.power_on, which is never set: what the heap held
  total,     \* mEnergy.total
  acc,       \* what the measuring task has read of it
  pc,        \* where each polling task is
  snap,      \* the parts it has read, and then the units of the report it has copied
  text,      \* mJsonString of the connector: the units it tells
  measured,  \* history: parts measured since the start
  taken,     \* history: units told by the reports that cleared the total, until raced
  reports,   \* history: how many of them found something in the total
  raced      \* history: two tasks were at the total at once

chip == <<mBusy, tick, init, ready, power_on>>
polling == <<pc, snap, text, taken, reports>>
vars == <<mInstance, task, channel, chip, total, acc, polling, measured, raced>>

Channels == {0, 1}
InitSteps == 4
UpdatesPerSecond == 5

Init ==
  /\ mInstance = FALSE
  /\ task = "none" /\ channel = 0
  /\ mBusy = FALSE /\ tick = 0
  /\ init = InitSteps /\ ready = 0 /\ power_on = FALSE
  /\ total = 0 /\ acc = 0
  /\ pc = [p \in Polls |-> "idle"] /\ snap = [p \in Polls |-> 0]
  /\ text = 0
  /\ measured = 0 /\ taken = 0 /\ reports = 0 /\ raced = FALSE

-----------------------------------------------------------------------------
\* app_main: the constructor creates the task, and then the pointer to what
\* it made is assigned.

Construct ==
  /\ task = "none"
  /\ task' = "check"
  /\ power_on' \in BOOLEAN
  /\ UNCHANGED <<mInstance, channel, mBusy, tick, init, ready, total, acc, polling,
                 measured, raced>>

Assign ==
  /\ task # "none"
  /\ ~mInstance
  /\ mInstance' = TRUE
  /\ UNCHANGED <<task, channel, chip, total, acc, polling, measured, raced>>

-----------------------------------------------------------------------------
\* updateEnergyTask.

Reports == <<polling, raced>>

Enter ==
  /\ task = "check"
  /\ mInstance /\ ~mBusy
  /\ mBusy' = TRUE
  /\ task' = IF tick = 0 THEN "second" ELSE "data"
  /\ UNCHANGED <<mInstance, channel, tick, init, ready, power_on, total, acc,
                 measured, Reports>>

\* The task that finds no instance, or itself busy, restarts the device.
Reboot ==
  /\ task = "check"
  /\ ~(mInstance /\ ~mBusy)
  /\ mInstance' = FALSE
  /\ task' = "none" /\ channel' = 0
  /\ mBusy' = FALSE /\ tick' = 0
  /\ init' = InitSteps /\ ready' = 0 /\ power_on' = FALSE
  /\ total' = 0 /\ acc' = 0
  /\ pc' = [p \in Polls |-> "idle"] /\ snap' = [p \in Polls |-> 0]
  /\ text' = 0
  /\ measured' = 0 /\ taken' = 0 /\ reports' = 0 /\ raced' = FALSE

\* Mutant: the last step of the set-up is left out.
Cse7761EverySecond_NoClose ==
  /\ task = "second"
  /\ init' = IF init > 0 THEN init - 1 ELSE 0
  /\ ready' \in IF init = 2 THEN {0, 1} ELSE {ready}
  /\ task' = "data"
  /\ UNCHANGED <<mInstance, channel, mBusy, tick, power_on, total, acc, measured,
                 Reports>>

\* Mutant: the chip is looked for before it was reset.
Cse7761EverySecond_TooEarly ==
  /\ task = "second"
  /\ init' = IF init > 0 THEN init - 1 ELSE 0
  /\ ready' \in CASE init = 3                -> {0, 1}
                  [] init = 1 /\ ready = 1   -> {2}
                  [] OTHER                   -> {ready}
  /\ task' = "data"
  /\ UNCHANGED <<mInstance, channel, mBusy, tick, power_on, total, acc, measured,
                 Reports>>

\* The set-up, one step each second: the chip is reset, looked for once, and
\* made read-only.  A chip that did not answer is not asked again.
Cse7761EverySecond ==
  /\ task = "second"
  /\ init' = IF init > 0 THEN init - 1 ELSE 0
  /\ ready' \in CASE init = 2                -> {0, 1}
                  [] init = 1 /\ ready = 1   -> {2}
                  [] OTHER                   -> {ready}
  /\ task' = "data"
  /\ UNCHANGED <<mInstance, channel, mBusy, tick, power_on, total, acc, measured,
                 Reports>>

Measures == ready = 2 /\ power_on

\* The chip is read.  A channel without load adds nothing.
NoData ==
  /\ task = "data"
  /\ IF Measures /\ channel + 1 \in Channels
     THEN channel' = channel + 1 /\ UNCHANGED task
     ELSE channel' = 0 /\ task' = "count"
  /\ UNCHANGED <<mInstance, chip, total, acc, measured, Reports>>

\* mEnergy.total += active_power: a load and a store.
LoadTotal ==
  /\ task = "data"
  /\ Measures
  /\ measured < MaxMeasured
  /\ acc' = total
  /\ task' = "store"
  /\ UNCHANGED <<mInstance, channel, chip, total, measured, Reports>>

\* Between the reading of the total and its clearing.
InReport(p) == pc[p] \in {"write", "copy", "reset"}

StoreTotal ==
  /\ task = "store"
  /\ \E a \in Amounts : total' = acc + a /\ measured' = measured + a
  /\ acc' = 0
  /\ raced' = (raced \/ \E p \in Polls : InReport(p))
  /\ IF channel + 1 \in Channels
     THEN channel' = channel + 1 /\ task' = "data"
     ELSE channel' = 0 /\ task' = "count"
  /\ UNCHANGED <<mInstance, chip, polling>>

CountUpdate ==
  /\ task = "count"
  /\ tick' = (tick + 1) % UpdatesPerSecond
  /\ task' = "sleep"
  /\ UNCHANGED <<mInstance, channel, mBusy, init, ready, power_on, total, acc,
                 measured, Reports>>

\* Mutant: the task stays busy.
Slept_StaysBusy ==
  /\ task = "sleep"
  /\ task' = "check"
  /\ UNCHANGED <<mInstance, channel, chip, total, acc, measured, Reports>>

Slept ==
  /\ task = "sleep"
  /\ mBusy' = FALSE
  /\ task' = "check"
  /\ UNCHANGED <<mInstance, channel, tick, init, ready, power_on, total, acc,
                 measured, Reports>>

-----------------------------------------------------------------------------
\* The polling tasks, which run once the instance exists.

Meter == <<mInstance, task, channel, chip, acc, measured>>
Told == <<taken, reports>>

Goes(p, from, to) == pc[p] = from /\ pc' = [pc EXCEPT ![p] = to]

\* toJsonString of the connector: the total is read, and the report written.
ReadTotal(p) ==
  /\ mInstance
  /\ Goes(p, "idle", "write")
  /\ snap' = [snap EXCEPT ![p] = total]
  /\ raced' = (raced \/ \E q \in Polls : InReport(q))
  /\ UNCHANGED <<Meter, total, text, Told>>

\* %.0f: the nearest number of whole units, the even one of two.
Printed(t) ==
  LET u == t \div Parts
      r == t % Parts
  IN  IF 2 * r > Parts \/ (2 * r = Parts /\ u % 2 = 1) THEN u + 1 ELSE u

WriteReport(p) ==
  /\ Goes(p, "write", "copy")
  /\ text' = Printed(snap[p])
  /\ UNCHANGED <<Meter, total, snap, Told, raced>>

\* pollData copies whatever the buffer holds by now; while another task writes
\* it, that may be the digits of both.
CopyReport(p) ==
  /\ Goes(p, "copy", "reset")
  /\ snap' \in {[snap EXCEPT ![p] = u] :
                u \in {text} \cup {Printed(snap[q]) : q \in {r \in Polls : pc[r] = "write"}}}
  /\ UNCHANGED <<Meter, total, text, Told, raced>>

\* History: a report that nobody raced tells its units of what it clears.
Tell(p) ==
  /\ raced' = (raced \/ task = "store")
  /\ taken' = IF raced' THEN taken ELSE taken + snap[p]
  /\ reports' = IF raced' \/ total = 0 THEN reports ELSE reports + 1

\* Mutant: the total goes on from what was reported.
ResetTotal_Keeps(p) ==
  /\ Goes(p, "reset", "publish")
  /\ Tell(p)
  /\ UNCHANGED <<Meter, total, snap, text>>

\* The whole total goes, whatever of it the report tells.
ResetTotal(p) ==
  /\ Goes(p, "reset", "publish")
  /\ total' = 0
  /\ Tell(p)
  /\ UNCHANGED <<Meter, snap, text>>

\* esp_mqtt_client_publish: with the connection gone the report goes nowhere,
\* and nobody looks, so that nothing here depends on it.
Publish(p) ==
  /\ Goes(p, "publish", "idle")
  /\ snap' = [snap EXCEPT ![p] = 0]
  /\ UNCHANGED <<Meter, total, text, Told, raced>>

-----------------------------------------------------------------------------
MeterTask ==
  \/ Enter \/ Reboot \/ Cse7761EverySecond \/ NoData \/ LoadTotal \/ StoreTotal
  \/ CountUpdate \/ Slept

PollTask(p) ==
  ReadTotal(p) \/ WriteReport(p) \/ CopyReport(p) \/ ResetTotal(p) \/ Publish(p)

Next ==
  \/ Construct \/ Assign
  \/ MeterTask
  \/ \E p \in Polls : PollTask(p)

Spec == Init /\ [][Next]_vars

\* app_main and the measuring task are run.
FairSpec == Spec /\ WF_vars(Construct \/ Assign) /\ WF_vars(MeterTask)

-----------------------------------------------------------------------------
\* Every variable has its type, and no energy is added before the chip was
\* found.
TypeOK ==
  /\ mInstance \in BOOLEAN
  /\ task \in {"none", "check", "second", "data", "store", "count", "sleep"}
  /\ channel \in Channels
  /\ mBusy \in BOOLEAN
  /\ tick \in 0..UpdatesPerSecond - 1
  /\ init \in 0..InitSteps /\ ready \in 0..2
  /\ power_on \in BOOLEAN
  /\ total \in Nat /\ acc \in Nat
  /\ pc \in [Polls -> {"idle", "write", "copy", "reset", "publish"}]
  /\ snap \in [Polls -> Nat]
  /\ text \in Nat
  /\ measured \in Nat /\ taken \in Nat /\ reports \in Nat
  /\ raced \in BOOLEAN
  /\ measured > 0 => ready = 2
  /\ ready > 0 => init < 2

\* Both within half a unit for each of n reports.
Within(x, y, n) ==
  /\ 2 * (x - y) <= Parts * n
  /\ 2 * (y - x) <= Parts * n

\* All that was measured is in the total or in exactly one report, up to what
\* the rounding of each report (half a unit at most) drops or adds, unless the
\* measuring task stored between the reading and the clearing of the total,
\* the clearing fell into an addition, or a poll read the total, or used the
\* buffer of the reports, before another had cleared.
EnergyReportedOnce == ~raced => Within(measured, total + Parts * taken, reports)

\* The measuring task restarts the device only while app_main has not come to
\* assign the instance: never a device that is running.
NoRestartWhenRunning == [][mInstance => mInstance']_vars

\* The set-up of a chip that was found is brought to its end (it is made
\* read-only, and then read every 200 ms), or the device restarts.
MeterStarts == ready = 1 ~> (ready = 2 \/ task = "none")

=============================================================================
