---------------------------- MODULE EnergyProofs ----------------------------
(***************************************************************************)
(* Theorems of Energy for any number of polling tasks, any amount of       *)
(* energy and any fractions of a unit: its types, that all that is         *)
(* measured is reported once up to the rounding of each report, and that a *)
(* running meter never restarts the device.                                *)
(***************************************************************************)
EXTENDS Energy, TLAPS

\* mBusy is set exactly between the entry of the measuring task and its sleep,
\* and the task is created before the instance is assigned.
BusyInv ==
  /\ mBusy <=> task \in {"second", "data", "store", "count", "sleep"}
  /\ mInstance => task # "none"
  /\ mBusy => mInstance
  /\ task = "store" => ready = 2

\* While no two tasks are at the total: what the measuring task has read of it
\* is the total, one poll at most is between reading and clearing it, and what
\* that poll has read is the total, and has written and copied is its rounding.
Unraced ==
  /\ Within(measured, total + Parts * taken, reports)
  /\ task = "store" => acc = total
  /\ \A p, q \in Polls : InReport(p) /\ InReport(q) => p = q
  /\ \A p \in Polls : pc[p] \in {"write", "copy"} => snap[p] = total
  /\ \A p \in Polls : pc[p] = "copy" => text = Printed(total)
  /\ \A p \in Polls : pc[p] = "reset" => snap[p] = Printed(total)

ReportInv == ~raced => Unraced

-----------------------------------------------------------------------------
\* A printed total is whole units, and half a unit at most away from the total.
LEMMA Rounding ==
  ASSUME NEW t \in Nat
  PROVE  /\ Printed(t) \in Nat
         /\ 2 * (t - Parts * Printed(t)) <= Parts
         /\ 2 * (Parts * Printed(t) - t) <= Parts
         /\ t = 0 => Printed(t) = 0
<1> USE EnergyAssumption
<1> DEFINE u == t \div Parts
           r == t % Parts
<1>1. u \in Nat /\ r \in 0..Parts-1 /\ t = Parts * u + r
  OBVIOUS
<1>2. Printed(t) = IF 2 * r > Parts \/ (2 * r = Parts /\ u % 2 = 1) THEN u + 1 ELSE u
  BY DEF Printed
<1>3. t = 0 => u = 0 /\ r = 0
  OBVIOUS
<1> HIDE DEF u, r
<1>4. Parts * (u + 1) = Parts * u + Parts
  BY <1>1
<1>5. PICK pu \in Nat : pu = Parts * u
  BY <1>1
<1>6. CASE 2 * r > Parts \/ (2 * r = Parts /\ u % 2 = 1)
  <2>1. Printed(t) = u + 1 /\ Parts * Printed(t) = pu + Parts /\ 2 * r >= Parts
    BY <1>6, <1>2, <1>4, <1>5, <1>1
  <2> QED
    BY <2>1, <1>1, <1>3, <1>5
<1>7. CASE ~(2 * r > Parts \/ (2 * r = Parts /\ u % 2 = 1))
  <2>1. Printed(t) = u /\ Parts * Printed(t) = pu
    BY <1>7, <1>2, <1>5
  <2>2. 2 * r <= Parts
    BY <1>7, <1>1
  <2> QED
    BY <2>1, <2>2, <1>1, <1>3, <1>5
<1> QED
  BY <1>6, <1>7

-----------------------------------------------------------------------------
\* Every reachable state of the meter has its types, and energy is counted only
\* by a chip that was found.
THEOREM TypeInvariant == Spec => [](TypeOK /\ BusyInv)
<1> USE EnergyAssumption DEF Channels, InitSteps, UpdatesPerSecond
<1>1. Init => TypeOK /\ BusyInv
  <2> SUFFICES ASSUME Init PROVE TypeOK /\ BusyInv
    OBVIOUS
  <2>1. mInstance \in BOOLEAN /\ mBusy \in BOOLEAN /\ power_on \in BOOLEAN /\ raced \in BOOLEAN
    BY Zenon DEF Init
  <2>2. TypeOK
    BY <2>1 DEF Init, TypeOK
  <2>3. BusyInv
    BY DEF Init, BusyInv
  <2> QED
    BY <2>2, <2>3
<1>2. TypeOK /\ BusyInv /\ [Next]_vars => (TypeOK /\ BusyInv)'
  <2> SUFFICES ASSUME TypeOK, BusyInv, [Next]_vars
               PROVE  TypeOK' /\ BusyInv'
    OBVIOUS
  <2> USE DEF TypeOK, BusyInv, chip, polling, Reports
  <2>1. CASE Construct
    BY <2>1 DEF Construct
  <2>2. CASE Assign
    BY <2>2 DEF Assign
  <2>3. CASE MeterTask
    <3>1. CASE Enter
      BY <3>1 DEF Enter
    <3>2. CASE Reboot
      <4>1. mInstance' = FALSE /\ mBusy' = FALSE /\ power_on' = FALSE /\ raced' = FALSE
        BY <3>2 DEF Reboot
      <4>2. /\ task' = "none" /\ channel' = 0 /\ tick' = 0 /\ init' = 4 /\ ready' = 0
            /\ total' = 0 /\ acc' = 0 /\ text' = 0 /\ measured' = 0 /\ taken' = 0
            /\ reports' = 0
        BY <3>2 DEF Reboot
      <4>3. /\ pc' \in [Polls -> {"idle", "write", "copy", "reset", "publish"}]
            /\ snap' \in [Polls -> Nat]
        BY <3>2 DEF Reboot
      <4>4. /\ mInstance' \in BOOLEAN /\ mBusy' \in BOOLEAN
            /\ power_on' \in BOOLEAN /\ raced' \in BOOLEAN
        BY <4>1, Zenon
      <4>5. TypeOK'
        BY <4>2, <4>3, <4>4
      <4> QED
        BY <4>1, <4>2, <4>5
    <3>3. CASE Cse7761EverySecond
      BY <3>3 DEF Cse7761EverySecond
    <3>4. CASE NoData
      BY <3>4 DEF NoData, Measures
    <3>5. CASE LoadTotal
      BY <3>5 DEF LoadTotal, Measures
    <3>6. CASE StoreTotal
      <4>1. raced' \in BOOLEAN
        BY <3>6, Zenon DEF StoreTotal
      <4> QED
        BY <3>6, <4>1 DEF StoreTotal
    <3>7. CASE CountUpdate
      BY <3>7 DEF CountUpdate
    <3>8. CASE Slept
      BY <3>8 DEF Slept
    <3> QED
      BY <2>3, <3>1, <3>2, <3>3, <3>4, <3>5, <3>6, <3>7, <3>8 DEF MeterTask
  <2>4. ASSUME NEW p \in Polls, PollTask(p)
        PROVE  TypeOK' /\ BusyInv'
    <3> USE DEF Goes, Meter, Told
    <3>1. CASE ReadTotal(p)
      <4>1. raced' \in BOOLEAN
        BY <3>1, Zenon DEF ReadTotal
      <4> QED
        BY <3>1, <4>1 DEF ReadTotal
    <3>2. CASE WriteReport(p)
      <4>1. Printed(snap[p]) \in Nat
        BY Rounding
      <4> QED
        BY <3>2, <4>1 DEF WriteReport
    <3>3. CASE CopyReport(p)
      <4>1. \A q \in Polls : Printed(snap[q]) \in Nat
        BY Rounding
      <4>2. snap' \in [Polls -> Nat]
        BY <3>3, <4>1 DEF CopyReport
      <4> QED
        BY <3>3, <4>2 DEF CopyReport
    <3>4. CASE ResetTotal(p)
      <4>1. raced' \in BOOLEAN
        BY <3>4, Zenon DEF ResetTotal, Tell
      <4>2. taken' \in Nat /\ reports' \in Nat
        BY <3>4 DEF ResetTotal, Tell
      <4> QED
        BY <3>4, <4>1, <4>2 DEF ResetTotal
    <3>5. CASE Publish(p)
      BY <3>5 DEF Publish
    <3> QED
      BY <2>4, <3>1, <3>2, <3>3, <3>4, <3>5 DEF PollTask
  <2>5. CASE UNCHANGED vars
    BY <2>5 DEF vars
  <2> QED
    BY <2>1, <2>2, <2>3, <2>4, <2>5 DEF Next
<1> QED
  BY <1>1, <1>2, PTL DEF Spec

\* The measuring task restarts the device only before app_main has assigned the
\* instance.
THEOREM RunningMeterStays == Spec => NoRestartWhenRunning
<1>1. TypeOK /\ BusyInv /\ [Next]_vars => [mInstance => mInstance']_vars
  <2> SUFFICES ASSUME TypeOK, BusyInv, Next, mInstance
               PROVE  mInstance'
    BY DEF vars
  <2>1. CASE Construct
    BY <2>1 DEF Construct
  <2>2. CASE Assign
    BY <2>2 DEF Assign
  <2>3. CASE MeterTask
    <3>1. ~Reboot
      BY DEF Reboot, BusyInv
    <3> QED
      BY <2>3, <3>1 DEF MeterTask, Enter, Cse7761EverySecond, NoData, LoadTotal, StoreTotal,
                        CountUpdate, Slept
  <2>4. ASSUME NEW p \in Polls, PollTask(p)
        PROVE  mInstance'
    BY <2>4 DEF PollTask, ReadTotal, WriteReport, CopyReport, ResetTotal, Publish, Meter
  <2> QED
    BY <2>1, <2>2, <2>3, <2>4 DEF Next
<1> QED
  BY <1>1, TypeInvariant, PTL DEF Spec, NoRestartWhenRunning

-----------------------------------------------------------------------------
\* A step of the measuring task that leaves the total and the polls alone keeps
\* what holds of them.
LEMMA TotalKept ==
  ASSUME ReportInv, UNCHANGED <<total, measured, polling, raced>>,
         task' = "store" => (task = "store" /\ acc' = acc)
  PROVE  ReportInv'
<1> USE DEF polling
<1>1. SUFFICES ASSUME ~raced PROVE Unraced'
  BY DEF ReportInv
<1>2. \A p \in Polls : InReport(p)' <=> InReport(p)
  BY DEF InReport
<1> QED
  BY <1>1, <1>2 DEF ReportInv, Unraced

\* All the energy is in the total or in one report, up to half a unit for each
\* report, while no two tasks were at the total at once.
THEOREM ReportedOnce == Spec => []EnergyReportedOnce
<1> USE EnergyAssumption
<1>1. Init => ReportInv
  BY DEF Init, ReportInv, Unraced, InReport, Within
<1>2. TypeOK /\ BusyInv /\ ReportInv /\ [Next]_vars => ReportInv'
  <2> SUFFICES ASSUME TypeOK, BusyInv, ReportInv, [Next]_vars
               PROVE  ReportInv'
    OBVIOUS
  <2>1. CASE Construct
    BY <2>1, TotalKept DEF Construct, polling
  <2>2. CASE Assign
    BY <2>2, TotalKept DEF Assign, polling
  <2>3. CASE MeterTask
    <3> USE DEF Reports
    <3>1. CASE Enter
      BY <3>1, TotalKept DEF Enter
    <3>2. CASE Reboot
      BY <3>2 DEF Reboot, ReportInv, Unraced, InReport, Within
    <3>3. CASE Cse7761EverySecond
      BY <3>3, TotalKept DEF Cse7761EverySecond
    <3>4. CASE NoData
      BY <3>4, TotalKept DEF NoData
    <3>5. CASE LoadTotal
      <4>1. \A p \in Polls : InReport(p)' <=> InReport(p)
        BY <3>5 DEF LoadTotal, InReport, polling
      <4> QED
        BY <3>5, <4>1 DEF LoadTotal, ReportInv, Unraced, polling
    <3>6. CASE StoreTotal
      <4>1. SUFFICES ASSUME ~raced' PROVE Unraced'
        BY DEF ReportInv
      <4>2. ~raced /\ \A p \in Polls : ~InReport(p)
        BY <3>6, <4>1 DEF StoreTotal
      <4>3. \A p \in Polls : ~InReport(p)' /\ pc'[p] \notin {"write", "copy", "reset"}
        BY <3>6, <4>2 DEF StoreTotal, InReport, polling
      <4>4. Within(measured, total + Parts * taken, reports)' /\ task' # "store"
        <5>1. Within(measured, total + Parts * taken, reports) /\ acc = total
          BY <3>6, <4>2 DEF StoreTotal, ReportInv, Unraced
        <5>2. PICK a \in Amounts : total' = acc + a /\ measured' = measured + a
          BY <3>6 DEF StoreTotal
        <5>3. taken' = taken /\ reports' = reports /\ task' # "store"
          BY <3>6 DEF StoreTotal, polling
        <5>4. PICK t \in Int, n \in Int : t = Parts * taken /\ n = Parts * reports
          BY DEF TypeOK
        <5> QED
          BY <5>1, <5>2, <5>3, <5>4 DEF TypeOK, Within
      <4> QED
        BY <4>3, <4>4 DEF Unraced
    <3>7. CASE CountUpdate
      BY <3>7, TotalKept DEF CountUpdate
    <3>8. CASE Slept
      BY <3>8, TotalKept DEF Slept
    <3> QED
      BY <2>3, <3>1, <3>2, <3>3, <3>4, <3>5, <3>6, <3>7, <3>8 DEF MeterTask
  <2>4. ASSUME NEW p \in Polls, PollTask(p), ~raced'
        PROVE  Unraced'
    <3> USE DEF Goes, Meter, Told
    <3>1. ~raced
      BY <2>4 DEF PollTask, ReadTotal, WriteReport, CopyReport, ResetTotal, Tell, Publish
    <3>2. Unraced
      BY <3>1 DEF ReportInv
    <3>3. /\ pc \in [Polls -> {"idle", "write", "copy", "reset", "publish"}]
          /\ snap \in [Polls -> Nat]
          /\ total \in Nat /\ taken \in Nat /\ measured \in Nat /\ reports \in Nat
      BY DEF TypeOK
    <3>4. \A q \in Polls : q # p => (InReport(q)' <=> InReport(q))
      BY <2>4, <3>3 DEF PollTask, ReadTotal, WriteReport, CopyReport, ResetTotal, Publish, InReport
    <3>5. CASE ReadTotal(p)
      <4>1. \A q \in Polls : ~InReport(q)
        BY <3>5, <2>4 DEF ReadTotal
      <4>2. \A q \in Polls : InReport(q)' => q = p
        BY <3>4, <4>1
      <4>3. snap'[p] = total' /\ \A q \in Polls : pc'[q] \notin {"copy", "reset"}
        BY <3>5, <3>3, <4>1 DEF ReadTotal, InReport
      <4>4. \A q \in Polls : pc'[q] = "write" => q = p
        BY <4>2 DEF InReport
      <4> QED
        BY <3>5, <3>2, <4>2, <4>3, <4>4 DEF ReadTotal, Unraced
    <3>6. CASE WriteReport(p)
      <4>1. InReport(p) /\ snap[p] = total
        BY <3>6, <3>2 DEF WriteReport, InReport, Unraced
      <4>2. \A q \in Polls : InReport(q)' => InReport(q)
        BY <3>4, <4>1
      <4>3. text' = Printed(total)
        BY <3>6, <4>1 DEF WriteReport
      <4>4. \A q \in Polls : q # p => ~InReport(q)'
        BY <4>1, <4>2, <3>2 DEF Unraced
      <4>5. pc'[p] = "copy" /\ snap' = snap /\ total' = total /\ UNCHANGED <<task, acc>>
        BY <3>6, <3>3 DEF WriteReport
      <4>6. Within(measured, total + Parts * taken, reports)'
        BY <3>6, <3>2 DEF WriteReport, Unraced
      <4>7. \A q \in Polls : q # p => pc'[q] \notin {"write", "copy", "reset"}
        BY <4>4 DEF InReport
      <4>8. /\ \A q \in Polls : pc'[q] \in {"write", "copy"} => snap'[q] = total'
            /\ \A q \in Polls : pc'[q] # "reset"
        BY <4>1, <4>5, <4>7
      <4>9. \A q, r \in Polls : InReport(q)' /\ InReport(r)' => q = r
        BY <4>2, <3>2, Zenon DEF Unraced
      <4>10. task' = "store" => acc' = total'
        BY <4>5, <3>2 DEF Unraced
      <4>11. text' = Printed(total')
        BY <4>3, <4>5, Zenon
      <4> QED
        BY <4>6, <4>8, <4>9, <4>10, <4>11, Zenon DEF Unraced
    <3>7. CASE CopyReport(p)
      <4>1. InReport(p) /\ text = Printed(total)
        BY <3>7, <3>2 DEF CopyReport, InReport, Unraced
      <4>2. \A q \in Polls : InReport(q) => q = p
        BY <4>1, <3>2 DEF Unraced
      <4>3. \A q \in Polls : pc[q] # "write"
        BY <4>2, <3>7 DEF CopyReport, InReport
      <4>4. snap'[p] = Printed(total)
        BY <3>7, <4>1, <4>3, <3>3 DEF CopyReport
      <4>5. \A q \in Polls : InReport(q)' => q = p
        BY <3>4, <4>2
      <4>6. \A q \in Polls : pc'[q] \notin {"write", "copy"}
        BY <3>7, <3>3, <4>5 DEF CopyReport, InReport
      <4>7. \A q \in Polls : pc'[q] = "reset" => q = p
        BY <4>5 DEF InReport
      <4> QED
        BY <3>7, <3>2, <4>4, <4>5, <4>6, <4>7 DEF CopyReport, Unraced
    <3>8. CASE ResetTotal(p)
      <4>1. InReport(p) /\ snap[p] = Printed(total)
        BY <3>8, <3>2 DEF ResetTotal, InReport, Unraced
      <4>2. \A q \in Polls : ~InReport(q)' /\ pc'[q] \notin {"write", "copy", "reset"}
        <5>1. ~InReport(p)'
          BY <3>8, <3>3 DEF ResetTotal, InReport
        <5>2. \A q \in Polls : ~InReport(q)'
          BY <5>1, <3>4, <4>1, <3>2 DEF Unraced
        <5> QED
          BY <5>2 DEF InReport
      <4>3. task # "store" /\ task' = task /\ measured' = measured /\ total' = 0
        BY <3>8, <2>4 DEF ResetTotal, Tell
      <4>4. /\ taken' = taken + Printed(total)
            /\ reports' = IF total = 0 THEN reports ELSE reports + 1
        BY <3>8, <2>4, <4>1 DEF ResetTotal, Tell
      <4>5. Within(measured, total + Parts * taken, reports)'
        <5>1. Within(measured, total + Parts * taken, reports)
          BY <3>2 DEF Unraced
        <5>2. PICK k \in Nat : k = Printed(total)
          BY <3>3, Rounding
        <5>3. PICK t \in Int, n \in Int, d \in Int :
                 t = Parts * taken /\ n = Parts * reports /\ d = Parts * k
          <6>1. Parts * taken \in Int /\ Parts * reports \in Int /\ Parts * k \in Int
            BY <3>3, <5>2, EnergyAssumption
          <6> QED
            BY <6>1, Zenon
        <5>4. 2 * (total - d) <= Parts /\ 2 * (d - total) <= Parts /\ (total = 0 => d = 0)
          BY <3>3, <5>2, <5>3, Rounding, EnergyAssumption
        <5>5. Parts * taken' = t + d
          BY <3>3, <4>4, <5>2, <5>3, EnergyAssumption
        <5>6. Parts * reports' = IF total = 0 THEN n ELSE n + Parts
          BY <3>3, <4>4, <5>3, EnergyAssumption
        <5>7. 2 * (measured - (total + t)) <= n /\ 2 * ((total + t) - measured) <= n
          BY <5>1, <5>3 DEF Within
        <5>8. /\ 2 * (measured - (t + d)) <= Parts * reports'
              /\ 2 * ((t + d) - measured) <= Parts * reports'
          BY <3>3, <5>3, <5>4, <5>6, <5>7, EnergyAssumption
        <5> QED
          BY <5>3, <5>5, <5>8, <4>3 DEF Within
      <4> QED
        BY <4>2, <4>3, <4>5 DEF Unraced
    <3>9. CASE Publish(p)
      <4>1. ~InReport(p) /\ ~InReport(p)'
        BY <3>9, <3>3 DEF Publish, InReport
      <4>2. \A q \in Polls : InReport(q)' => InReport(q) /\ snap'[q] = snap[q]
        BY <3>9, <3>3, <3>4, <4>1 DEF Publish
      <4>3. \A q \in Polls : (pc'[q] = pc[q] /\ snap'[q] = snap[q]) \/ pc'[q] = "idle"
        BY <3>9, <3>3 DEF Publish
      <4> QED
        BY <3>9, <3>2, <4>2, <4>3 DEF Publish, Unraced
    <3> QED
      BY <2>4, <3>5, <3>6, <3>7, <3>8, <3>9 DEF PollTask
  <2>5. CASE UNCHANGED vars
    BY <2>5, TotalKept DEF vars
  <2> QED
    BY <2>1, <2>2, <2>3, <2>4, <2>5 DEF Next, ReportInv
<1>3. ReportInv => EnergyReportedOnce
  BY DEF ReportInv, Unraced, EnergyReportedOnce
<1> QED
  BY <1>1, <1>2, <1>3, TypeInvariant, PTL DEF Spec
=============================================================================
