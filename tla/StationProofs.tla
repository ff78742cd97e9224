--------------------------- MODULE StationProofs ---------------------------
(***************************************************************************)
(* Theorems of Station for any number of credentials, seconds and waiting  *)
(* events: the types, what the flag says of the link, that the first       *)
(* answer is true, and that the page lists what its scan has found.        *)
(***************************************************************************)
EXTENDS Station, TLAPS, SequenceTheorems

LinkEvents == {"GOT_IP", "DISCONNECTED"}
Events == LinkEvents \cup {"SCAN_DONE"}
Has(q, e) == \E i \in 1..Len(q) : q[i] = e

\* No event of q is about the link; e is the last one that is.
Quiet(q) == \A i \in 1..Len(q) : q[i] = "SCAN_DONE"
Last(q, e) ==
  \E i \in 1..Len(q) : q[i] = e /\ \A j \in 1..Len(q) : j > i => q[j] = "SCAN_DONE"

-----------------------------------------------------------------------------
\* The types, without what relates two variables.
Types ==
  /\ portal \in BOOLEAN /\ ssid \in BOOLEAN
  /\ mode \in {"CONFIG", "OPERATION"} /\ (~portal => mode = "OPERATION")
  /\ connected \in BOOLEAN
  /\ config \in Forms \cup {"none"}
  /\ link \in [state : {"down", "trying", "joined"}, form : Forms \cup {"none"}]
  /\ queue \in Seq(Events)
  /\ loop \in {"idle", "delay", "sntp", "ap_num", "new", "ap_records", "reboot"}
  /\ staTimeout \in 0..STA_CONNECT_TIMEOUT + 1
  /\ call \in [at : {"idle", "set", "connect", "wait", "done", "told"},
               form : Forms \cup {"none"}, left : 0..Seconds, ok : BOOLEAN,
               told : BOOLEAN]
  /\ fresh \in BOOLEAN /\ reached \in BOOLEAN

\* The link has a form when it is not down, which the driver was given before;
\* the attempts are below their limit, and a call in progress has seconds left.
JoinInv ==
  /\ link.state = "down" <=> link.form = "none"
  /\ config = "none" => link.state = "down" /\ Quiet(queue) /\ loop # "delay"
  /\ loop # "reboot" => staTimeout <= STA_CONNECT_TIMEOUT
  /\ call.at # "idle" => call.form \in Forms
  /\ call.at \in {"set", "connect", "wait"} => call.left > 0 /\ ~call.ok /\ ~call.told
  /\ call.at = "idle" => ~call.ok /\ ~call.told
  /\ call.at \in {"connect", "wait", "done", "told"} => config = call.form

\* The flag is what the last event about the link has left, and that event is
\* what the link is.
LinkInv ==
  loop # "reboot" =>
    /\ Quiet(queue) => (connected <=> link.state = "joined")
    /\ Last(queue, "GOT_IP") => link.state = "joined"
    /\ Last(queue, "DISCONNECTED") => link.state # "joined"

\* After a fresh start only the form of the call is tried, and whatever says
\* that the station has joined says so of that form.
FreshInv ==
  fresh /\ call.at # "idle" =>
    /\ call.at \in {"set", "connect"} =>
         ~connected /\ link.state = "down" /\ queue = <<>> /\ loop \in {"idle", "reboot"}
    /\ link.state # "down" => link.form = call.form
    /\ connected \/ link.state = "joined" \/ Has(queue, "GOT_IP") => reached
    /\ call.ok \/ call.told => reached

\* A scan has one event, and its flag, number and list follow it in this order;
\* until they are there, the number is 0 and the list is not one of another scan.
Complete == scanFlags.complete
ScanInv ==
  /\ scan = [at |-> scan.at, n |-> scan.n, told |-> scan.told, early |-> scan.early]
  /\ scan.at \in {"idle", "flags", "wait", "list", "told"}
  /\ scanFlags \in [started : BOOLEAN, complete : BOOLEAN]
  /\ radio \in {"idle", "scanning"} /\ found \in Lists \cup {<<>>}
  /\ scan.at # "idle" => call.at = "idle"
  /\ scan.at = "wait" => Complete \/ radio = "scanning" \/ Has(queue, "SCAN_DONE")
  /\ radio = "scanning" => scan.at \in {"flags", "wait"} /\ ~Has(queue, "SCAN_DONE")
  /\ scan.at = "flags" => radio = "scanning"
  /\ Has(queue, "SCAN_DONE") => scan.at = "wait"
  /\ radio = "scanning" \/ Has(queue, "SCAN_DONE") =>
       ~Complete /\ ~InScanDone /\ scanCount = 0 /\ scanResult = Null
  /\ InScanDone => Complete
  /\ loop = "ap_num" => scanCount = 0 /\ scanResult = Null
  /\ loop = "new" => scanCount = Len(found) /\ scanResult = Null /\ found # <<>>
  /\ loop = "ap_records" => scanCount = Len(found) /\ scanResult # Null /\ found # <<>>
  /\ Complete /\ ~InScanDone /\ loop # "reboot" =>
       scanCount = Len(found) /\ (scanResult = found \/ (found = <<>> /\ scanResult = Null))
  /\ scanResult = Null \/ (scanResult \in [1..Len(found) -> Garbage] /\ found # <<>>)
  /\ scanResult = Null => scanCount = 0 \/ loop \in {"new", "reboot"}
  /\ scanCount \in {0, Len(found)}

\* Only the one event of a scan may have a place beside the others.
QueueInv ==
  /\ Len(queue) <= MaxQueue \/ (Len(queue) = MaxQueue + 1 /\ Has(queue, "SCAN_DONE"))
  /\ \A i, j \in 1..Len(queue) : queue[i] = "SCAN_DONE" /\ queue[j] = "SCAN_DONE" => i = j

\* What the page has read, and is about to show.
AnswerInv ==
  /\ scan.at = "list" =>
       /\ scan.n \in {0, Len(found)}
       /\ ~scan.early /\ loop # "reboot" => scan.n = Len(found) /\ Complete /\ ~InScanDone
  /\ scan.at = "told" => scan.n = -2 \/ scan.n \in {0, Len(found)}

IInv ==
  /\ Types /\ JoinInv /\ LinkInv /\ FreshInv
  /\ ScanInv /\ QueueInv /\ AnswerInv /\ ScanAnswerIsTrue

-----------------------------------------------------------------------------
\* What an event that is appended, or taken from the head, does to the queue.
LEMMA Appended ==
  ASSUME NEW q \in Seq(Events), NEW e \in Events
  PROVE  /\ Append(q, e) \in Seq(Events)
         /\ Len(Append(q, e)) = Len(q) + 1
         /\ \A x : Has(Append(q, e), x) <=> Has(q, x) \/ x = e
         /\ Quiet(Append(q, e)) <=> Quiet(q) /\ e = "SCAN_DONE"
         /\ \A x \in LinkEvents :
              Last(Append(q, e), x) <=> e = x \/ (e = "SCAN_DONE" /\ Last(q, x))
<1> DEFINE a == Append(q, e)
<1>1. /\ a \in Seq(Events) /\ Len(a) = Len(q) + 1 /\ Len(q) \in Nat
      /\ \A i \in 1..Len(q) : a[i] = q[i]
      /\ a[Len(q) + 1] = e
  BY AppendProperties
<1>2. \A x : Has(a, x) <=> Has(q, x) \/ x = e
  BY <1>1 DEF Has
<1>3. Quiet(a) <=> Quiet(q) /\ e = "SCAN_DONE"
  BY <1>1 DEF Quiet
<1>4. \A x \in LinkEvents : Last(a, x) <=> e = x \/ (e = "SCAN_DONE" /\ Last(q, x))
  BY <1>1 DEF Last, LinkEvents
<1> HIDE DEF a
<1> QED
  BY <1>1, <1>2, <1>3, <1>4 DEF a

LEMMA Taken ==
  ASSUME NEW q \in Seq(Events), q # <<>>
  PROVE  /\ Tail(q) \in Seq(Events)
         /\ Len(Tail(q)) = Len(q) - 1 /\ Len(q) \in Nat /\ Head(q) \in Events
         /\ \A i \in 1..Len(Tail(q)) : Tail(q)[i] = q[i + 1]
         /\ Head(q) = q[1]
         /\ \A x : Has(q, x) <=> Has(Tail(q), x) \/ Head(q) = x
         /\ Quiet(q) <=> Quiet(Tail(q)) /\ Head(q) = "SCAN_DONE"
         /\ \A x \in LinkEvents :
              Last(q, x) <=> Last(Tail(q), x) \/ (Head(q) = x /\ Quiet(Tail(q)))
<1> DEFINE t == Tail(q)
<1>1. /\ t \in Seq(Events) /\ Len(t) = Len(q) - 1 /\ Len(q) \in Nat /\ Head(q) \in Events
      /\ \A i \in 1..Len(t) : t[i] = q[i + 1]
      /\ Head(q) = q[1]
  BY HeadTailProperties
<1>0. Len(q) > 0 /\ \A i \in 1..Len(q) : i = 1 \/ (i - 1 \in 1..Len(t) /\ t[i - 1] = q[i])
  BY <1>1, EmptySeq
<1>2. \A x : Has(q, x) <=> Has(t, x) \/ Head(q) = x
  BY <1>0, <1>1 DEF Has
<1>3. Quiet(q) <=> Quiet(t) /\ Head(q) = "SCAN_DONE"
  BY <1>0, <1>1 DEF Quiet
<1>4. ASSUME NEW x \in LinkEvents
      PROVE  Last(q, x) <=> Last(t, x) \/ (Head(q) = x /\ Quiet(t))
  <2>1. ASSUME Last(q, x) PROVE Last(t, x) \/ (Head(q) = x /\ Quiet(t))
    <3>1. PICK i \in 1..Len(q) : q[i] = x /\ \A j \in 1..Len(q) : j > i => q[j] = "SCAN_DONE"
      BY <2>1 DEF Last
    <3>2. CASE i = 1
      BY <1>1, <3>1, <3>2 DEF Quiet
    <3>3. CASE i # 1
      <4>1. i - 1 \in 1..Len(t) /\ t[i - 1] = x
        BY <1>0, <3>1, <3>3
      <4>2. \A j \in 1..Len(t) : j > i - 1 => t[j] = "SCAN_DONE"
        BY <1>1, <3>1, <3>3
      <4> QED
        BY <4>1, <4>2 DEF Last
    <3> QED
      BY <3>2, <3>3
  <2>2. ASSUME Last(t, x) PROVE Last(q, x)
    <3>1. PICK i \in 1..Len(t) : t[i] = x /\ \A j \in 1..Len(t) : j > i => t[j] = "SCAN_DONE"
      BY <2>2 DEF Last
    <3>2. i + 1 \in 1..Len(q) /\ q[i + 1] = x
      BY <1>1, <3>1
    <3>3. \A j \in 1..Len(q) : j > i + 1 => q[j] = "SCAN_DONE"
      <4> SUFFICES ASSUME NEW j \in 1..Len(q), j > i + 1 PROVE q[j] = "SCAN_DONE"
        OBVIOUS
      <4>1. j - 1 \in 1..Len(t) /\ t[j - 1] = q[j] /\ j - 1 > i
        BY <1>0, <1>1
      <4> QED
        BY <3>1, <4>1
    <3> QED
      BY <3>2, <3>3 DEF Last
  <2>3. ASSUME Head(q) = x, Quiet(t) PROVE Last(q, x)
    <3>1. 1 \in 1..Len(q) /\ q[1] = x
      BY <1>0, <1>1, <2>3
    <3>2. \A j \in 1..Len(q) : j > 1 => q[j] = "SCAN_DONE"
      BY <1>0, <1>1, <2>3 DEF Quiet
    <3> QED
      BY <3>1, <3>2 DEF Last
  <2> QED
    BY <2>1, <2>2, <2>3
<1> HIDE DEF t
<1> QED
  BY <1>1, <1>2, <1>3, <1>4 DEF t

LEMMA NothingQueued ==
  /\ <<>> \in Seq(Events) /\ Len(<<>>) = 0
  /\ Quiet(<<>>)
  /\ \A x : ~Has(<<>>, x) /\ ~Last(<<>>, x)
BY DEF Quiet, Has, Last

-----------------------------------------------------------------------------
\* What esp_wifi_disconnect does.
LEMMA DisconnectEffect ==
  ASSUME esp_wifi_disconnect
  PROVE  \/ link.state = "down" /\ UNCHANGED <<link, queue>>
         \/ /\ link.state # "down" /\ link' = NoLink
            /\ queue' = Append(queue, "DISCONNECTED") /\ Len(queue) < MaxQueue
BY DEF esp_wifi_disconnect, Posts

LEMMA TypesInit == Init => Types
<1> SUFFICES ASSUME Init PROVE Types
  OBVIOUS
<1>1. /\ portal \in BOOLEAN /\ ssid \in BOOLEAN /\ connected \in BOOLEAN
      /\ fresh \in BOOLEAN /\ reached \in BOOLEAN
  BY Zenon DEF Init, Rest
<1>2. mode \in {"CONFIG", "OPERATION"} /\ (~portal => mode = "OPERATION")
  BY DEF Init
<1>3. call \in [at : {"idle", "set", "connect", "wait", "done", "told"},
               form : Forms \cup {"none"}, left : 0..Seconds, ok : BOOLEAN,
               told : BOOLEAN]
  BY StationAssumption DEF Init, NoCall
<1> QED
  BY <1>1, <1>2, <1>3, NothingQueued, StationAssumption DEF Init, Rest, Types, NoLink

LEMMA TypesNext == Types /\ JoinInv /\ [Next]_vars => Types'
<1> SUFFICES ASSUME Types, JoinInv, [Next]_vars PROVE Types'
  OBVIOUS
<1> USE StationAssumption DEF Types
<1> DEFINE Calls == [at : {"idle", "set", "connect", "wait", "done", "told"},
                     form : Forms \cup {"none"}, left : 0..Seconds, ok : BOOLEAN,
                     told : BOOLEAN]
<1>q. \A e \in Events : Append(queue, e) \in Seq(Events)
  BY Appended
<1>t. queue # <<>> => Tail(queue) \in Seq(Events)
  BY Taken
<1>e. "GOT_IP" \in Events /\ "DISCONNECTED" \in Events /\ "SCAN_DONE" \in Events
  BY DEF Events, LinkEvents
<1>n. NoLink \in [state : {"down", "trying", "joined"}, form : Forms \cup {"none"}]
  BY DEF NoLink
<1>d. ASSUME esp_wifi_disconnect
      PROVE  /\ link' \in [state : {"down", "trying", "joined"}, form : Forms \cup {"none"}]
             /\ queue' \in Seq(Events)
  <2>1. CASE link.state = "down"
    BY <1>d, <2>1 DEF esp_wifi_disconnect
  <2>2. CASE link.state # "down"
    <3>1. link' = NoLink /\ queue' = Append(queue, "DISCONNECTED")
      BY <1>d, <2>2 DEF esp_wifi_disconnect, Posts
    <3> QED
      BY <3>1, <1>q, <1>e, <1>n
  <2> QED
    BY <2>1, <2>2
<1>c. ASSUME esp_wifi_connect
      PROVE  link' \in [state : {"down", "trying", "joined"}, form : Forms \cup {"none"}]
  BY <1>c DEF esp_wifi_connect
<1>1. CASE Associates
  <2>1. reached' \in BOOLEAN
    BY <1>1, Zenon DEF Associates
  <2> QED
    BY <1>1, <1>q, <1>e, <2>1 DEF Associates, Posts, scanning
<1>2. CASE Fails
  BY <1>2, <1>q, <1>e, <1>n DEF Fails, Posts, scanning, history
<1>3. CASE LosesNetwork
  BY <1>3, <1>q, <1>e, <1>n DEF LosesNetwork, Posts, scanning, history
<1>4. CASE ScanEndsInDriver
  BY <1>4, <1>q, <1>e DEF ScanEndsInDriver, joining, history
<1>5. CASE StartScan
  BY <1>5 DEF StartScan, joining, history
<1>6. CASE Scan
  BY <1>6 DEF Scan, SetScanFlags, CountNetworks, ListNetworks, ScanReturns, joining, history
<1>7. ASSUME NEW form \in Forms, ConnectWifi(form) PROVE Types'
  <2>1. fresh' \in BOOLEAN /\ reached' \in BOOLEAN
    BY <1>7, Zenon DEF ConnectWifi
  <2>2. call' \in Calls
    BY <1>7 DEF ConnectWifi
  <2> QED
    BY <1>7, <1>d, <2>1, <2>2 DEF ConnectWifi, scanning
<1>8. CASE SetConfig
  <2>1. call' \in Calls
    BY <1>8 DEF SetConfig
  <2> QED
    BY <1>8, <1>d, <2>1 DEF SetConfig, scanning, history
<1>9. CASE Connect
  <2>1. call' \in Calls
    BY <1>9 DEF Connect
  <2> QED
    BY <1>9, <1>c, <2>1 DEF Connect, scanning, history
<1>10. CASE WaitSecond
  <2>1. CASE connected \/ call.left = 1
    <3>1. call' = [at |-> "done", form |-> call.form, left |-> 0, ok |-> connected,
                   told |-> call.told]
      BY <1>10, <2>1 DEF WaitSecond
    <3>2. call' \in Calls
      BY <3>1
    <3> QED
      BY <1>10, <3>2 DEF WaitSecond, driver, scanning, history
  <2>2. CASE ~(connected \/ call.left = 1)
    <3>1. call.left - 1 \in 0..Seconds
      BY <1>10, <2>2 DEF WaitSecond, JoinInv
    <3>2. call' = [at |-> call.at, form |-> call.form, left |-> call.left - 1,
                   ok |-> call.ok, told |-> call.told]
      BY <1>10, <2>2 DEF WaitSecond
    <3>3. call' \in Calls
      BY <3>1, <3>2
    <3> QED
      BY <1>10, <3>3 DEF WaitSecond, driver, scanning, history
  <2> QED
    BY <2>1, <2>2
<1>11. CASE Answer
  <2>1. call' \in Calls
    BY <1>11 DEF Answer
  <2> QED
    BY <1>11, <2>1 DEF Answer, driver, scanning, history
<1>12. CASE Return
  <2>1. call' \in Calls
    BY <1>12 DEF Return, NoCall
  <2>2. ssid' \in BOOLEAN
    <3>1. CASE call.ok
      BY <1>12, <3>1, Zenon DEF Return
    <3>2. CASE ~call.ok
      BY <1>12, <3>2 DEF Return
    <3> QED
      BY <3>1, <3>2
  <2> QED
    BY <1>12, <2>1, <2>2 DEF Return, driver, scanning, history
<1>13. CASE Disconnected
  <2>1. connected' \in BOOLEAN
    BY <1>13, Zenon DEF Disconnected
  <2> QED
    BY <1>13, <1>t, <2>1 DEF Disconnected, NextEvent, scanning, history
<1>14. CASE Retry
  <2>1. staTimeout' \in 0..STA_CONNECT_TIMEOUT + 1
    BY <1>14 DEF Retry, JoinInv
  <2> QED
    BY <1>14, <1>c, <2>1 DEF Retry, scanning, history
<1>15. CASE GotIP
  BY <1>15, <1>t DEF GotIP, NextEvent, scanning, history
<1>16. CASE SntpDone
  BY <1>16 DEF SntpDone, driver, scanning, history
<1>17. CASE ScanDone
  BY <1>17, <1>t DEF ScanDone, NextEvent, joining, history
<1>18. CASE GetApNum \/ NewRecords \/ GetApRecords
  BY <1>18 DEF GetApNum, NewRecords, GetApRecords, joining, history
<1>19. CASE Restart
  <2>1. /\ portal' \in BOOLEAN /\ ssid' \in BOOLEAN /\ connected' \in BOOLEAN
        /\ fresh' \in BOOLEAN /\ reached' \in BOOLEAN
    BY <1>19, Zenon DEF Restart
  <2>2. call' \in Calls
    BY <1>19 DEF Restart, NoCall
  <2> QED
    BY <1>19, <2>1, <2>2, <1>n, NothingQueued DEF Restart
<1>20. CASE UNCHANGED vars
  BY <1>20 DEF vars, driver, scanning, history
<1>b. CASE ButtonHeld
  BY <1>b DEF ButtonHeld, driver, scanning, history
<1> QED
  BY <1>1, <1>2, <1>3, <1>4, <1>5, <1>6, <1>7, <1>8, <1>9, <1>10, <1>11, <1>12, <1>13, <1>14,
     <1>15, <1>16, <1>17, <1>18, <1>19, <1>20, <1>b
     DEF Next, Driver, Call, EventLoop

-----------------------------------------------------------------------------
LEMMA JoinInit == Init => JoinInv
BY NothingQueued, StationAssumption DEF Init, Rest, NoLink, NoCall, JoinInv

LEMMA JoinNext == Types /\ JoinInv /\ [Next]_vars => JoinInv'
<1> SUFFICES ASSUME Types, JoinInv, [Next]_vars PROVE JoinInv'
  OBVIOUS
<1> USE StationAssumption DEF JoinInv
<1>t. /\ link \in [state : {"down", "trying", "joined"}, form : Forms \cup {"none"}]
      /\ queue \in Seq(Events)
      /\ staTimeout \in 0..STA_CONNECT_TIMEOUT + 1
      /\ call \in [at : {"idle", "set", "connect", "wait", "done", "told"},
                   form : Forms \cup {"none"}, left : 0..Seconds, ok : BOOLEAN,
                   told : BOOLEAN]
  BY DEF Types
<1>n. NoLink = [state |-> "down", form |-> "none"]
  BY DEF NoLink
<1>q. queue # <<>> => (Quiet(queue) => Quiet(Tail(queue)) /\ Head(queue) = "SCAN_DONE")
  BY <1>t, Taken
<1>a. Quiet(queue) => Quiet(Append(queue, "SCAN_DONE"))
  BY <1>t, Appended DEF Events
<1>d. ASSUME esp_wifi_disconnect
      PROVE  \/ UNCHANGED <<link, queue>>
             \/ link.state # "down" /\ link' = NoLink
  BY <1>d, DisconnectEffect
<1>1. CASE Associates \/ Fails \/ LosesNetwork
  BY <1>1, <1>t, <1>n DEF Associates, Fails, LosesNetwork, Posts
<1>4. CASE ScanEndsInDriver
  BY <1>4, <1>a DEF ScanEndsInDriver, joining
<1>5. CASE StartScan
  BY <1>5 DEF StartScan, joining
<1>6. CASE Scan
  BY <1>6 DEF Scan, SetScanFlags, CountNetworks, ListNetworks, ScanReturns, joining
<1>7. ASSUME NEW form \in Forms, ConnectWifi(form) PROVE JoinInv'
  <2>1. call' = [at |-> "set", form |-> form, left |-> Seconds, ok |-> FALSE, told |-> FALSE]
    BY <1>7 DEF ConnectWifi
  <2> QED
    BY <1>7, <1>d, <1>n, <2>1 DEF ConnectWifi
<1>8. CASE SetConfig
  <2>1. /\ call' = [at |-> "connect", form |-> call.form, left |-> call.left, ok |-> call.ok,
                    told |-> call.told]
        /\ call.at = "set"
    BY <1>8, <1>t DEF SetConfig
  <2> QED
    BY <1>8, <1>d, <1>n, <2>1 DEF SetConfig
<1>9. CASE Connect
  BY <1>9, <1>t DEF Connect, esp_wifi_connect
<1>10. CASE WaitSecond
  <2>1. CASE connected \/ call.left = 1
    <3>1. call' = [at |-> "done", form |-> call.form, left |-> 0, ok |-> connected,
                   told |-> call.told]
      BY <1>10, <1>t, <2>1 DEF WaitSecond
    <3> QED
      BY <1>10, <3>1 DEF WaitSecond, driver
  <2>2. CASE ~(connected \/ call.left = 1)
    <3>1. call' = [at |-> call.at, form |-> call.form, left |-> call.left - 1,
                   ok |-> call.ok, told |-> call.told]
      BY <1>10, <1>t, <2>2 DEF WaitSecond
    <3> QED
      BY <1>10, <1>t, <2>2, <3>1 DEF WaitSecond, driver
  <2> QED
    BY <2>1, <2>2
<1>11. CASE Answer
  <2>1. call' = [at |-> "told", form |-> call.form, left |-> call.left, ok |-> call.ok,
                 told |-> connected] /\ call.at = "done"
    BY <1>11, <1>t DEF Answer
  <2> QED
    BY <1>11, <2>1 DEF Answer, driver
<1>12. CASE Return
  BY <1>12 DEF Return, driver, NoCall
<1>13. CASE Disconnected
  BY <1>13, <1>q DEF Disconnected, NextEvent
<1>14. CASE Retry
  BY <1>14, <1>t DEF Retry, esp_wifi_connect
<1>15. CASE GotIP
  BY <1>15, <1>q DEF GotIP, NextEvent
<1>16. CASE SntpDone
  BY <1>16 DEF SntpDone, driver
<1>17. CASE ScanDone
  BY <1>17, <1>q DEF ScanDone, NextEvent, joining
<1>18. CASE GetApNum \/ NewRecords \/ GetApRecords
  BY <1>18 DEF GetApNum, NewRecords, GetApRecords, joining
<1>19. CASE Restart
  BY <1>19, <1>n, NothingQueued DEF Restart, NoCall
<1>20. CASE UNCHANGED vars
  BY <1>20 DEF vars, driver
<1>b. CASE ButtonHeld
  BY <1>b DEF ButtonHeld, driver
<1> QED
  BY <1>1, <1>4, <1>5, <1>6, <1>7, <1>8, <1>9, <1>10, <1>11, <1>12, <1>13, <1>14,
     <1>15, <1>16, <1>17, <1>18, <1>19, <1>20, <1>b
     DEF Next, Driver, Call, EventLoop

-----------------------------------------------------------------------------
\* Actions that leave the link, the flag and the queue alone, and the event loop
\* where it is or out of the reach of the invariant.
LEMMA LinkKept ==
  ASSUME LinkInv, UNCHANGED <<connected, link, queue>>,
         loop' = "reboot" \/ loop # "reboot"
  PROVE  LinkInv'
BY DEF LinkInv

LEMMA LinkInit == Init => LinkInv
BY NothingQueued DEF Init, Rest, NoLink, LinkInv

LEMMA LinkNext == Types /\ JoinInv /\ LinkInv /\ [Next]_vars => LinkInv'
<1> SUFFICES ASSUME Types, JoinInv, LinkInv, [Next]_vars PROVE LinkInv'
  OBVIOUS
<1>t. /\ link \in [state : {"down", "trying", "joined"}, form : Forms \cup {"none"}]
      /\ queue \in Seq(Events) /\ connected \in BOOLEAN
  BY DEF Types
<1>n. NoLink.state = "down"
  BY DEF NoLink
<1>a. \A e \in Events :
        /\ Quiet(Append(queue, e)) <=> Quiet(queue) /\ e = "SCAN_DONE"
        /\ \A x \in LinkEvents :
             Last(Append(queue, e), x) <=> e = x \/ (e = "SCAN_DONE" /\ Last(queue, x))
  BY <1>t, Appended
<1>h. queue # <<>> =>
        /\ Quiet(queue) <=> Quiet(Tail(queue)) /\ Head(queue) = "SCAN_DONE"
        /\ \A x \in LinkEvents :
             Last(queue, x) <=> Last(Tail(queue), x) \/ (Head(queue) = x /\ Quiet(Tail(queue)))
  BY <1>t, Taken
<1>d. ASSUME esp_wifi_disconnect, UNCHANGED <<connected, loop>> PROVE LinkInv'
  <2>1. CASE UNCHANGED <<link, queue>>
    BY <1>d, <2>1 DEF LinkInv
  <2>2. CASE link' = NoLink /\ queue' = Append(queue, "DISCONNECTED")
    BY <1>a, <1>d, <1>n, <2>2 DEF LinkInv, Events, LinkEvents
  <2> QED
    BY <1>d, <2>1, <2>2, DisconnectEffect
<1>c. ASSUME esp_wifi_connect, UNCHANGED <<connected, queue>>, loop # "reboot" PROVE LinkInv'
  BY <1>c DEF esp_wifi_connect, LinkInv
<1>1. CASE Associates
  BY <1>1, <1>a, <1>t DEF Associates, Posts, LinkInv, Events, LinkEvents
<1>2. CASE Fails
  BY <1>2, <1>a, <1>n DEF Fails, Posts, LinkInv, Events, LinkEvents
<1>3. CASE LosesNetwork
  BY <1>3, <1>a, <1>n DEF LosesNetwork, Posts, LinkInv, Events, LinkEvents
<1>4. CASE ScanEndsInDriver
  BY <1>4, <1>a DEF ScanEndsInDriver, joining, LinkInv, Events, LinkEvents
<1>5. CASE StartScan
  BY <1>5, LinkKept DEF StartScan, joining
<1>6. CASE Scan
  BY <1>6 DEF Scan, SetScanFlags, CountNetworks, ListNetworks, ScanReturns, joining, LinkInv
<1>7. ASSUME NEW form \in Forms, ConnectWifi(form) PROVE LinkInv'
  <2>1. CASE esp_wifi_disconnect
    BY <1>7, <1>d, <2>1 DEF ConnectWifi
  <2>2. CASE UNCHANGED <<link, queue>>
    BY <1>7, <2>2 DEF ConnectWifi, LinkInv
  <2> QED
    BY <1>7, <2>1, <2>2 DEF ConnectWifi
<1>8. CASE SetConfig
  <2>1. CASE connected
    BY <1>8, <1>d, <2>1 DEF SetConfig
  <2>2. CASE ~connected
    BY <1>8, <2>2 DEF SetConfig, LinkInv
  <2> QED
    BY <2>1, <2>2
<1>9. CASE Connect
  <2>1. CASE esp_wifi_connect
    BY <1>9, <1>c, <2>1 DEF Connect
  <2>2. CASE loop' = "reboot"
    BY <2>2 DEF LinkInv
  <2> QED
    BY <1>9, <2>1, <2>2 DEF Connect
<1>10. CASE WaitSecond \/ Answer \/ Return \/ SntpDone
  BY <1>10 DEF WaitSecond, Answer, Return, SntpDone, driver, LinkInv
<1>13. CASE Disconnected
  <2>1. CASE loop' = "reboot"
    BY <2>1 DEF LinkInv
  <2>2. CASE connected' = FALSE /\ loop' = "delay"
    <3>1. Last(queue, "GOT_IP") => link.state = "joined"
      BY <1>13 DEF Disconnected, NextEvent, LinkInv
    <3> QED
      BY <1>13, <1>h, <2>2, <3>1 DEF Disconnected, NextEvent, LinkInv, LinkEvents
  <2> QED
    BY <1>13, <2>1, <2>2 DEF Disconnected
<1>14. CASE Retry
  <2>1. CASE esp_wifi_connect
    BY <1>14, <1>c, <2>1 DEF Retry
  <2>2. CASE loop' = "reboot"
    BY <2>2 DEF LinkInv
  <2> QED
    BY <1>14, <2>1, <2>2 DEF Retry
<1>15. CASE GotIP
  BY <1>15, <1>h DEF GotIP, NextEvent, LinkInv, LinkEvents
<1>17. CASE ScanDone
  BY <1>17, <1>h DEF ScanDone, NextEvent, joining, LinkInv, LinkEvents
<1>18. CASE GetApNum \/ NewRecords \/ GetApRecords
  BY <1>18 DEF GetApNum, NewRecords, GetApRecords, joining, LinkInv
<1>19. CASE Restart
  BY <1>19, <1>n, NothingQueued DEF Restart, LinkInv
<1>20. CASE UNCHANGED vars
  BY <1>20 DEF vars, driver, LinkInv
<1>b. CASE ButtonHeld
  BY <1>b DEF LinkInv, ButtonHeld
<1> QED
  BY <1>1, <1>2, <1>3, <1>4, <1>5, <1>6, <1>7, <1>8, <1>9, <1>10, <1>13, <1>14,
     <1>15, <1>17, <1>18, <1>19, <1>20, <1>b
     DEF Next, Driver, Call, EventLoop

-----------------------------------------------------------------------------
LEMMA FreshInit == Init => FreshInv
BY NothingQueued DEF Init, NoCall, FreshInv

LEMMA FreshNext == Types /\ JoinInv /\ ScanInv /\ FreshInv /\ [Next]_vars => FreshInv'
<1> SUFFICES ASSUME Types, JoinInv, ScanInv, FreshInv, [Next]_vars PROVE FreshInv'
  OBVIOUS
<1> USE DEF FreshInv
<1>t. /\ link \in [state : {"down", "trying", "joined"}, form : Forms \cup {"none"}]
      /\ queue \in Seq(Events)
      /\ call \in [at : {"idle", "set", "connect", "wait", "done", "told"},
                   form : Forms \cup {"none"}, left : 0..Seconds, ok : BOOLEAN,
                   told : BOOLEAN]
  BY DEF Types
<1>n. NoLink.state = "down"
  BY DEF NoLink
<1>a. /\ Has(Append(queue, "DISCONNECTED"), "GOT_IP") <=> Has(queue, "GOT_IP")
      /\ Has(Append(queue, "SCAN_DONE"), "GOT_IP") <=> Has(queue, "GOT_IP")
  BY <1>t, Appended DEF Events, LinkEvents
<1>h. queue # <<>> =>
        (Has(queue, "GOT_IP") <=> Has(Tail(queue), "GOT_IP") \/ Head(queue) = "GOT_IP")
  BY <1>t, Taken
<1>d. ASSUME esp_wifi_disconnect
      PROVE  \/ UNCHANGED <<link, queue>>
             \/ /\ link.state # "down" /\ link'.state = "down"
                /\ Has(queue, "GOT_IP")' <=> Has(queue, "GOT_IP")
  <2>1. CASE link.state = "down"
    BY <1>d, <2>1, DisconnectEffect
  <2>2. CASE link.state # "down"
    <3>1. link' = NoLink /\ queue' = Append(queue, "DISCONNECTED")
      BY <1>d, <2>2, DisconnectEffect
    <3> QED
      BY <1>a, <1>n, <2>2, <3>1
  <2> QED
    BY <2>1, <2>2
<1>1. CASE Associates
  BY <1>1, <1>t DEF Associates, Posts
<1>2. CASE Fails \/ LosesNetwork
  BY <1>2, <1>a, <1>n DEF Fails, LosesNetwork, Posts, history
<1>4. CASE ScanEndsInDriver
  BY <1>4 DEF ScanEndsInDriver, joining, ScanInv
<1>5. CASE StartScan
  BY <1>5 DEF StartScan, joining, history
<1>6. CASE Scan
  BY <1>6 DEF Scan, SetScanFlags, CountNetworks, ListNetworks, ScanReturns, joining, history
<1>7. ASSUME NEW form \in Forms, ConnectWifi(form) PROVE FreshInv'
  <2>1. call' = [at |-> "set", form |-> form, left |-> Seconds, ok |-> FALSE, told |-> FALSE]
    BY <1>7 DEF ConnectWifi
  <2>2. ASSUME fresh'
        PROVE  /\ ~connected' /\ link' = link /\ link.state = "down"
               /\ queue' = <<>> /\ loop' = "idle"
    BY <1>7, <1>d, <1>n, <2>2 DEF ConnectWifi
  <2> QED
    BY <2>1, <2>2, <1>n, NothingQueued
<1>8. CASE SetConfig
  <2>1. /\ call' = [at |-> "connect", form |-> call.form, left |-> call.left, ok |-> call.ok,
                    told |-> call.told]
        /\ call.at = "set"
    BY <1>8, <1>t DEF SetConfig
  <2>2. fresh => UNCHANGED <<link, queue>>
    BY <1>8 DEF SetConfig
  <2> QED
    BY <1>8, <2>1, <2>2 DEF SetConfig, history
<1>9. CASE Connect
  <2>1. call.at = "connect" /\ call'.form = call.form /\ call'.ok = call.ok
        /\ call'.told = call.told /\ call'.at \in {"connect", "wait"}
    BY <1>9, <1>t DEF Connect
  <2> QED
    BY <1>9, <1>t, <2>1 DEF Connect, esp_wifi_connect, JoinInv, history
<1>10. CASE WaitSecond
  <2>1. /\ call.at = "wait" /\ call'.at \in {"wait", "done"}
        /\ call'.form = call.form /\ call'.told = call.told
        /\ call'.ok => connected \/ call.ok
    BY <1>10, <1>t DEF WaitSecond
  <2> QED
    BY <1>10, <2>1 DEF WaitSecond, driver, history
<1>11. CASE Answer
  <2>1. call' = [at |-> "told", form |-> call.form, left |-> call.left, ok |-> call.ok,
                 told |-> connected] /\ call.at = "done"
    BY <1>11, <1>t DEF Answer
  <2> QED
    BY <1>11, <2>1 DEF Answer, driver, history
<1>12. CASE Return
  BY <1>12 DEF Return, NoCall
<1>13. CASE Disconnected
  BY <1>13, <1>h DEF Disconnected, NextEvent, history
<1>14. CASE Retry
  BY <1>14, <1>t DEF Retry, esp_wifi_connect, JoinInv, history
<1>15. CASE GotIP
  BY <1>15, <1>h DEF GotIP, NextEvent, history
<1>16. CASE SntpDone
  BY <1>16 DEF SntpDone, driver, history
<1>17. CASE ScanDone
  BY <1>17, <1>h DEF ScanDone, NextEvent, joining, history
<1>18. CASE GetApNum \/ NewRecords \/ GetApRecords
  BY <1>18 DEF GetApNum, NewRecords, GetApRecords, joining, history
<1>19. CASE Restart
  BY <1>19 DEF Restart, NoCall
<1>20. CASE UNCHANGED vars
  BY <1>20 DEF vars, driver, history
<1>b. CASE ButtonHeld
  BY <1>b DEF ButtonHeld, driver, history
<1> QED
  BY <1>1, <1>2, <1>4, <1>5, <1>6, <1>7, <1>8, <1>9, <1>10, <1>11, <1>12, <1>13, <1>14,
     <1>15, <1>16, <1>17, <1>18, <1>19, <1>20, <1>b
     DEF Next, Driver, Call, EventLoop

-----------------------------------------------------------------------------
\* Actions that leave the scan alone: they may add and take events that are not
\* its own, and move the event loop where it handles none of a scan.
LEMMA ScanKept ==
  ASSUME ScanInv, UNCHANGED scanning,
         Has(queue', "SCAN_DONE") <=> Has(queue, "SCAN_DONE"),
         loop' = loop \/ (~InScanDone /\ loop' \in {"idle", "delay", "sntp"} /\ loop # "reboot")
           \/ loop' = "reboot",
         scan.at = "idle" \/ call'.at = "idle"
  PROVE  ScanInv'
BY DEF ScanInv, scanning, scanList, Complete, InScanDone

\* A list, and records that are not filled, are sequences, and neither is NULL.
LEMMA Records ==
  /\ \A l \in Lists : l \in Seq(Range(l)) /\ l \in [1..Len(l) -> Garbage]
  /\ \A n \in Nat \ {0} : \A r \in [1..n -> Garbage] : r # Null
<1>1. "NULL" \notin Garbage
  <2>1. "NULL" # "garbage"
    OBVIOUS
  <2>2. "NULL" \notin Names
    BY StationAssumption, Zenon
  <2> QED
    BY <2>1, <2>2 DEF Garbage
<1>2. ASSUME NEW l \in Lists PROVE l \in Seq(Range(l)) /\ l \in [1..Len(l) -> Garbage]
  <2>1. l \in Seq(Range(l)) /\ Range(l) \subseteq Garbage
    BY StationAssumption DEF Garbage, Names
  <2> QED
    BY <2>1
<1>3. ASSUME NEW n \in Nat \ {0}, NEW r \in [1..n -> Garbage] PROVE r # Null
  BY <1>1 DEF Null
<1> QED
  BY <1>2, <1>3

LEMMA ScanInit == Init => ScanInv
<1> SUFFICES ASSUME Init PROVE ScanInv
  OBVIOUS
<1>1. /\ scan.at = "idle" /\ ~Complete /\ scanFlags \in [started : BOOLEAN, complete : BOOLEAN]
      /\ scan = [at |-> scan.at, n |-> scan.n, told |-> scan.told, early |-> scan.early]
  BY DEF Init, NothingScanned, NoScan, Complete
<1>2. ~Has(queue, "SCAN_DONE") /\ loop = "idle" /\ ~InScanDone
  BY NothingQueued DEF Init, Rest, InScanDone
<1> QED
  BY <1>1, <1>2 DEF Init, NothingScanned, ScanInv

LEMMA ScanNext == Types /\ ScanInv /\ QueueInv /\ [Next]_vars => ScanInv'
<1> SUFFICES ASSUME Types, ScanInv, QueueInv, [Next]_vars PROVE ScanInv'
  OBVIOUS
<1>t. /\ queue \in Seq(Events)
      /\ loop \in {"idle", "delay", "sntp", "ap_num", "new", "ap_records", "reboot"}
      /\ call \in [at : {"idle", "set", "connect", "wait", "done", "told"},
                   form : Forms \cup {"none"}, left : 0..Seconds, ok : BOOLEAN,
                   told : BOOLEAN]
  BY DEF Types
<1>a. \A e \in LinkEvents : Has(Append(queue, e), "SCAN_DONE") <=> Has(queue, "SCAN_DONE")
  BY <1>t, Appended DEF Events, LinkEvents
<1>h. queue # <<>> =>
        (Has(queue, "SCAN_DONE") <=> Has(Tail(queue), "SCAN_DONE") \/ Head(queue) = "SCAN_DONE")
  BY <1>t, Taken
<1>d. ASSUME esp_wifi_disconnect PROVE Has(queue', "SCAN_DONE") <=> Has(queue, "SCAN_DONE")
  BY <1>d, <1>a, DisconnectEffect DEF LinkEvents
<1>1. CASE Associates \/ Fails \/ LosesNetwork
  <2>1. /\ Has(queue', "SCAN_DONE") <=> Has(queue, "SCAN_DONE")
        /\ UNCHANGED <<scanning, loop, call>>
    BY <1>1, <1>a DEF Associates, Fails, LosesNetwork, Posts, LinkEvents
  <2> QED
    BY <2>1, ScanKept DEF ScanInv
<1>4. CASE ScanEndsInDriver
  <2>1. Has(queue', "SCAN_DONE")
    BY <1>4, <1>t, Appended DEF ScanEndsInDriver, Events
  <2>2. UNCHANGED <<loop, call, scan, scanFlags, scanCount, scanResult>>
    BY <1>4 DEF ScanEndsInDriver, joining, scanList
  <2> QED
    BY <1>4, <2>1, <2>2 DEF ScanEndsInDriver, ScanInv, Complete, InScanDone
<1>5. CASE StartScan
  <2>1. scanCount' = 0 /\ scanResult' = Null
    BY <1>5 DEF StartScan, scanDelete, ScanInv, InScanDone
  <2>2. /\ scanFlags' = [started |-> scanFlags.started, complete |-> FALSE]
        /\ UNCHANGED <<queue, call, found>>
    BY <1>5 DEF StartScan, ScanInv, joining
  <2>3. CASE radio' = "scanning" /\ scan' = [scan EXCEPT !.at = "flags"] /\ UNCHANGED loop
    BY <1>5, <2>1, <2>2, <2>3 DEF StartScan, ScanInv, Complete, InScanDone
  <2>4. CASE /\ scan' = [scan EXCEPT !.at = "told", !.n = -2]
             /\ loop' \in {loop, "reboot"} /\ UNCHANGED radio
    BY <1>5, <2>1, <2>2, <2>4 DEF StartScan, ScanInv, Complete, InScanDone
  <2> QED
    BY <1>5, <2>3, <2>4 DEF StartScan
<1>6. CASE Scan
  <2>1. CASE SetScanFlags
    BY <2>1 DEF SetScanFlags, joining, scanList, ScanInv, Complete, InScanDone
  <2>2. CASE CountNetworks
    BY <2>2 DEF CountNetworks, joining, scanList, ScanInv, Complete, InScanDone
  <2>3. CASE ListNetworks
    BY <2>3 DEF ListNetworks, joining, scanList, ScanInv, Complete, InScanDone
  <2>4. CASE ScanReturns
    BY <2>4 DEF ScanReturns, NoScan, joining, scanList, ScanInv, Complete, InScanDone
  <2> QED
    BY <1>6, <2>1, <2>2, <2>3, <2>4 DEF Scan
<1>7. ASSUME NEW form \in Forms, ConnectWifi(form) PROVE ScanInv'
  <2>1. /\ Has(queue', "SCAN_DONE") <=> Has(queue, "SCAN_DONE")
        /\ UNCHANGED <<scanning, loop>> /\ scan.at = "idle"
    BY <1>7, <1>d DEF ConnectWifi
  <2> QED
    BY <2>1, ScanKept
<1>8. CASE SetConfig
  <2>1. /\ Has(queue', "SCAN_DONE") <=> Has(queue, "SCAN_DONE")
        /\ UNCHANGED <<scanning, loop>> /\ scan.at = "idle"
    BY <1>8, <1>d DEF SetConfig, ScanInv
  <2> QED
    BY <2>1, ScanKept
<1>9. CASE Connect
  <2>1. UNCHANGED <<scanning, queue>> /\ scan.at = "idle"
    BY <1>9 DEF Connect, ScanInv
  <2>2. loop' = loop \/ loop' = "reboot"
    BY <1>9 DEF Connect
  <2> QED
    BY <2>1, <2>2, ScanKept
<1>10. CASE WaitSecond \/ Answer \/ Return \/ SntpDone
  <2>1. UNCHANGED <<scanning, queue>> /\ (scan.at = "idle" \/ call'.at = "idle")
    BY <1>10, <1>t DEF WaitSecond, Answer, Return, SntpDone, NoCall, driver, ScanInv
  <2>2. loop' = loop \/ (loop = "sntp" /\ loop' = "idle")
    BY <1>10 DEF WaitSecond, Answer, Return, SntpDone
  <2> QED
    BY <2>1, <2>2, ScanKept DEF InScanDone
<1>13. CASE Disconnected \/ GotIP
  <2>1. /\ Has(queue', "SCAN_DONE") <=> Has(queue, "SCAN_DONE")
        /\ UNCHANGED <<scanning, call>>
    BY <1>13, <1>h DEF Disconnected, GotIP, NextEvent
  <2>2. loop = "idle" /\ loop' \in {"delay", "reboot", "sntp"}
    BY <1>13 DEF Disconnected, GotIP, NextEvent
  <2> QED
    BY <2>1, <2>2, ScanKept DEF InScanDone, ScanInv
<1>14. CASE Retry
  <2>1. UNCHANGED <<scanning, call, queue>>
    BY <1>14 DEF Retry
  <2>2. loop = "delay" /\ loop' \in {"idle", "reboot"}
    BY <1>14 DEF Retry
  <2> QED
    BY <2>1, <2>2, ScanKept DEF InScanDone, ScanInv
<1>17. CASE ScanDone
  <2>1. ~Has(queue', "SCAN_DONE") /\ Has(queue, "SCAN_DONE")
    <3>1. \A i \in 1..Len(Tail(queue)) : Tail(queue)[i] = queue[i + 1]
      BY <1>17, <1>t, Taken DEF ScanDone, NextEvent
    <3>2. Len(Tail(queue)) = Len(queue) - 1 /\ Len(queue) \in Nat /\ queue[1] = "SCAN_DONE"
      BY <1>17, <1>t, Taken DEF ScanDone, NextEvent
    <3>3. Len(queue) > 0
      BY <1>17, <1>t, EmptySeq DEF ScanDone, NextEvent
    <3>4. \A i \in 1..Len(Tail(queue)) : queue[i + 1] # "SCAN_DONE"
      BY <3>2, <3>3 DEF QueueInv
    <3> QED
      BY <1>17, <1>h, <3>1, <3>4 DEF Has, ScanDone, NextEvent
  <2>2. /\ scanFlags' = [started |-> FALSE, complete |-> TRUE] /\ loop' = "ap_num"
        /\ UNCHANGED <<call, scan, scanCount, scanResult, radio, found>>
    BY <1>17 DEF ScanDone, joining, scanList
  <2> QED
    BY <2>1, <2>2 DEF ScanInv, Complete, InScanDone
<1>18. CASE GetApNum
  BY <1>18 DEF GetApNum, joining, ScanInv, Complete, InScanDone
<1>r. /\ found # <<>> => Len(found) \in Nat \ {0} /\ found \in [1..Len(found) -> Garbage]
      /\ found # <<>> => \A r \in [1..Len(found) -> Garbage] : r # Null
  <2> SUFFICES ASSUME found # <<>>
               PROVE  /\ Len(found) \in Nat \ {0} /\ found \in [1..Len(found) -> Garbage]
                      /\ \A r \in [1..Len(found) -> Garbage] : r # Null
    OBVIOUS
  <2>1. found \in Lists
    BY DEF ScanInv
  <2>2. found \in Seq(Range(found)) /\ found \in [1..Len(found) -> Garbage]
    BY <2>1, Records
  <2>3. Len(found) \in Nat \ {0}
    BY <2>2, EmptySeq
  <2> QED
    BY <2>2, <2>3, Records
<1>21. CASE NewRecords
  <2>1. /\ UNCHANGED <<call, queue, scan, scanFlags, scanCount, radio, found>>
        /\ loop = "new"
        /\ \/ scanResult' \in [1..scanCount -> Garbage] /\ loop' = "ap_records"
           \/ loop' = "reboot" /\ UNCHANGED scanResult
    BY <1>21 DEF NewRecords, joining
  <2>2. found # <<>> /\ scanCount = Len(found)
    BY <2>1 DEF ScanInv
  <2>3. CASE scanResult' \in [1..scanCount -> Garbage] /\ loop' = "ap_records"
    <3>1. scanResult' # Null /\ scanResult' \in [1..Len(found) -> Garbage]
      BY <1>r, <2>2, <2>3
    <3> QED
      BY <2>1, <2>2, <2>3, <3>1 DEF ScanInv, Complete, InScanDone
  <2>4. CASE loop' = "reboot" /\ UNCHANGED scanResult
    BY <2>1, <2>4 DEF ScanInv, Complete, InScanDone
  <2> QED
    BY <2>1, <2>3, <2>4
<1>22. CASE GetApRecords
  <2>1. /\ UNCHANGED <<call, queue, scan, scanFlags, radio, found>>
        /\ loop = "ap_records" /\ loop' = "idle"
        /\ scanCount' = Len(found) /\ scanResult' = found
    BY <1>22 DEF GetApRecords, joining
  <2>2. found # <<>>
    BY <2>1 DEF ScanInv
  <2>3. scanResult' # Null /\ scanResult' \in [1..Len(found) -> Garbage]
    BY <1>r, <2>1, <2>2
  <2> QED
    BY <2>1, <2>2, <2>3 DEF ScanInv, Complete, InScanDone
<1>19. CASE Restart
  BY <1>19, NothingQueued DEF Restart, NoScan, NoCall, ScanInv, Complete, InScanDone
<1>20. CASE UNCHANGED vars
  BY <1>20, ScanKept DEF vars, driver, ScanInv
<1>b. CASE ButtonHeld
  BY <1>b, ScanKept DEF ButtonHeld, driver, ScanInv
<1> QED
  BY <1>1, <1>4, <1>5, <1>6, <1>7, <1>8, <1>9, <1>10, <1>13, <1>14, <1>17, <1>18,
     <1>19, <1>20, <1>21, <1>22, <1>b
     DEF Next, Driver, Call, EventLoop

-----------------------------------------------------------------------------
LEMMA QueueInit == Init => QueueInv
BY NothingQueued, StationAssumption DEF Init, Rest, QueueInv

LEMMA QueueNext == Types /\ ScanInv /\ QueueInv /\ [Next]_vars => QueueInv'
<1> SUFFICES ASSUME Types, ScanInv, QueueInv, [Next]_vars PROVE QueueInv'
  OBVIOUS
<1> USE StationAssumption
<1>t. queue \in Seq(Events) /\ Len(queue) \in Nat
  BY DEF Types
<1>a. ASSUME NEW e \in Events, queue' = Append(queue, e),
             \/ e # "SCAN_DONE" /\ Len(queue) < MaxQueue
             \/ e = "SCAN_DONE" /\ ~Has(queue, "SCAN_DONE")
      PROVE  QueueInv'
  <2>1. /\ Len(queue') = Len(queue) + 1
        /\ \A i \in 1..Len(queue) : queue'[i] = queue[i]
        /\ queue'[Len(queue) + 1] = e
    BY <1>a, <1>t, AppendProperties
  <2>2. Has(queue', "SCAN_DONE") <=> Has(queue, "SCAN_DONE") \/ e = "SCAN_DONE"
    BY <1>a, <1>t, Appended
  <2>3. Len(queue') <= MaxQueue \/ (Len(queue') = MaxQueue + 1 /\ Has(queue', "SCAN_DONE"))
    BY <1>a, <1>t, <2>1, <2>2 DEF QueueInv
  <2>4. \A i, j \in 1..Len(queue') : queue'[i] = "SCAN_DONE" /\ queue'[j] = "SCAN_DONE" => i = j
    <3>1. CASE e # "SCAN_DONE"
      BY <1>t, <2>1, <3>1 DEF QueueInv
    <3>2. CASE \A i \in 1..Len(queue) : queue[i] # "SCAN_DONE"
      BY <1>t, <2>1, <3>2
    <3> QED
      BY <1>a, <3>1, <3>2 DEF Has
  <2> QED
    BY <2>3, <2>4 DEF QueueInv
<1>h. ASSUME queue # <<>>, queue' = Tail(queue) PROVE QueueInv'
  <2>1. /\ Len(queue') = Len(queue) - 1
        /\ \A i \in 1..Len(queue') : queue'[i] = queue[i + 1]
    BY <1>h, <1>t, Taken
  <2>2. \A i, j \in 1..Len(queue') : queue'[i] = "SCAN_DONE" /\ queue'[j] = "SCAN_DONE" => i = j
    <3> SUFFICES ASSUME NEW i \in 1..Len(queue'), NEW j \in 1..Len(queue'),
                        queue'[i] = "SCAN_DONE", queue'[j] = "SCAN_DONE"
                 PROVE  i = j
      OBVIOUS
    <3>1. i + 1 \in 1..Len(queue) /\ j + 1 \in 1..Len(queue)
      BY <1>t, <2>1
    <3>2. queue[i + 1] = "SCAN_DONE" /\ queue[j + 1] = "SCAN_DONE"
      BY <2>1
    <3>3. i + 1 = j + 1
      BY <3>1, <3>2 DEF QueueInv
    <3> QED
      BY <3>3
  <2> QED
    BY <1>t, <2>1, <2>2 DEF QueueInv
<1>u. ASSUME UNCHANGED queue PROVE QueueInv'
  BY <1>u DEF QueueInv
<1>e. /\ "GOT_IP" \in Events /\ "DISCONNECTED" \in Events /\ "SCAN_DONE" \in Events
      /\ "GOT_IP" # "SCAN_DONE" /\ "DISCONNECTED" # "SCAN_DONE"
  BY DEF Events, LinkEvents
<1>d. ASSUME esp_wifi_disconnect PROVE QueueInv'
  <2>1. \/ UNCHANGED queue
        \/ queue' = Append(queue, "DISCONNECTED") /\ Len(queue) < MaxQueue
    BY <1>d, DisconnectEffect
  <2> QED
    BY <1>a, <1>e, <1>u, <2>1
<1>1. CASE Associates \/ Fails \/ LosesNetwork
  <2>1. /\ queue' = Append(queue, "GOT_IP") \/ queue' = Append(queue, "DISCONNECTED")
        /\ Len(queue) < MaxQueue
    BY <1>1 DEF Associates, Fails, LosesNetwork, Posts
  <2> QED
    BY <1>a, <1>e, <2>1
<1>2. CASE ScanEndsInDriver
  BY <1>2, <1>a, <1>e DEF ScanEndsInDriver, ScanInv
<1>3. CASE StartScan \/ Scan
  BY <1>3, <1>u DEF StartScan, Scan, SetScanFlags, CountNetworks, ListNetworks, ScanReturns
<1>4. ASSUME NEW form \in Forms, ConnectWifi(form) PROVE QueueInv'
  BY <1>4, <1>d, <1>u DEF ConnectWifi
<1>5. CASE SetConfig
  BY <1>5, <1>d, <1>u DEF SetConfig
<1>6. CASE Connect \/ WaitSecond \/ Answer \/ Return
  BY <1>6, <1>u DEF Connect, WaitSecond, Answer, Return, driver
<1>7. CASE Disconnected \/ GotIP \/ ScanDone
  BY <1>7, <1>h DEF Disconnected, GotIP, ScanDone, NextEvent
<1>8. CASE Retry \/ SntpDone \/ GetApNum \/ NewRecords \/ GetApRecords
  BY <1>8, <1>u DEF Retry, SntpDone, GetApNum, NewRecords, GetApRecords, driver
<1>9. CASE Restart
  BY <1>9, NothingQueued DEF Restart, QueueInv
<1>10. CASE UNCHANGED vars
  BY <1>10, <1>u DEF vars, driver
<1>b. CASE ButtonHeld
  BY <1>b, <1>u DEF ButtonHeld, driver
<1> QED
  BY <1>1, <1>2, <1>3, <1>4, <1>5, <1>6, <1>7, <1>8, <1>9, <1>10, <1>b
     DEF Next, Driver, Call, EventLoop

-----------------------------------------------------------------------------
\* Actions that move the scan no further, and do not begin to handle its event.
LEMMA AnswerKept ==
  ASSUME AnswerInv, ScanAnswerIsTrue, UNCHANGED <<scan, scanFlags, found>>,
         InScanDone' => InScanDone, loop' # "reboot" => loop # "reboot"
  PROVE  AnswerInv' /\ ScanAnswerIsTrue'
BY DEF AnswerInv, ScanAnswerIsTrue, Complete

LEMMA AnswerInit == Init => AnswerInv /\ ScanAnswerIsTrue
BY DEF Init, NothingScanned, NoScan, AnswerInv, ScanAnswerIsTrue

\* What is listed when the number was that of the list.
LEMMA ListedInTime ==
  ASSUME ScanInv, AnswerInv, ListNetworks, ~scan.early
  PROVE  scan'.told = found
<1> USE StationAssumption
<1>1. /\ scan.n = Len(found) /\ Complete /\ ~InScanDone /\ loop # "reboot"
      /\ scan'.told = [i \in 1..scan.n |-> _getScanInfoByIndex(i)]
  BY DEF ListNetworks, AnswerInv, ScanInv
<1>2. scanResult = found \/ (found = <<>> /\ scanResult = Null)
  BY <1>1 DEF ScanInv
<1>3. CASE found = <<>>
  BY <1>1, <1>3
<1>4. CASE found # <<>>
  <2>1. found \in Lists /\ scanResult = found
    BY <1>2, <1>4 DEF ScanInv
  <2>2. found \in Seq(Range(found)) /\ scanResult # Null
    <3>1. found \in Seq(Range(found)) /\ found \in [1..Len(found) -> Garbage]
      BY <2>1, Records
    <3>2. Len(found) \in Nat \ {0}
      BY <1>4, <3>1, EmptySeq
    <3> QED
      BY <2>1, <3>1, <3>2, Records
  <2>3. \A i : _getScanInfoByIndex(i) = found[i]
    BY <2>1, <2>2 DEF _getScanInfoByIndex
  <2>4. scan'.told = [i \in 1..Len(found) |-> found[i]]
    BY <1>1, <2>3
  <2> QED
    BY <2>2, <2>4
<1> QED
  BY <1>3, <1>4

\* What is listed when it may not have been.
LEMMA ListedEarly ==
  ASSUME ScanInv, AnswerInv, ListNetworks
  PROVE  Len(scan'.told) \in {0, Len(found)}
<1>1. /\ scan.n \in {0, Len(found)}
      /\ scan'.told = [i \in 1..scan.n |-> _getScanInfoByIndex(i)]
  BY DEF ListNetworks, AnswerInv, ScanInv
<1>2. Len(found) \in Nat
  <2>1. found \in Lists \/ found = <<>>
    BY DEF ScanInv
  <2>2. found \in Lists => found \in Seq(Range(found))
    BY Records
  <2> QED
    BY <2>1, <2>2
<1> QED
  BY <1>1, <1>2

LEMMA AnswerNext ==
  Types /\ ScanInv /\ AnswerInv /\ ScanAnswerIsTrue /\ [Next]_vars
    => (AnswerInv /\ ScanAnswerIsTrue)'
<1> SUFFICES ASSUME Types, ScanInv, AnswerInv, ScanAnswerIsTrue, [Next]_vars
             PROVE  AnswerInv' /\ ScanAnswerIsTrue'
  OBVIOUS
<1>1. CASE Associates \/ Fails \/ LosesNetwork
  BY <1>1, AnswerKept DEF Associates, Fails, LosesNetwork, scanning, InScanDone
<1>2. CASE ScanEndsInDriver
  BY <1>2 DEF ScanEndsInDriver, AnswerInv, ScanAnswerIsTrue
<1>3. CASE StartScan
  <2>1. scan' = [scan EXCEPT !.at = "flags"] \/ scan' = [scan EXCEPT !.at = "told", !.n = -2]
    BY <1>3 DEF StartScan
  <2>2. \/ scan'.at = "flags"
        \/ scan'.at = "told" /\ scan'.n = -2
    BY <2>1 DEF ScanInv
  <2> QED
    BY <2>2 DEF AnswerInv, ScanAnswerIsTrue
<1>4. CASE SetScanFlags
  <2>1. scan'.at = "wait"
    BY <1>4 DEF SetScanFlags, ScanInv
  <2> QED
    BY <2>1 DEF AnswerInv, ScanAnswerIsTrue
<1>5. CASE CountNetworks
  <2>1. /\ scan' = [at |-> "list", n |-> scanCount, told |-> scan.told, early |-> InScanDone]
        /\ Complete /\ loop # "reboot" /\ UNCHANGED <<loop, scanFlags, found>>
    BY <1>5 DEF CountNetworks, ScanInv, Complete
  <2>2. scan'.early = InScanDone /\ Complete' = Complete /\ InScanDone' = InScanDone
    BY <2>1 DEF Complete, InScanDone
  <2> QED
    BY <2>1, <2>2 DEF AnswerInv, ScanAnswerIsTrue, ScanInv
<1>6. CASE ListNetworks
  <2>1. /\ scan'.at = "told" /\ scan'.n = scan.n /\ scan'.early = scan.early
        /\ UNCHANGED found /\ scan.at = "list"
    BY <1>6 DEF ListNetworks, ScanInv
  <2> QED
    BY <1>6, <2>1, ListedInTime, ListedEarly DEF AnswerInv, ScanAnswerIsTrue
<1>7. CASE ScanReturns \/ Restart
  BY <1>7 DEF ScanReturns, Restart, NoScan, AnswerInv, ScanAnswerIsTrue
<1>8. ASSUME NEW form \in Forms, ConnectWifi(form) PROVE AnswerInv' /\ ScanAnswerIsTrue'
  BY <1>8, AnswerKept DEF ConnectWifi, scanning, InScanDone
<1>9. CASE SetConfig \/ Connect
  BY <1>9, AnswerKept DEF SetConfig, Connect, scanning, InScanDone
<1>10. CASE WaitSecond \/ Answer \/ Return
  BY <1>10, AnswerKept DEF WaitSecond, Answer, Return, scanning, InScanDone
<1>11. CASE Disconnected \/ GotIP
  BY <1>11, AnswerKept DEF Disconnected, GotIP, NextEvent, scanning, InScanDone
<1>12. CASE Retry \/ SntpDone
  BY <1>12, AnswerKept DEF Retry, SntpDone, scanning, InScanDone
<1>13. CASE ScanDone
  <2>1. Has(queue, "SCAN_DONE")
    <3>1. queue # <<>> /\ Head(queue) = "SCAN_DONE" /\ queue \in Seq(Events)
      BY <1>13 DEF ScanDone, NextEvent, Types
    <3> QED
      BY <3>1, Taken
  <2>2. scan'.at = "wait"
    BY <1>13, <2>1 DEF ScanDone, ScanInv
  <2> QED
    BY <2>2 DEF AnswerInv, ScanAnswerIsTrue
<1>14. CASE GetApNum \/ NewRecords \/ GetApRecords
  BY <1>14, AnswerKept DEF GetApNum, NewRecords, GetApRecords, InScanDone
<1>15. CASE UNCHANGED vars
  BY <1>15, AnswerKept DEF vars, scanning, InScanDone
<1>b. CASE ButtonHeld
  BY <1>b, AnswerKept DEF ButtonHeld, scanning, InScanDone
<1> QED
  BY <1>1, <1>2, <1>3, <1>4, <1>5, <1>6, <1>7, <1>8, <1>9, <1>10, <1>11, <1>12, <1>13,
     <1>14, <1>15, <1>b
     DEF Next, Driver, Call, Scan, EventLoop

-----------------------------------------------------------------------------
LEMMA Invariant == Spec => []IInv
<1>1. Init => IInv
  BY TypesInit, JoinInit, LinkInit, FreshInit, ScanInit, QueueInit, AnswerInit DEF IInv
<1>2. IInv /\ [Next]_vars => IInv'
  BY TypesNext, JoinNext, LinkNext, FreshNext, ScanNext, QueueNext, AnswerNext DEF IInv
<1> QED
  BY <1>1, <1>2, PTL DEF Spec

\* Every reachable state of the station and of its scan has its types, and the
\* queue and the attempts their limits.
THEOREM TypeInvariant == Spec => []TypeOK
<1>1. IInv => TypeOK
  <2> SUFFICES ASSUME IInv PROVE TypeOK
    OBVIOUS
  <2> USE StationAssumption DEF IInv
  <2>1. queue \in Seq({"GOT_IP", "DISCONNECTED", "SCAN_DONE"}) /\ Len(queue) <= MaxQueue + 1
    <3>1. Events = {"GOT_IP", "DISCONNECTED", "SCAN_DONE"}
      BY DEF Events, LinkEvents
    <3> QED
      BY <3>1 DEF Types, QueueInv
  <2>2. /\ (link.state = "down") = (link.form = "none")
    BY DEF JoinInv
  <2>3. /\ scan.at \in {"idle", "flags", "wait", "list", "told"}
        /\ scanFlags \in [started : BOOLEAN, complete : BOOLEAN]
        /\ scanResult = Null => scanCount = 0 \/ loop \in {"new", "reboot"}
        /\ scanResult = Null \/ scanResult \in [1..Len(found) -> Garbage]
        /\ scanCount = 0 \/ scanCount = Len(found)
        /\ radio \in {"idle", "scanning"} /\ found \in Lists \cup {<<>>}
        /\ scan.at # "idle" => call.at = "idle"
    BY DEF ScanInv
  <2> QED
    BY <2>1, <2>2, <2>3 DEF Types, TypeOK
<1> QED
  BY <1>1, Invariant, PTL

\* Once the event loop has caught up with the driver, the connected flag says
\* what the link is.
THEOREM FlagTheorem == Spec => []FlagFollowsLink
<1>1. IInv => FlagFollowsLink
  BY NothingQueued DEF IInv, LinkInv, FlagFollowsLink
<1> QED
  BY <1>1, Invariant, PTL

\* An attempt that begins with the station at rest is answered truthfully.
THEOREM FirstAnswer == Spec => []FirstAnswerIsTrue
<1>1. IInv => FirstAnswerIsTrue
  BY DEF IInv, FreshInv, JoinInv, FirstAnswerIsTrue
<1> QED
  BY <1>1, Invariant, PTL

\* The page lists what its scan has found, or, if it read the number while
\* _scanDone was still at work, as many lines or none.
THEOREM ScanAnswer == Spec => []ScanAnswerIsTrue
<1>1. IInv => ScanAnswerIsTrue
  BY DEF IInv
<1> QED
  BY <1>1, Invariant, PTL
=============================================================================
