------------------------- MODULE ProvisioningProofs -------------------------
(***************************************************************************)
(* Proofs about module Provisioning: its type invariant, the invariant     *)
(* that a stored OPERATION mode comes with credentials that joined, and    *)
(* that provisioning is atomic, for every set of forms, brokers and button *)
(* tasks, whatever reads of the dangling pointer give and whichever writes *)
(* fail.                                                                   *)
(***************************************************************************)
EXTENDS Provisioning, TLAPS

-----------------------------------------------------------------------------
\* What the handlers store.

Values == Ssids \cup Pwds \cup BrokerValues \cup Modes \cup {"unset"}

\* A value that fits its key.
Fits(s) ==
  /\ s.key \in Keys
  /\ s.key = "sta_ssid" => s.val \in Ssids
  /\ s.key = "sta_pwd" => s.val \in Pwds
  /\ s.key = "boot_mode" => s.val \in {"CONFIG", "OPERATION"}
  /\ s.key \in BrokerKeys => s.val \in BrokerValues

\* The number of stores of each handler.
LEMMA StoresLength ==
  ASSUME NEW form
  PROVE  /\ Len(Stores("connect", form)) = 4
         /\ Len(Stores("setup", form)) = 4
         /\ Len(Stores("reset", form)) = 14
  BY DEF Stores, ConnectStores, SetupStores, restore

\* connect_wifi stores the pair, then the mode.
LEMMA ConnectStore ==
  ASSUME NEW form, NEW k \in 1..4
  PROVE  Stores("connect", form)[k] =
           CASE k = 1 -> Nvs("sta_ssid", form.ssid)
             [] k = 2 -> Nvs("sta_pwd", form.pwd)
             [] k = 3 -> Ram("boot_mode", "OPERATION")
             [] k = 4 -> Nvs("boot_mode", "OPERATION")
  BY DEF Stores, ConnectStores

\* setup_mqtt touches neither the credentials nor the mode.
LEMMA SetupStore ==
  ASSUME NEW form, NEW k \in 1..4
  PROVE  /\ Stores("setup", form)[k].key \in BrokerKeys
         /\ Stores("setup", form)[k].val = form
  BY DEF Stores, SetupStores, Nvs, BrokerKeys

\* A factory reset stores factory values only.
LEMMA ResetStore ==
  ASSUME NEW form, NEW k \in 1..14
  PROVE  LET s == Stores("reset", form)[k]
         IN  s.key \in Keys /\ s.val = Default[s.key]
  <1>1. Stores("reset", form) = restore
    BY DEF Stores
  <1>2. /\ Default["sta_ssid"] = Empty /\ Default["sta_pwd"] = Empty
        /\ Default["boot_mode"] = "CONFIG"
        /\ \A b \in BrokerKeys : Default[b] = Factory
    BY DEF Default, Keys, CredentialKeys, BrokerKeys
  <1>3. restore[k].key \in Keys /\ restore[k].val = Default[restore[k].key]
    BY <1>2, SMTT(30) DEF restore, Ram, Nvs, Keys, CredentialKeys, BrokerKeys
  <1> QED BY <1>1, <1>3

\* Every store of a handler fits its key.
LEMMA StoreFits ==
  ASSUME NEW op \in {"connect", "setup", "reset"}, NEW form,
         op = "connect" => form \in Forms,
         op = "setup" => form \in Brokers,
         NEW k \in 1..Len(Stores(op, form))
  PROVE  Fits(Stores(op, form)[k])
  <1>1. CASE op = "connect"
    <2>1. k \in 1..4
      BY <1>1, StoresLength
    <2>2. form.ssid \in Ssids /\ form.pwd \in Pwds
      BY <1>1 DEF Ssids, Pwds
    <2>3. k = 1 \/ k = 2 \/ k = 3 \/ k = 4
      BY <2>1
    <2>4. Stores(op, form)[k] \in {Nvs("sta_ssid", form.ssid),
                                  Nvs("sta_pwd", form.pwd),
                                  Ram("boot_mode", "OPERATION"),
                                  Nvs("boot_mode", "OPERATION")}
      BY <1>1, <2>1, <2>3, ConnectStore
    <2>5. ASSUME NEW s \in {Nvs("sta_ssid", form.ssid), Nvs("sta_pwd", form.pwd),
                           Ram("boot_mode", "OPERATION"),
                           Nvs("boot_mode", "OPERATION")}
          PROVE  Fits(s)
      BY <2>2, <2>5 DEF Fits, Ram, Nvs, Keys, CredentialKeys, BrokerKeys
    <2> QED
      BY <2>4, <2>5
  <1>2. CASE op = "setup"
    <2>1. k \in 1..4
      BY <1>2, StoresLength
    <2> QED
      BY <1>2, <2>1, SetupStore
         DEF Fits, Keys, CredentialKeys, BrokerKeys, BrokerValues
  <1>3. CASE op = "reset"
    <2>1. k \in 1..14
      BY <1>3, StoresLength
    <2> QED
      BY <1>3, <2>1, ResetStore
         DEF Fits, Default, Keys, CredentialKeys, BrokerKeys, BrokerValues,
             Ssids, Pwds
  <1> QED BY <1>1, <1>2, <1>3

-----------------------------------------------------------------------------
\* Type correctness.

\* Storing a value under a key it fits keeps a store well typed.
LEMMA UpdateOK ==
  ASSUME NEW modes, NEW ports, NEW store, StoredOK(store, modes, ports),
         NEW s, Fits(s), {"CONFIG", "OPERATION"} \subseteq modes,
         BrokerValues \subseteq ports
  PROVE  StoredOK([store EXCEPT ![s.key] = s.val], modes, ports)
  <1> DEFINE V == Ssids \cup Pwds \cup BrokerValues \cup modes \cup ports
             new == [store EXCEPT ![s.key] = s.val]
  <1>1. s.key \in Keys /\ s.val \in V
    BY DEF Fits, Keys, CredentialKeys
  <1>2. store \in [Keys -> V]
    BY DEF StoredOK
  <1>3. new \in [Keys -> V]
    BY <1>1, <1>2
  <1>4. \A k \in Keys : new[k] = IF k = s.key THEN s.val ELSE store[k]
    BY <1>2
  <1> HIDE DEF V, new
  <1>5. /\ new["sta_ssid"] \in Ssids
        /\ new["sta_pwd"] \in Pwds
        /\ new["boot_mode"] \in modes
    BY <1>4 DEF StoredOK, Fits, Keys, CredentialKeys
  <1>6. /\ \A k \in BrokerKeys \ {"mqtt_port"} : new[k] \in BrokerValues
        /\ new["mqtt_port"] \in ports
    BY <1>4 DEF StoredOK, Fits, Keys, BrokerKeys
  <1> QED BY <1>3, <1>5, <1>6 DEF StoredOK, V, new

LEMMA DefaultOK ==
  /\ StoredOK(Default, Modes, BrokerValues \cup {"OTHER"})
  /\ StoredOK([Default EXCEPT !["boot_mode"] = "unset"],
              {"unset", "CONFIG", "OPERATION"}, BrokerValues)
  <1>1. /\ Default \in [Keys -> {Empty, Factory, "CONFIG"}]
        /\ Default["sta_ssid"] = Empty /\ Default["sta_pwd"] = Empty
        /\ Default["boot_mode"] = "CONFIG"
        /\ \A b \in BrokerKeys : Default[b] = Factory
    BY DEF Default, Keys, CredentialKeys, BrokerKeys
  <1>2. Empty \in Ssids /\ Empty \in Pwds /\ Factory \in BrokerValues
    BY DEF Ssids, Pwds, BrokerValues
  <1>3. /\ "sta_ssid" \in Keys /\ "sta_pwd" \in Keys /\ "boot_mode" \in Keys
        /\ BrokerKeys \subseteq Keys /\ "mqtt_port" \in BrokerKeys
        /\ "boot_mode" \notin BrokerKeys
    BY DEF Keys, CredentialKeys, BrokerKeys
  <1>4. StoredOK(Default, Modes, BrokerValues \cup {"OTHER"})
    BY <1>1, <1>2, <1>3 DEF StoredOK, Modes
  <1>5. StoredOK([Default EXCEPT !["boot_mode"] = "unset"],
                 {"unset", "CONFIG", "OPERATION"}, BrokerValues)
    BY <1>1, <1>2, <1>3 DEF StoredOK
  <1> QED BY <1>4, <1>5

\* A restart leaves a well-typed device.
LEMMA RestartType ==
  ASSUME TypeOK, Restart
  PROVE  TypeOK'
  <1>1. FlashOK'
    BY DEF TypeOK, Restart, FlashOK
  <1>2. CfgOK'
    BY DefaultOK DEF Restart, CfgOK
  <1>3. WebOK'
    BY DEF Restart, IdleWeb, NoForm, WebOK
  <1>4. ButtonOK'
    BY DEF TypeOK, Restart, ButtonOK
  <1> QED BY <1>1, <1>2, <1>3, <1>4 DEF TypeOK, Restart

\* What is read through the dangling pointer at start has the type of RAM.
LEMMA BootType ==
  ASSUME TypeOK, Boot
  PROVE  TypeOK'
  <1>1. PICK mode \in ReadInteger("boot_mode"), port \in ReadInteger("mqtt_port") :
          /\ cfg' = [flash EXCEPT !["boot_mode"] = mode, !["mqtt_port"] = port]
          /\ service' = CASE mode = "CONFIG"    -> "web"
                          [] mode = "OPERATION" -> "mqtt"
                          [] OTHER              -> "none"
    BY DEF Boot
  <1>2. /\ Default["boot_mode"] = "CONFIG" /\ Default["mqtt_port"] = Factory
        /\ "boot_mode" \in Keys /\ "mqtt_port" \in Keys
    BY DEF Default, Keys, CredentialKeys, BrokerKeys
  <1>3. FlashOK
    BY DEF TypeOK
  <1>4. mode \in Modes
    BY <1>2, <1>3 DEF ReadInteger, FlashOK, StoredOK, Modes
  <1>5. port \in BrokerValues \cup {"OTHER"}
    BY <1>2, <1>3 DEF ReadInteger, FlashOK, StoredOK, BrokerValues
  <1>6. CfgOK'
    <2> DEFINE V == Ssids \cup Pwds \cup BrokerValues \cup Modes
                      \cup (BrokerValues \cup {"OTHER"})
               F == Ssids \cup Pwds \cup BrokerValues
                      \cup {"unset", "CONFIG", "OPERATION"} \cup BrokerValues
    <2>1. flash \in [Keys -> F]
      BY <1>3 DEF FlashOK, StoredOK
    <2>2. \A k \in Keys : cfg'[k] = IF k = "mqtt_port" THEN port
                                   ELSE IF k = "boot_mode" THEN mode ELSE flash[k]
      BY <1>1, <2>1
    <2>3. /\ cfg'["sta_ssid"] \in Ssids
          /\ cfg'["sta_pwd"] \in Pwds
          /\ cfg'["boot_mode"] \in Modes
      BY <1>3, <1>4, <2>2 DEF FlashOK, StoredOK, Keys, CredentialKeys
    <2>4. /\ \A k \in BrokerKeys \ {"mqtt_port"} : cfg'[k] \in BrokerValues
          /\ cfg'["mqtt_port"] \in BrokerValues \cup {"OTHER"}
      BY <1>3, <1>5, <2>2 DEF FlashOK, StoredOK, Keys, BrokerKeys
    <2>5. \A k \in Keys : cfg'[k] \in V
      BY <2>3, <2>4 DEF Keys, CredentialKeys, BrokerKeys
    <2>6. cfg' \in [Keys -> V]
      <3>1. DOMAIN cfg' = Keys /\ cfg' = [k \in Keys |-> cfg'[k]]
        BY <1>1, <2>1
      <3> QED BY <3>1, <2>5
    <2> QED BY <2>3, <2>4, <2>6 DEF CfgOK, StoredOK
  <1>7. service' \in {"off", "web", "mqtt", "none"}
    BY <1>1
  <1>8. web.op = "none"
    BY DEF Boot, TypeOK, WebOK
  <1>9. FlashOK' /\ WebOK' /\ ButtonOK'
    BY <1>8 DEF Boot, TypeOK, FlashOK, WebOK, ButtonOK
  <1> QED BY <1>6, <1>7, <1>9 DEF Boot, TypeOK

\* A store of a handler is one that fits.
LEMMA WebStoreFits ==
  ASSUME TypeOK, WebStore
  PROVE  Fits(Stores(web.op, web.form)[web.at])
  <1>1. /\ web.op \in {"connect", "setup", "reset"}
        /\ web.at \in 1..Len(Stores(web.op, web.form))
    BY DEF WebStore
  <1>2. /\ web.op = "connect" => web.form \in Forms
        /\ web.op = "setup" => web.form \in Brokers
    BY DEF TypeOK, WebOK
  <1> QED BY <1>1, <1>2, StoreFits

Webs == [op : {"none", "join", "connect", "setup", "reset"},
         form : Forms \cup Brokers \cup {NoForm},
         at : 0..15, ok : BOOLEAN, failed : BOOLEAN]

\* The mongoose task idle again.
LEMMA IdleType ==
  ASSUME web' = IdleWeb
  PROVE  WebOK'
  <1>1. web' = [op |-> "none", form |-> NoForm, at |-> 0, ok |-> TRUE,
                failed |-> FALSE]
    BY DEF IdleWeb
  <1>2. web' \in Webs /\ web'.op = "none"
    BY <1>1 DEF Webs
  <1> QED BY <1>2 DEF WebOK, Webs

LEMMA WebStoreType ==
  ASSUME TypeOK, WebStore
  PROVE  TypeOK'
  <1> DEFINE s == Stores(web.op, web.form)[web.at]
             n == Len(Stores(web.op, web.form))
  <1>1. Fits(s)
    BY WebStoreFits
  <1>2. /\ web.op \in {"connect", "setup", "reset"}
        /\ web.at \in 1..n
        /\ StoreRam(s) \/ writeCF(s)
        /\ UNCHANGED <<Other, joined>>
    BY DEF WebStore
  <1>3. n \in {4, 14}
    BY <1>2, StoresLength
  <1>4. FlashOK'
    <2>1. FlashOK
      BY DEF TypeOK
    <2>2. flash' = flash \/ flash' = [flash EXCEPT ![s.key] = s.val]
      BY <1>2 DEF StoreRam, writeCF
    <2>3. StoredOK([flash EXCEPT ![s.key] = s.val],
                   {"unset", "CONFIG", "OPERATION"}, BrokerValues)
      BY <1>1, <2>1, UpdateOK DEF FlashOK
    <2> QED BY <2>1, <2>2, <2>3 DEF FlashOK
  <1>5. CfgOK'
    <2>1. CfgOK
      BY DEF TypeOK
    <2>2. cfg' = cfg \/ cfg' = [cfg EXCEPT ![s.key] = s.val]
      BY <1>2 DEF StoreRam, writeCF
    <2>3. StoredOK([cfg EXCEPT ![s.key] = s.val],
                   Modes, BrokerValues \cup {"OTHER"})
      BY <1>1, <2>1, UpdateOK DEF CfgOK, Modes
    <2> QED BY <2>1, <2>2, <2>3 DEF CfgOK
  <1>6. WebOK'
    <2>1. WebOK
      BY DEF TypeOK
    <2>2. web = [op |-> web.op, form |-> web.form, at |-> web.at,
                 ok |-> web.ok, failed |-> web.failed]
      BY <2>1 DEF WebOK
    <2>3. \E ok \in BOOLEAN, failed \in BOOLEAN :
            web' = [op |-> web.op, form |-> web.form, at |-> web.at + 1,
                    ok |-> ok, failed |-> failed]
      <3>1. CASE StoreRam(s)
        <4>1. web' = [op |-> web.op, form |-> web.form, at |-> web.at + 1,
                      ok |-> web.ok, failed |-> web.failed]
          BY <2>2, <3>1 DEF StoreRam
        <4> QED BY <2>1, <4>1 DEF WebOK
      <3>2. CASE writeCF(s)
        <4>1. PICK saved \in {TRUE} \cup {~NvsErrors} :
                web' = [web EXCEPT !.at = @ + 1, !.ok = saved,
                                   !.failed = @ \/ ~saved]
          BY <3>2 DEF writeCF
        <4>2. web' = [op |-> web.op, form |-> web.form, at |-> web.at + 1,
                      ok |-> saved, failed |-> web.failed \/ ~saved]
          BY <2>2, <4>1
        <4>3. saved \in BOOLEAN /\ (web.failed \/ ~saved) \in BOOLEAN
          BY ProvisioningAssumption
        <4> QED BY <4>2, <4>3
      <3> QED BY <1>2, <3>1, <3>2
    <2>4. web.at + 1 \in 0..15 /\ web.at + 1 \in 1..n + 1
      <3>1. web.at \in 1..n
        BY <1>2
      <3> HIDE DEF n
      <3> QED BY <1>3, <3>1
    <2>5. /\ web.op \in {"none", "join", "connect", "setup", "reset"}
          /\ web.form \in Forms \cup Brokers \cup {NoForm}
          /\ service' = "web"
          /\ web.op \in {"join", "connect"} => web.form \in Forms
          /\ web.op = "setup" => web.form \in Brokers
      BY <1>2, <2>1 DEF WebOK, Other
    <2>6. /\ web' \in Webs /\ web'.op = web.op /\ web'.form = web.form
          /\ web'.at = web.at + 1
      BY <2>3, <2>4, <2>5 DEF Webs
    <2> HIDE DEF n
    <2>7. web'.at \in 1..n + 1 /\ n = Len(Stores(web'.op, web'.form))
      BY <2>4, <2>6 DEF n
    <2> QED BY <2>5, <2>6, <2>7 DEF WebOK, Webs
  <1>7. damaged' \in BOOLEAN
    <2>1. CASE StoreRam(s)
      BY <2>1 DEF StoreRam, TypeOK
    <2>2. CASE writeCF(s)
      <3>1. PICK saved \in {TRUE} \cup {~NvsErrors} : damaged' = Damage(s, saved)
        BY <2>2 DEF writeCF
      <3>2. damaged \in BOOLEAN /\ web.failed \in BOOLEAN
        BY DEF TypeOK, WebOK
      <3>3. Damage(s, saved) \in BOOLEAN
        <4>1. Damage(s, saved) \in {damaged, web.failed,
                damaged \/ ~saved \/ flash["boot_mode"] = "OPERATION"}
          BY DEF Damage
        <4>2. (damaged \/ ~saved \/ flash["boot_mode"] = "OPERATION") \in BOOLEAN
          OBVIOUS
        <4> QED BY <3>2, <4>1, <4>2
      <3> QED BY <3>1, <3>3
    <2> QED BY <1>2, <2>1, <2>2
  <1> QED BY <1>2, <1>4, <1>5, <1>6, <1>7 DEF TypeOK, Other, ButtonOK

\* The other steps of the mongoose task.
LEMMA WebType ==
  ASSUME TypeOK,
         \/ \E form \in Forms : ConnectWifi(form)
         \/ \E broker \in Brokers : SetupMqtt(broker)
         \/ FactoryReset \/ RebootDevice \/ Joined \/ WebDone
  PROVE  TypeOK'
  <1>1. ASSUME NEW form \in Forms, ConnectWifi(form) PROVE TypeOK'
    <2>1. web' = [op |-> "join", form |-> form, at |-> 0, ok |-> TRUE,
                  failed |-> FALSE]
      BY <1>1 DEF ConnectWifi, IdleWeb
    <2>2. service' = "web"
      BY <1>1 DEF ConnectWifi, WebIdle, Other
    <2>3. web' \in Webs /\ web'.op = "join" /\ web'.form = form
      BY <2>1 DEF Webs
    <2>4. WebOK'
      BY <2>2, <2>3 DEF WebOK, Webs
    <2> QED BY <1>1, <2>4 DEF ConnectWifi, Other, TypeOK, FlashOK, CfgOK, ButtonOK
  <1>2. ASSUME NEW broker \in Brokers, SetupMqtt(broker) PROVE TypeOK'
    <2>1. web' = [op |-> "setup", form |-> broker, at |-> 1, ok |-> TRUE,
                  failed |-> FALSE]
      BY <1>2 DEF SetupMqtt, IdleWeb
    <2>2. service' = "web"
      BY <1>2 DEF SetupMqtt, WebIdle, Other
    <2>3. /\ web' \in Webs
          /\ web'.op = "setup" /\ web'.form = broker /\ web'.at = 1
      BY <2>1 DEF Webs
    <2>4. 1 \in 1..Len(Stores("setup", broker)) + 1
      BY StoresLength
    <2>5. WebOK'
      BY <2>2, <2>3, <2>4 DEF WebOK, Webs
    <2> QED BY <1>2, <2>5 DEF SetupMqtt, Other, TypeOK, FlashOK, CfgOK, ButtonOK
  <1>3. CASE FactoryReset
    <2>1. web' = [op |-> "reset", form |-> NoForm, at |-> 1, ok |-> TRUE,
                  failed |-> FALSE]
      BY <1>3 DEF FactoryReset, IdleWeb
    <2>2. service' = "web"
      BY <1>3 DEF FactoryReset, WebIdle, Other
    <2>3. /\ web' \in Webs
          /\ web'.op = "reset" /\ web'.form = NoForm /\ web'.at = 1
      BY <2>1 DEF Webs
    <2>4. 1 \in 1..Len(Stores("reset", NoForm)) + 1
      BY StoresLength
    <2>5. WebOK'
      BY <2>2, <2>3, <2>4 DEF WebOK, Webs
    <2> QED BY <1>3, <2>5 DEF FactoryReset, Other, TypeOK, FlashOK, CfgOK, ButtonOK
  <1>4. CASE RebootDevice
    BY <1>4 DEF RebootDevice, TypeOK, FlashOK, CfgOK, WebOK, ButtonOK
  <1>5. CASE Joined
    <2>1. /\ web.form \in Forms /\ service = "web" /\ service' = "web"
          /\ web = [op |-> web.op, form |-> web.form, at |-> web.at,
                    ok |-> web.ok, failed |-> web.failed]
          /\ web.ok \in BOOLEAN /\ web.failed \in BOOLEAN
      BY <1>5 DEF Joined, TypeOK, WebOK, Other
    <2>2. WebOK' /\ joined' \subseteq Forms
      <3>1. CASE web' = IdleWeb /\ UNCHANGED joined
        BY <3>1, IdleType DEF TypeOK
      <3>2. CASE /\ joined' = joined \cup {web.form}
                 /\ web' = [web EXCEPT !.op = "connect", !.at = 1]
        <4>1. web' = [op |-> "connect", form |-> web.form, at |-> 1,
                      ok |-> web.ok, failed |-> web.failed]
          BY <2>1, <3>2
        <4>2. 1 \in 1..Len(Stores("connect", web.form)) + 1
          BY StoresLength
        <4>3. /\ web' \in Webs
              /\ web'.op = "connect" /\ web'.form = web.form /\ web'.at = 1
          BY <2>1, <4>1 DEF Webs
        <4>4. WebOK'
          BY <2>1, <4>2, <4>3 DEF WebOK, Webs
        <4> QED BY <2>1, <3>2, <4>4 DEF TypeOK
      <3> QED BY <1>5, <3>1, <3>2 DEF Joined
    <2> QED BY <1>5, <2>2 DEF Joined, Other, TypeOK, FlashOK, CfgOK, ButtonOK
  <1>6. CASE WebDone
    <2>1. WebOK'
      BY <1>6, IdleType DEF WebDone
    <2>2. countdown' \in BOOLEAN
      BY <1>6 DEF WebDone, TypeOK
    <2> QED BY <1>6, <2>1, <2>2 DEF WebDone, TypeOK, FlashOK, CfgOK, ButtonOK
  <1> QED BY <1>1, <1>2, <1>3, <1>4, <1>5, <1>6

\* The button and its tasks.
LEMMA ButtonType ==
  ASSUME TypeOK,
         \/ Press \/ Release
         \/ \E t \in ButtonTasks : gotoConfigMode(t)
  PROVE  TypeOK'
  <1>1. CASE Press
    <2>1. ButtonOK'
      BY <1>1 DEF Press, TypeOK, ButtonOK
    <2> QED BY <1>1, <2>1 DEF Press, Rest, TypeOK, FlashOK, CfgOK, WebOK
  <1>2. CASE Release
    <2>1. ButtonOK'
      BY <1>2 DEF Release, TypeOK, ButtonOK
    <2> QED BY <1>2, <2>1 DEF Release, Rest, TypeOK, FlashOK, CfgOK, WebOK
  <1>3. ASSUME NEW t \in ButtonTasks,
               Held(t) \/ LoadCount(t) \/ StoreCount(t) \/ ForceConfigWait(t)
        PROVE  TypeOK'
    <2>1. ButtonOK'
      BY <1>3 DEF Held, LoadCount, StoreCount, ForceConfigWait, TypeOK, ButtonOK
    <2> QED BY <1>3, <2>1 DEF Held, LoadCount, StoreCount, ForceConfigWait, Rest,
                              TypeOK, FlashOK, CfgOK, WebOK
  <1>4. ASSUME NEW t \in ButtonTasks, ForceConfigRam(t) \/ ForceConfigNvs(t)
        PROVE  TypeOK'
    <2> DEFINE s == Nvs("boot_mode", "CONFIG")
    <2>1. Fits(s) /\ s.key = "boot_mode" /\ s.val = "CONFIG"
      BY DEF Fits, Nvs, Keys, BrokerKeys
    <2> HIDE DEF s
    <2>2. FlashOK'
      <3>1. StoredOK([flash EXCEPT !["boot_mode"] = "CONFIG"],
                     {"unset", "CONFIG", "OPERATION"}, BrokerValues)
        BY <2>1, UpdateOK DEF TypeOK, FlashOK
      <3> QED BY <1>4, <3>1 DEF ForceConfigRam, ForceConfigNvs, TypeOK, FlashOK
    <2>3. CfgOK'
      <3>1. StoredOK([cfg EXCEPT !["boot_mode"] = "CONFIG"],
                     Modes, BrokerValues \cup {"OTHER"})
        BY <2>1, UpdateOK DEF TypeOK, CfgOK, Modes
      <3> QED BY <1>4, <3>1 DEF ForceConfigRam, ForceConfigNvs, TypeOK, CfgOK
    <2>4. ButtonOK'
      BY <1>4 DEF ForceConfigRam, ForceConfigNvs, TypeOK, ButtonOK
    <2> QED BY <1>4, <2>2, <2>3, <2>4
            DEF ForceConfigRam, ForceConfigNvs, Rest, TypeOK, WebOK
  <1>5. ASSUME NEW t \in ButtonTasks, Released(t) \/ ForceConfigRestart(t)
        PROVE  TypeOK'
    BY <1>5, RestartType DEF Released, ForceConfigRestart
  <1> QED BY <1>1, <1>2, <1>3, <1>4, <1>5 DEF gotoConfigMode

\* Every variable keeps its type, whatever the forms, brokers, button tasks,
\* pointer reads and failing writes.
THEOREM TypeInvariant == Spec => []TypeOK
  <1>1. Init => TypeOK
    <2> SUFFICES ASSUME Init PROVE TypeOK
      OBVIOUS
    <2>1. FlashOK /\ CfgOK
      BY DefaultOK DEF Init, FlashOK, CfgOK
    <2>2. WebOK
      BY DEF Init, WebOK, IdleWeb, NoForm
    <2> QED BY <2>1, <2>2 DEF Init, TypeOK, ButtonOK
  <1>2. TypeOK /\ [Next]_vars => TypeOK'
    <2> SUFFICES ASSUME TypeOK, [Next]_vars PROVE TypeOK'
      OBVIOUS
    <2>1. CASE Boot
      BY <2>1, BootType
    <2>2. CASE PowerCut \/ rebootTask
      BY <2>2, RestartType DEF PowerCut, rebootTask
    <2>3. CASE WebStore
      BY <2>3, WebStoreType
    <2>4. CASE \/ \E form \in Forms : ConnectWifi(form)
               \/ \E broker \in Brokers : SetupMqtt(broker)
               \/ FactoryReset \/ RebootDevice \/ Joined \/ WebDone
      BY <2>4, WebType
    <2>5. CASE Press \/ Release \/ \E t \in ButtonTasks : gotoConfigMode(t)
      BY <2>5, ButtonType
    <2>6. CASE UNCHANGED vars
      BY <2>6 DEF vars, TypeOK, FlashOK, CfgOK, WebOK, ButtonOK
    <2> QED BY <2>1, <2>2, <2>3, <2>4, <2>5, <2>6 DEF Next, WebTask
  <1> QED BY <1>1, <1>2, PTL DEF Spec

-----------------------------------------------------------------------------
\* The credentials of a provisioned device.

\* Only connect_wifi stores OPERATION, after both credentials.
LEMMA OnlyConnectProvisions ==
  ASSUME TypeOK, WebStore,
         Stores(web.op, web.form)[web.at].key = "boot_mode",
         Stores(web.op, web.form)[web.at].val = "OPERATION"
  PROVE  web.op = "connect" /\ web.at \in {3, 4}
  <1>1. /\ web.op \in {"connect", "setup", "reset"}
        /\ web.at \in 1..Len(Stores(web.op, web.form))
    BY DEF WebStore
  <1>2. CASE web.op = "connect"
    <2>1. web.at \in 1..4
      BY <1>1, <1>2, StoresLength
    <2>2. /\ Stores("connect", web.form)[1] = Nvs("sta_ssid", web.form.ssid)
          /\ Stores("connect", web.form)[2] = Nvs("sta_pwd", web.form.pwd)
      BY DEF Stores, ConnectStores
    <2>3. web.at # 1 /\ web.at # 2
      BY <1>2, <2>2 DEF Nvs
    <2> QED BY <1>2, <2>1, <2>3
  <1>3. CASE web.op = "setup"
    <2>1. web.at \in 1..4
      BY <1>1, <1>3, StoresLength
    <2> QED BY <1>3, <2>1, SetupStore DEF BrokerKeys
  <1>4. CASE web.op = "reset"
    <2>1. web.at \in 1..14
      BY <1>1, <1>4, StoresLength
    <2>2. Default["boot_mode"] = "CONFIG"
      BY DEF Default, Keys, CredentialKeys, BrokerKeys
    <2> QED BY <1>4, <2>1, <2>2, ResetStore
  <1> QED BY <1>1, <1>2, <1>3, <1>4

\* When it does, both credentials in flash are those of a form that joined.
LEMMA ProvisionedPair ==
  ASSUME IInv, web.op = "connect", web.at \in {3, 4}, ~web.failed
  PROVE  StoredForm \in joined
  <1>1. web.form \in joined /\ web.form \in Forms
    BY DEF IInv, ConnectInProgress, TypeOK, WebOK
  <1>2. flash["sta_ssid"] = web.form.ssid /\ flash["sta_pwd"] = web.form.pwd
    BY DEF IInv, ConnectInProgress
  <1>3. web.form = [ssid |-> web.form.ssid, pwd |-> web.form.pwd]
    BY <1>1, ProvisioningAssumption
  <1> QED BY <1>1, <1>2, <1>3 DEF StoredForm

\* A store goes to RAM, to flash, or is lost where writes may fail.
ToRam == /\ flash' = flash /\ (damaged' <=> damaged)
         /\ (web'.failed <=> web.failed)

Saved(s) == /\ flash' = [flash EXCEPT ![s.key] = s.val]
            /\ (web'.failed <=> web.failed)
            /\ (damaged' <=> Damage(s, TRUE))

Lost(s) == /\ NvsErrors /\ flash' = flash /\ web'.failed
           /\ (damaged' <=> Damage(s, FALSE))

LEMMA WebStoreEffect ==
  ASSUME TypeOK, WebStore,
         NEW s, s = Stores(web.op, web.form)[web.at]
  PROVE  /\ web'.op = web.op /\ web'.form = web.form /\ web'.at = web.at + 1
         /\ \/ s.to = "ram" /\ ToRam
            \/ s.to = "nvs" /\ (Saved(s) \/ Lost(s))
  <1>1. /\ web \in Webs /\ damaged \in BOOLEAN /\ web.failed \in BOOLEAN
        /\ web = [op |-> web.op, form |-> web.form, at |-> web.at,
                  ok |-> web.ok, failed |-> web.failed]
    BY DEF TypeOK, WebOK, Webs
  <1>2. StoreRam(s) \/ writeCF(s)
    BY DEF WebStore
  <1>3. CASE StoreRam(s)
    <2>1. web' = [op |-> web.op, form |-> web.form, at |-> web.at + 1,
                  ok |-> web.ok, failed |-> web.failed]
      BY <1>1, <1>3 DEF StoreRam
    <2> QED BY <1>3, <2>1 DEF StoreRam, ToRam
  <1>4. CASE writeCF(s)
    <2>1. PICK saved \in {TRUE} \cup {~NvsErrors} :
            /\ flash' = IF saved THEN [flash EXCEPT ![s.key] = s.val] ELSE flash
            /\ web' = [web EXCEPT !.at = @ + 1, !.ok = saved,
                                  !.failed = @ \/ ~saved]
            /\ damaged' = Damage(s, saved)
      BY <1>4 DEF writeCF
    <2>2. web' = [op |-> web.op, form |-> web.form, at |-> web.at + 1,
                  ok |-> saved, failed |-> web.failed \/ ~saved]
      BY <1>1, <2>1
    <2>3. web'.op = web.op /\ web'.form = web.form /\ web'.at = web.at + 1
      BY <2>2
    <2>4. web'.failed = (web.failed \/ ~saved)
      BY <2>2
    <2>5. saved = TRUE \/ (saved = FALSE /\ NvsErrors)
      BY ProvisioningAssumption
    <2>6. CASE saved = TRUE
      <3>1. web'.failed <=> web.failed
        BY <2>4, <2>6
      <3>2. /\ flash' = [flash EXCEPT ![s.key] = s.val]
            /\ damaged' = Damage(s, TRUE)
        BY <2>1, <2>6
      <3> QED BY <1>4, <2>3, <3>1, <3>2 DEF writeCF, Saved
    <2>7. CASE saved = FALSE /\ NvsErrors
      <3>1. web'.failed
        BY <2>4, <2>7
      <3>2. flash' = flash /\ damaged' = Damage(s, FALSE)
        BY <2>1, <2>7
      <3> QED BY <1>4, <2>3, <2>7, <3>1, <3>2 DEF writeCF, Lost
    <2> QED BY <2>5, <2>6, <2>7
  <1> QED BY <1>2, <1>3, <1>4

\* The bookkeeping of a connect under way survives each of its stores.
LEMMA ConnectStoreStep ==
  ASSUME IInv, WebStore
  PROVE  ConnectInProgress' /\ FailuresAreErrors'
  <1> DEFINE s == Stores(web.op, web.form)[web.at]
  <1>1. /\ web'.op = web.op /\ web'.form = web.form /\ web'.at = web.at + 1
        /\ \/ s.to = "ram" /\ ToRam
           \/ s.to = "nvs" /\ (Saved(s) \/ Lost(s))
    BY WebStoreEffect DEF IInv
  <1>2. FailuresAreErrors'
    BY <1>1 DEF IInv, FailuresAreErrors, ToRam, Saved, Lost
  <1>3. ASSUME web.op = "connect"
        PROVE  /\ web'.form \in joined'
               /\ web'.at > 1 /\ ~web'.failed => flash'["sta_ssid"] = web'.form.ssid
               /\ web'.at > 2 /\ ~web'.failed => flash'["sta_pwd"] = web'.form.pwd
    <2>1. web.at \in 1..4
      BY <1>3, StoresLength DEF WebStore
    <2>2. web.form \in joined /\ web'.form \in joined'
      BY <1>1, <1>3 DEF IInv, ConnectInProgress, WebStore
    <2>3. /\ web.at > 1 /\ ~web.failed => flash["sta_ssid"] = web.form.ssid
          /\ web.at > 2 /\ ~web.failed => flash["sta_pwd"] = web.form.pwd
      BY <1>3 DEF IInv, ConnectInProgress
    <2>4. /\ web.at = 1 => s = Nvs("sta_ssid", web.form.ssid)
          /\ web.at = 2 => s = Nvs("sta_pwd", web.form.pwd)
          /\ web.at = 3 => s = Ram("boot_mode", "OPERATION")
          /\ web.at = 4 => s = Nvs("boot_mode", "OPERATION")
      BY <1>3 DEF Stores, ConnectStores
    <2>5. DOMAIN flash = Keys /\ "sta_ssid" \in Keys /\ "sta_pwd" \in Keys
          /\ "boot_mode" \in Keys
      BY DEF IInv, TypeOK, FlashOK, StoredOK, Keys, CredentialKeys
    <2> HIDE DEF s
    <2>6. CASE ToRam /\ s.to = "ram"
      <3>1. web.at = 3 /\ web'.at = 4
        BY <1>1, <2>1, <2>4, <2>6 DEF Nvs
      <3> QED BY <1>1, <2>2, <2>3, <2>6, <3>1 DEF ToRam
    <2>7. CASE Saved(s) /\ s.to = "nvs"
      <3>1. CASE web.at = 1
        BY <1>1, <2>2, <2>4, <2>5, <2>7, <3>1 DEF Saved, Nvs
      <3>2. CASE web.at = 2
        BY <1>1, <2>2, <2>3, <2>4, <2>5, <2>7, <3>2 DEF Saved, Nvs
      <3>3. CASE web.at = 4
        BY <1>1, <2>2, <2>3, <2>4, <2>5, <2>7, <3>3 DEF Saved, Nvs
      <3>4. web.at # 3
        BY <2>4, <2>7 DEF Ram
      <3> QED BY <2>1, <3>1, <3>2, <3>3, <3>4
    <2>8. CASE Lost(s)
      BY <2>2, <2>8 DEF Lost
    <2> QED BY <1>1, <2>6, <2>7, <2>8
  <1> QED BY <1>1, <1>2, <1>3 DEF ConnectInProgress

\* What a handler's store does to the credentials and the mode in flash:
\* it provisions the device with a pair that joined, it takes the mode away,
\* or, where it touches a credential of a provisioned device, the device is
\* damaged.
LEMMA CredentialStore ==
  ASSUME IInv, WebStore
  PROVE  OperationHasCredentials'
  <1> DEFINE s == Stores(web.op, web.form)[web.at]
  <1>1. \/ s.to = "ram" /\ ToRam
        \/ s.to = "nvs" /\ (Saved(s) \/ Lost(s))
    BY WebStoreEffect DEF IInv
  <1>2. s.key = "boot_mode" /\ s.val = "OPERATION" =>
          web.op = "connect" /\ web.at \in {3, 4}
    BY OnlyConnectProvisions DEF IInv
  <1>3. /\ DOMAIN flash = Keys /\ "sta_ssid" \in Keys /\ "sta_pwd" \in Keys
        /\ "boot_mode" \in Keys /\ "boot_mode" \notin CredentialKeys
    BY DEF IInv, TypeOK, FlashOK, StoredOK, Keys, CredentialKeys
  <1>4. joined' = joined
    BY DEF WebStore
  <1>5. OperationHasCredentials
    BY DEF IInv
  <1> HIDE DEF s
  <1>6. CASE ToRam
    BY <1>4, <1>5, <1>6 DEF ToRam, OperationHasCredentials, StoredForm
  <1>7. CASE Lost(s)
    <2>1. damaged => damaged'
      BY <1>7 DEF Lost, Damage
    <2> QED BY <1>4, <1>5, <1>7, <2>1
            DEF Lost, OperationHasCredentials, StoredForm
  <1>8. CASE Saved(s)
    <2>1. CASE s.key \in CredentialKeys
      <3>1. flash'["boot_mode"] = flash["boot_mode"]
        BY <1>3, <1>8, <2>1 DEF Saved
      <3>2. flash["boot_mode"] = "OPERATION" => damaged'
        <4>1. Damage(s, TRUE)
                = (damaged \/ ~TRUE \/ flash["boot_mode"] = "OPERATION")
          BY <2>1 DEF Damage
        <4> QED BY <1>8, <4>1 DEF Saved
      <3> QED BY <3>1, <3>2 DEF OperationHasCredentials
    <2>2. CASE s.key = "boot_mode" /\ s.val = "OPERATION"
      <3>1. damaged' <=> web.failed
        BY <1>3, <1>8, <2>2 DEF Saved, Damage
      <3>2. ~web.failed => StoredForm \in joined
        BY <1>2, <2>2, ProvisionedPair
      <3>3. StoredForm' = StoredForm
        BY <1>3, <1>8, <2>2 DEF Saved, StoredForm, CredentialKeys
      <3> QED BY <1>4, <3>1, <3>2, <3>3 DEF OperationHasCredentials
    <2>3. CASE s.key = "boot_mode" /\ s.val # "OPERATION"
      <3>1. flash'["boot_mode"] # "OPERATION"
        BY <1>3, <1>8, <2>3 DEF Saved
      <3> QED BY <3>1 DEF OperationHasCredentials
    <2>4. CASE s.key \notin CredentialKeys /\ s.key # "boot_mode"
      <3>1. damaged' <=> damaged
        BY <1>8, <2>4 DEF Saved, Damage
      <3>2. /\ flash'["sta_ssid"] = flash["sta_ssid"]
            /\ flash'["sta_pwd"] = flash["sta_pwd"]
            /\ flash'["boot_mode"] = flash["boot_mode"]
        BY <1>3, <1>8, <2>4 DEF Saved, CredentialKeys
      <3> QED BY <1>4, <1>5, <3>1, <3>2 DEF OperationHasCredentials, StoredForm
    <2> QED BY <2>1, <2>2, <2>3, <2>4
  <1> QED BY <1>1, <1>6, <1>7, <1>8

\* A step that leaves flash and the history alone keeps the credentials.
LEMMA QuietStep ==
  ASSUME IInv, UNCHANGED <<flash, damaged>>, joined \subseteq joined',
         \/ UNCHANGED web
         \/ web'.op # "connect" /\ ~web'.failed
  PROVE  (OperationHasCredentials /\ ConnectInProgress /\ FailuresAreErrors)'
  <1>1. OperationHasCredentials'
    BY DEF IInv, OperationHasCredentials, StoredForm
  <1>2. ConnectInProgress'
    BY DEF IInv, ConnectInProgress
  <1>3. FailuresAreErrors'
    BY DEF IInv, FailuresAreErrors
  <1> QED BY <1>1, <1>2, <1>3

\* The step of the button task that stores CONFIG provisions nothing.
LEMMA ForceStep ==
  ASSUME IInv, NEW t \in ButtonTasks, ForceConfigNvs(t)
  PROVE  (OperationHasCredentials /\ ConnectInProgress /\ FailuresAreErrors)'
  <1>1. /\ DOMAIN flash = Keys /\ "sta_ssid" \in Keys /\ "sta_pwd" \in Keys
        /\ "boot_mode" \in Keys
    BY DEF IInv, TypeOK, FlashOK, StoredOK, Keys, CredentialKeys
  <1>2. /\ flash'["sta_ssid"] = flash["sta_ssid"]
        /\ flash'["sta_pwd"] = flash["sta_pwd"]
        /\ flash'["boot_mode"] \in {"CONFIG", flash["boot_mode"]}
        /\ UNCHANGED <<web, joined, damaged>>
    BY <1>1 DEF ForceConfigNvs, Rest
  <1>3. OperationHasCredentials'
    BY <1>2 DEF IInv, OperationHasCredentials, StoredForm
  <1>4. ConnectInProgress'
    BY <1>2 DEF IInv, ConnectInProgress
  <1>5. FailuresAreErrors'
    BY <1>2 DEF IInv, FailuresAreErrors
  <1> QED BY <1>3, <1>4, <1>5

\* Every other step of the device is quiet.
LEMMA OtherSteps ==
  ASSUME IInv, [Next]_vars, ~WebStore, ~Joined,
         \A t \in ButtonTasks : ~ForceConfigNvs(t)
  PROVE  /\ UNCHANGED <<flash, damaged, joined>>
         /\ UNCHANGED web \/ (web'.op # "connect" /\ ~web'.failed)
  <1>1. CASE Boot \/ RebootDevice \/ Press \/ Release \/ UNCHANGED vars
    BY <1>1 DEF Boot, RebootDevice, Press, Release, Rest, vars
  <1>2. IdleWeb.op # "connect" /\ ~IdleWeb.failed
    BY DEF IdleWeb
  <1>3. CASE Restart \/ WebDone
    BY <1>2, <1>3 DEF Restart, WebDone
  <1>4. ASSUME NEW form \in Forms, ConnectWifi(form)
        PROVE  /\ UNCHANGED <<flash, damaged, joined>>
               /\ web'.op # "connect" /\ ~web'.failed
    <2>1. web' = [op |-> "join", form |-> form, at |-> 0, ok |-> TRUE,
                  failed |-> FALSE]
      BY <1>4 DEF ConnectWifi, IdleWeb
    <2>2. web'.op = "join" /\ web'.failed = FALSE
      BY <2>1
    <2> QED BY <1>4, <2>2 DEF ConnectWifi
  <1>5. ASSUME NEW broker \in Brokers, SetupMqtt(broker)
        PROVE  /\ UNCHANGED <<flash, damaged, joined>>
               /\ web'.op # "connect" /\ ~web'.failed
    <2>1. web' = [op |-> "setup", form |-> broker, at |-> 1, ok |-> TRUE,
                  failed |-> FALSE]
      BY <1>5 DEF SetupMqtt, IdleWeb
    <2>2. web'.op = "setup" /\ web'.failed = FALSE
      BY <2>1
    <2> QED BY <1>5, <2>2 DEF SetupMqtt
  <1>6. CASE FactoryReset
    <2>1. web' = [op |-> "reset", form |-> NoForm, at |-> 1, ok |-> TRUE,
                  failed |-> FALSE]
      BY <1>6 DEF FactoryReset, IdleWeb
    <2>2. web'.op = "reset" /\ web'.failed = FALSE
      BY <2>1
    <2> QED BY <1>6, <2>2 DEF FactoryReset
  <1>7. ASSUME NEW t \in ButtonTasks,
               \/ Held(t) \/ LoadCount(t) \/ StoreCount(t)
               \/ ForceConfigRam(t) \/ ForceConfigWait(t)
        PROVE  UNCHANGED <<flash, damaged, joined, web>>
    BY <1>7 DEF Held, LoadCount, StoreCount, ForceConfigRam, ForceConfigWait, Rest
  <1>8. ASSUME NEW t \in ButtonTasks, gotoConfigMode(t)
        PROVE  \/ UNCHANGED <<flash, damaged, joined, web>>
               \/ Restart
    BY <1>7, <1>8 DEF gotoConfigMode, Released, ForceConfigRestart
  <1> QED BY <1>1, <1>3, <1>4, <1>5, <1>6, <1>8
          DEF Next, WebTask, PowerCut, rebootTask

\* connectSTA returning true puts the form among those that joined.
LEMMA JoinedStep ==
  ASSUME IInv, Joined
  PROVE  (OperationHasCredentials /\ ConnectInProgress /\ FailuresAreErrors)'
  <1>1. UNCHANGED <<flash, damaged>>
    BY DEF Joined
  <1>2. CASE web' = IdleWeb /\ UNCHANGED joined
    BY <1>1, <1>2, QuietStep DEF IdleWeb
  <1>3. CASE /\ joined' = joined \cup {web.form}
             /\ web' = [web EXCEPT !.op = "connect", !.at = 1]
    <2>1. web = [op |-> web.op, form |-> web.form, at |-> web.at,
                 ok |-> web.ok, failed |-> web.failed]
      BY DEF IInv, TypeOK, WebOK
    <2>2. web' = [op |-> "connect", form |-> web.form, at |-> 1,
                  ok |-> web.ok, failed |-> web.failed]
      BY <1>3, <2>1
    <2>3. web'.form = web.form /\ web'.at = 1 /\ web'.failed = web.failed
      BY <2>2
    <2>4. OperationHasCredentials'
      BY <1>1, <1>3 DEF IInv, OperationHasCredentials, StoredForm
    <2>5. ConnectInProgress'
      BY <1>3, <2>3 DEF ConnectInProgress
    <2>6. FailuresAreErrors'
      BY <2>3 DEF IInv, FailuresAreErrors
    <2> QED BY <2>4, <2>5, <2>6
  <1> QED BY <1>2, <1>3 DEF Joined

\* The inductive invariant holds at the start and is kept by every step.
LEMMA Invariance == Spec => []IInv
  <1>1. Init => OperationHasCredentials /\ ConnectInProgress /\ FailuresAreErrors
    <2> SUFFICES ASSUME Init
                 PROVE  OperationHasCredentials /\ ConnectInProgress /\ FailuresAreErrors
      OBVIOUS
    <2>1. flash["boot_mode"] = "unset"
      BY DEF Init, Default, Keys
    <2>2. web = [op |-> "none", form |-> NoForm, at |-> 0, ok |-> TRUE,
                 failed |-> FALSE]
      BY DEF Init, IdleWeb
    <2>3. web.op = "none" /\ web.failed = FALSE
      BY <2>2
    <2> QED BY <2>1, <2>3
            DEF OperationHasCredentials, ConnectInProgress, FailuresAreErrors
  <1>2. TypeOK' /\ IInv /\ [Next]_vars => IInv'
    <2> SUFFICES ASSUME TypeOK', IInv, [Next]_vars PROVE IInv'
      OBVIOUS
    <2>1. CASE WebStore
      BY <2>1, CredentialStore, ConnectStoreStep DEF IInv
    <2>2. CASE Joined
      BY <2>2, JoinedStep DEF IInv
    <2>3. CASE \E t \in ButtonTasks : ForceConfigNvs(t)
      BY <2>3, ForceStep DEF IInv
    <2>4. CASE /\ ~WebStore /\ ~Joined
               /\ \A t \in ButtonTasks : ~ForceConfigNvs(t)
      BY <2>4, OtherSteps, QuietStep DEF IInv
    <2> QED BY <2>1, <2>2, <2>3, <2>4
  <1> QED BY <1>1, <1>2, TypeInvariant, PTL DEF Spec, IInv

\* A device stored as OPERATION has one pair of credentials that joined,
\* wherever restarts, power cuts and failing writes fell, unless the
\* credentials of a provisioned device were being overwritten.
THEOREM Credentials == Spec => []OperationHasCredentials
  BY Invariance, PTL DEF IInv

\* A device that is not provisioned becomes so with a pair that joined.
THEOREM AtomicProvisioning == Spec => ProvisioningIsAtomic
  <1>1. IInv /\ [Next]_vars =>
          [ flash["boot_mode"] # "OPERATION" /\ flash'["boot_mode"] = "OPERATION"
              /\ ~web.failed
            => StoredForm' \in joined ]_vars
    <2> SUFFICES ASSUME IInv, [Next]_vars,
                        flash["boot_mode"] # "OPERATION",
                        flash'["boot_mode"] = "OPERATION",
                        ~web.failed
                 PROVE  StoredForm' \in joined
      OBVIOUS
    <2>1. /\ DOMAIN flash = Keys /\ "sta_ssid" \in Keys /\ "sta_pwd" \in Keys
          /\ "boot_mode" \in Keys
      BY DEF IInv, TypeOK, FlashOK, StoredOK, Keys, CredentialKeys
    <2>2. WebStore
      <3>1. ~Joined
        BY DEF Joined
      <3>2. \A t \in ButtonTasks : ~ForceConfigNvs(t)
        BY <2>1 DEF ForceConfigNvs
      <3> QED BY <3>1, <3>2, OtherSteps
    <2> DEFINE s == Stores(web.op, web.form)[web.at]
    <2>3. ToRam \/ Saved(s) \/ Lost(s)
      BY <2>2, WebStoreEffect DEF IInv
    <2>4. s.key = "boot_mode" /\ s.val = "OPERATION" =>
            web.op = "connect" /\ web.at \in {3, 4}
      BY <2>2, OnlyConnectProvisions DEF IInv
    <2> HIDE DEF s
    <2>5. flash' = [flash EXCEPT ![s.key] = s.val]
      BY <2>3 DEF ToRam, Saved, Lost
    <2>6. s.key = "boot_mode" /\ s.val = "OPERATION"
      BY <2>1, <2>5
    <2>7. StoredForm' = StoredForm
      BY <2>1, <2>5, <2>6 DEF StoredForm
    <2> QED BY <2>4, <2>6, <2>7, ProvisionedPair
  <1> QED BY <1>1, Invariance, PTL DEF Spec, ProvisioningIsAtomic

-----------------------------------------------------------------------------
\* The refinement of JoinTarget.

\* What the next start joins, by the mode in flash.
LEMMA TargetValue ==
  /\ flash["boot_mode"] = "OPERATION" =>
       Target = [ssid |-> flash["sta_ssid"], pwd |-> flash["sta_pwd"],
                 mode |-> "OPERATION"]
  /\ flash["boot_mode"] # "OPERATION" => Target = NoTarget
  /\ flash["boot_mode"] = "OPERATION" => Target # NoTarget
  BY DEF Target, NoTarget

\* A step that leaves flash alone leaves the target alone.
LEMMA TargetKept ==
  ASSUME flash' = flash
  PROVE  Target' = Target
  BY DEF Target

\* A saved store, as a step of JoinTarget.
LEMMA SavedStep ==
  ASSUME IInv, WebStore, ~web.failed,
         Saved(Stores(web.op, web.form)[web.at])
  PROVE  JT!Next \/ UNCHANGED <<Target, joined>>
  <1> DEFINE s == Stores(web.op, web.form)[web.at]
  <1>1. Fits(s)
    BY WebStoreFits DEF IInv
  <1>2. /\ DOMAIN flash = Keys /\ "sta_ssid" \in Keys /\ "sta_pwd" \in Keys
        /\ "boot_mode" \in Keys
    BY DEF IInv, TypeOK, FlashOK, StoredOK, Keys, CredentialKeys
  <1>3. joined' = joined
    BY DEF WebStore
  <1>4. s.key = "boot_mode" /\ s.val = "OPERATION" =>
          web.op = "connect" /\ web.at \in {3, 4}
    BY OnlyConnectProvisions DEF IInv
  <1>5. flash' = [flash EXCEPT ![s.key] = s.val]
    BY DEF Saved
  <1> HIDE DEF s
  <1>6. CASE flash["boot_mode"] = "OPERATION" /\ s.key \in CredentialKeys
    <2>1. /\ Target = [ssid |-> flash["sta_ssid"], pwd |-> flash["sta_pwd"],
                       mode |-> "OPERATION"]
          /\ Target' = [ssid |-> flash'["sta_ssid"], pwd |-> flash'["sta_pwd"],
                        mode |-> "OPERATION"]
      BY <1>2, <1>5, <1>6 DEF Target, CredentialKeys
    <2>2. CASE s.key = "sta_ssid"
      <3>1. s.val \in {f.ssid : f \in Forms} \cup {Empty}
        BY <1>1, <2>2 DEF Fits, Ssids
      <3>2. Target' = [Target EXCEPT !.ssid = s.val]
        <4>1. /\ flash'["sta_ssid"] = s.val
              /\ flash'["sta_pwd"] = flash["sta_pwd"]
          BY <1>2, <1>5, <2>2
        <4>2. Target' = [ssid |-> s.val, pwd |-> flash["sta_pwd"], mode |-> "OPERATION"]
          BY <2>1, <4>1
        <4> QED BY <2>1, <4>2
      <3> QED BY <1>3, <1>6, <3>1, <3>2, TargetValue DEF JT!Next, JT!Rewrite
    <2>3. CASE s.key = "sta_pwd"
      <3>1. s.val \in {f.pwd : f \in Forms} \cup {Empty}
        BY <1>1, <2>3 DEF Fits, Pwds
      <3>2. Target' = [Target EXCEPT !.pwd = s.val]
        <4>1. /\ flash'["sta_ssid"] = flash["sta_ssid"]
              /\ flash'["sta_pwd"] = s.val
          BY <1>2, <1>5, <2>3
        <4>2. Target' = [ssid |-> flash["sta_ssid"], pwd |-> s.val, mode |-> "OPERATION"]
          BY <2>1, <4>1
        <4> QED BY <2>1, <4>2
      <3> QED BY <1>3, <1>6, <3>1, <3>2, TargetValue DEF JT!Next, JT!Rewrite
    <2> QED BY <1>6, <2>2, <2>3 DEF CredentialKeys
  <1>7. CASE flash["boot_mode"] # "OPERATION" /\ s.key # "boot_mode"
    <2>1. flash'["boot_mode"] # "OPERATION"
      BY <1>2, <1>5, <1>7
    <2> QED BY <1>3, <1>7, <2>1 DEF Target
  <1>8. CASE s.key = "boot_mode" /\ s.val = "OPERATION"
    <2>1. /\ flash'["boot_mode"] = "OPERATION"
          /\ flash'["sta_ssid"] = flash["sta_ssid"]
          /\ flash'["sta_pwd"] = flash["sta_pwd"]
      BY <1>2, <1>5, <1>8
    <2>2. CASE flash["boot_mode"] = "OPERATION"
      BY <1>3, <2>1, <2>2 DEF Target
    <2>3. CASE flash["boot_mode"] # "OPERATION"
      <3>1. StoredForm \in joined
        BY <1>4, <1>8, ProvisionedPair
      <3>2. Target' = JT!Stored(StoredForm)
        BY <2>1 DEF Target, JT!Stored, StoredForm
      <3> QED BY <1>3, <2>3, <3>1, <3>2, TargetValue DEF JT!Next, JT!Adopt
    <2> QED BY <2>2, <2>3
  <1>9. CASE s.key = "boot_mode" /\ s.val # "OPERATION"
    <2>1. flash'["boot_mode"] # "OPERATION"
      BY <1>2, <1>5, <1>9
    <2>2. Target' = NoTarget
      BY <2>1 DEF Target
    <2> QED BY <1>3, <2>2 DEF JT!Next, JT!Forget
  <1>10. CASE s.key \notin CredentialKeys /\ s.key # "boot_mode"
    <2>1. /\ flash'["boot_mode"] = flash["boot_mode"]
          /\ flash'["sta_ssid"] = flash["sta_ssid"]
          /\ flash'["sta_pwd"] = flash["sta_pwd"]
      BY <1>2, <1>5, <1>10 DEF CredentialKeys
    <2> QED BY <1>3, <2>1 DEF Target
  <1> QED BY <1>6, <1>7, <1>8, <1>9, <1>10

\* Without write errors every step of the device is a step of JoinTarget or
\* leaves it alone.
LEMMA StepRefines ==
  ASSUME ~NvsErrors, IInv, [Next]_vars
  PROVE  JT!Next \/ UNCHANGED <<Target, joined>>
  <1>1. CASE WebStore
    <2> DEFINE s == Stores(web.op, web.form)[web.at]
    <2>1. ToRam \/ Saved(s)
      BY <1>1, WebStoreEffect DEF IInv, Lost
    <2>2. ~web.failed
      BY DEF IInv, FailuresAreErrors
    <2>3. CASE ToRam
      BY <1>1, <2>3, TargetKept DEF ToRam, WebStore
    <2>4. CASE Saved(s)
      BY <1>1, <2>2, <2>4, SavedStep
    <2> QED BY <2>1, <2>3, <2>4
  <1>2. CASE Joined
    <2>1. Target' = Target
      BY <1>2, TargetKept DEF Joined
    <2>2. web.form \in Forms
      BY <1>2 DEF Joined, IInv, TypeOK, WebOK
    <2> QED BY <1>2, <2>1, <2>2 DEF Joined, JT!Next, JT!Obtain
  <1>3. ASSUME NEW t \in ButtonTasks, ForceConfigNvs(t)
        PROVE  JT!Next \/ UNCHANGED <<Target, joined>>
    <2>1. joined' = joined
      BY <1>3 DEF ForceConfigNvs, Rest
    <2>2. CASE flash' = flash
      BY <2>1, <2>2, TargetKept
    <2>3. CASE flash' = [flash EXCEPT !["boot_mode"] = "CONFIG"]
      <3>1. flash'["boot_mode"] # "OPERATION"
        BY <2>3 DEF IInv, TypeOK, FlashOK, StoredOK, Keys
      <3>2. Target' = NoTarget
        BY <3>1 DEF Target
      <3> QED BY <2>1, <3>2 DEF JT!Next, JT!Forget
    <2> QED BY <1>3, <2>2, <2>3 DEF ForceConfigNvs
  <1>4. CASE /\ ~WebStore /\ ~Joined
             /\ \A t \in ButtonTasks : ~ForceConfigNvs(t)
    <2>1. UNCHANGED <<flash, joined>>
      BY <1>4, OtherSteps
    <2> QED BY <2>1, TargetKept
  <1> QED BY <1>1, <1>2, <1>3, <1>4

\* Where no write fails, the code implements JoinTarget: an unprovisioned
\* switch goes to a pair that joined in one step, whatever is cut short.
THEOREM Refinement ==
  ASSUME ~NvsErrors
  PROVE  Spec => ImplementsJoinTarget
  <1>1. Init => JT!Init
    <2> SUFFICES ASSUME Init PROVE JT!Init
      OBVIOUS
    <2>1. flash["boot_mode"] # "OPERATION" /\ joined = {}
      BY DEF Init, Default, Keys
    <2> QED BY <2>1 DEF JT!Init, Target
  <1>2. IInv /\ [Next]_vars => [JT!Next]_<<Target, joined>>
    BY StepRefines
  <1> QED BY <1>1, <1>2, Invariance, PTL DEF Spec, ImplementsJoinTarget, JT!Spec

-----------------------------------------------------------------------------
\* What the web page is told.

\* What a setup or a reset has stored so far is in flash.
Done(s) == s.to = "nvs" => flash[s.key] = s.val

StoredSoFar ==
  web.op \in {"setup", "reset"} =>
    \A k \in 1..web.at - 1 : Done(Stores(web.op, web.form)[k])

\* The value a setup or a reset stores depends on the key alone.
LEMMA OneValuePerKey ==
  ASSUME NEW op \in {"setup", "reset"}, NEW form,
         NEW j \in 1..Len(Stores(op, form)), NEW k \in 1..Len(Stores(op, form)),
         Stores(op, form)[j].key = Stores(op, form)[k].key
  PROVE  Stores(op, form)[j].val = Stores(op, form)[k].val
  <1>1. CASE op = "setup"
    BY <1>1, StoresLength, SetupStore
  <1>2. CASE op = "reset"
    <2>1. j \in 1..14 /\ k \in 1..14
      BY <1>2, StoresLength
    <2>2. /\ Stores("reset", form)[j].val = Default[Stores("reset", form)[j].key]
          /\ Stores("reset", form)[k].val = Default[Stores("reset", form)[k].key]
      BY <2>1, ResetStore
    <2> QED BY <1>2, <2>2
  <1> QED BY <1>1, <1>2

\* Every store of the two is of a key, and a store of the mode is of CONFIG.
LEMMA KeyOf ==
  ASSUME NEW op \in {"setup", "reset"}, NEW form, NEW k \in 1..Len(Stores(op, form))
  PROVE  /\ Stores(op, form)[k].key \in Keys
         /\ Stores(op, form)[k].key = "boot_mode" => Stores(op, form)[k].val = "CONFIG"
  <1>1. CASE op = "setup"
    <2>1. k \in 1..4
      BY <1>1, StoresLength
    <2>2. Stores("setup", form)[k].key \in BrokerKeys
      BY <2>1, SetupStore
    <2> QED BY <1>1, <2>2 DEF Keys, BrokerKeys
  <1>2. CASE op = "reset"
    <2>1. k \in 1..14
      BY <1>2, StoresLength
    <2>2. /\ Stores("reset", form)[k].key \in Keys
          /\ Stores("reset", form)[k].val = Default[Stores("reset", form)[k].key]
      BY <2>1, ResetStore
    <2>3. Default["boot_mode"] = "CONFIG"
      BY DEF Default, Keys, CredentialKeys, BrokerKeys
    <2> QED BY <1>2, <2>2, <2>3
  <1> QED BY <1>1, <1>2

\* A handler of the page begins with nothing stored, and no other step than its
\* own stores and that of the button touches flash.
LEMMA HandlersBegin ==
  ASSUME TypeOK, [Next]_vars, ~WebStore, \A t \in ButtonTasks : ~ForceConfigNvs(t)
  PROVE  /\ UNCHANGED flash
         /\ UNCHANGED web \/ web'.op \notin {"setup", "reset"} \/ web'.at = 1
  <1>1. CASE Boot \/ RebootDevice \/ Press \/ Release \/ UNCHANGED vars
    BY <1>1 DEF Boot, RebootDevice, Press, Release, Rest, vars
  <1>2. CASE Restart \/ WebDone
    BY <1>2 DEF Restart, WebDone, IdleWeb
  <1>3. ASSUME NEW form \in Forms, ConnectWifi(form)
        PROVE  UNCHANGED flash /\ web'.op \notin {"setup", "reset"}
    BY <1>3 DEF ConnectWifi, IdleWeb
  <1>4. ASSUME NEW broker \in Brokers, SetupMqtt(broker)
        PROVE  UNCHANGED flash /\ web'.at = 1
    BY <1>4 DEF SetupMqtt, IdleWeb
  <1>5. CASE FactoryReset
    BY <1>5 DEF FactoryReset, IdleWeb
  <1>6. CASE Joined
    <2>1. web = [op |-> web.op, form |-> web.form, at |-> web.at,
                 ok |-> web.ok, failed |-> web.failed]
      BY DEF TypeOK, WebOK
    <2>2. UNCHANGED flash /\ (web' = IdleWeb \/ web' = [web EXCEPT !.op = "connect", !.at = 1])
      BY <1>6 DEF Joined
    <2>3. CASE web' = IdleWeb
      BY <2>2, <2>3 DEF IdleWeb
    <2>4. CASE web' = [web EXCEPT !.op = "connect", !.at = 1]
      <3>1. web' = [op |-> "connect", form |-> web.form, at |-> 1,
                    ok |-> web.ok, failed |-> web.failed]
        BY <2>1, <2>4
      <3> QED BY <2>2, <3>1
    <2> QED BY <2>2, <2>3, <2>4
  <1>7. ASSUME NEW t \in ButtonTasks, gotoConfigMode(t)
        PROVE  UNCHANGED <<flash, web>> \/ Restart
    BY <1>7 DEF gotoConfigMode, Released, ForceConfigRestart, Held, LoadCount, StoreCount,
                ForceConfigRam, ForceConfigWait, Rest
  <1> QED BY <1>1, <1>2, <1>3, <1>4, <1>5, <1>6, <1>7 DEF Next, WebTask, PowerCut, rebootTask

\* A store adds itself to what is stored, and changes nothing that was stored
\* before; nor does the mode of the button, which is the one a reset stores.
LEMMA StoredSoFarNext ==
  ASSUME ~NvsErrors, TypeOK, StoredSoFar, [Next]_vars
  PROVE  StoredSoFar'
  <1>1. DOMAIN flash = Keys /\ web.at \in Nat
    BY DEF TypeOK, FlashOK, StoredOK, WebOK
  <1>2. CASE WebStore
    <2> SUFFICES ASSUME web'.op \in {"setup", "reset"}, NEW k \in 1..web'.at - 1,
                        Stores(web'.op, web'.form)[k].to = "nvs"
                 PROVE  flash'[Stores(web'.op, web'.form)[k].key]
                          = Stores(web'.op, web'.form)[k].val
      BY DEF StoredSoFar, Done
    <2> DEFINE s == Stores(web.op, web.form)[web.at]
               r == Stores(web.op, web.form)[k]
    <2>1. /\ web'.op = web.op /\ web'.form = web.form /\ web'.at = web.at + 1
          /\ \/ s.to = "ram" /\ ToRam
             \/ s.to = "nvs" /\ (Saved(s) \/ Lost(s))
      BY <1>2, WebStoreEffect
    <2>2. web.at \in 1..Len(Stores(web.op, web.form)) /\ k \in 1..web.at
      BY <1>1, <1>2, <2>1 DEF WebStore
    <2>3. k \in 1..Len(Stores(web.op, web.form))
      BY <1>1, <2>1, <2>2, StoresLength
    <2>4. r.key \in Keys
      BY <2>1, <2>3, KeyOf
    <2>5. k # web.at => flash[r.key] = r.val
      BY <1>1, <2>1, <2>2 DEF StoredSoFar, Done
    <2>6. s.key = r.key => s.val = r.val
      BY <2>1, <2>2, <2>3, OneValuePerKey
    <2> HIDE DEF s, r
    <2>7. CASE s.to = "ram" /\ ToRam
      <3>1. k # web.at
        BY <2>1, <2>7 DEF s, r
      <3> QED BY <2>1, <2>5, <2>7, <3>1 DEF ToRam, r
    <2>8. CASE Saved(s)
      <3>1. flash' = [flash EXCEPT ![s.key] = s.val]
        BY <2>8 DEF Saved
      <3>2. k = web.at => s.key = r.key
        BY DEF s, r
      <3>3. flash'[r.key] = r.val
        BY <1>1, <2>4, <2>5, <2>6, <3>1, <3>2
      <3> QED BY <2>1, <3>3 DEF r
    <2>9. ~Lost(s)
      BY DEF Lost
    <2> QED BY <2>1, <2>7, <2>8, <2>9
  <1>3. CASE \E t \in ButtonTasks : ForceConfigNvs(t)
    <2>1. /\ UNCHANGED web
          /\ flash' = flash \/ flash' = [flash EXCEPT !["boot_mode"] = "CONFIG"]
      BY <1>3 DEF ForceConfigNvs, Rest
    <2> SUFFICES ASSUME web.op \in {"setup", "reset"}, NEW k \in 1..web.at - 1,
                        Stores(web.op, web.form)[k].to = "nvs"
                 PROVE  flash'[Stores(web.op, web.form)[k].key]
                          = Stores(web.op, web.form)[k].val
      BY <2>1 DEF StoredSoFar, Done
    <2>2. flash[Stores(web.op, web.form)[k].key] = Stores(web.op, web.form)[k].val
      BY DEF StoredSoFar, Done
    <2>3. k \in 1..Len(Stores(web.op, web.form))
      BY <1>1, StoresLength DEF TypeOK, WebOK
    <2>4. /\ Stores(web.op, web.form)[k].key \in Keys
          /\ Stores(web.op, web.form)[k].key = "boot_mode" =>
               Stores(web.op, web.form)[k].val = "CONFIG"
      BY <2>3, KeyOf
    <2> QED BY <1>1, <2>1, <2>2, <2>4
  <1>4. CASE ~WebStore /\ \A t \in ButtonTasks : ~ForceConfigNvs(t)
    <2>1. /\ UNCHANGED flash
          /\ UNCHANGED web \/ web'.op \notin {"setup", "reset"} \/ web'.at = 1
      BY <1>4, HandlersBegin
    <2>2. CASE UNCHANGED web
      BY <2>1, <2>2 DEF StoredSoFar, Done
    <2>3. CASE web'.op \notin {"setup", "reset"} \/ web'.at = 1
      BY <2>3 DEF StoredSoFar
    <2> QED BY <2>1, <2>2, <2>3
  <1> QED BY <1>2, <1>3, <1>4

LEMMA StoredSoFarInv ==
  ASSUME ~NvsErrors
  PROVE  Spec => []StoredSoFar
  <1>1. Init => StoredSoFar
    BY DEF Init, IdleWeb, StoredSoFar
  <1>2. TypeOK /\ StoredSoFar /\ [Next]_vars => StoredSoFar'
    BY StoredSoFarNext
  <1> QED BY <1>1, <1>2, TypeInvariant, PTL DEF Spec

\* Where no write fails, setup_mqtt answers with all four settings in flash,
\* whatever the button and the restarts do meanwhile.
THEOREM SetupAnswer ==
  ASSUME ~NvsErrors
  PROVE  Spec => []SetupAnswerIsTrue
  <1>1. TypeOK /\ StoredSoFar => SetupAnswerIsTrue
    <2> SUFFICES ASSUME TypeOK, StoredSoFar, web.op = "setup", AtEnd,
                        NEW key \in BrokerKeys
                 PROVE  flash[key] = web.form
      BY DEF SetupAnswerIsTrue
    <2>1. web.at = 5
      <3> DEFINE n == Len(Stores(web.op, web.form))
      <3>1. n = 4
        BY StoresLength
      <3>2. web.at = n + 1
        BY DEF AtEnd
      <3> HIDE DEF n
      <3> QED BY <3>1, <3>2
    <2>2. \A k \in 1..4 : Done(Stores("setup", web.form)[k])
      BY <2>1 DEF StoredSoFar
    <2>3. /\ Stores("setup", web.form)[1] = Nvs("mqtt_server", web.form)
          /\ Stores("setup", web.form)[2] = Nvs("mqtt_username", web.form)
          /\ Stores("setup", web.form)[3] = Nvs("mqtt_password", web.form)
          /\ Stores("setup", web.form)[4] = Nvs("mqtt_port", web.form)
      BY DEF Stores, SetupStores
    <2> QED BY <2>2, <2>3 DEF Done, Nvs, BrokerKeys
  <1> QED BY <1>1, TypeInvariant, StoredSoFarInv, PTL

\* Where no write fails, a factory reset that is answered with success, and
\* begins the countdown to its restart, has left only factory values in flash.
THEOREM ResetAnswer ==
  ASSUME ~NvsErrors
  PROVE  Spec => ResetAnswerIsTrue
  <1> DEFINE Answered == web.op = "reset" /\ web'.op = "none" /\ ~countdown /\ countdown'
             Clean == \A k \in Keys : flash'[k] = Default[k]
  <1>1. TypeOK /\ StoredSoFar /\ [Next]_vars => [Answered => Clean]_vars
    <2> SUFFICES ASSUME TypeOK, StoredSoFar, [Next]_vars, Answered, NEW key \in Keys
                 PROVE  flash'[key] = Default[key]
      OBVIOUS
    <2>1. CASE WebDone
      <3>1. AtEnd /\ flash' = flash
        BY <2>1 DEF WebDone
      <3>2. web.at = 15
        <4> DEFINE n == Len(Stores(web.op, web.form))
        <4>1. n = 14
          BY StoresLength
        <4>2. web.at = n + 1
          BY <3>1 DEF AtEnd
        <4> HIDE DEF n
        <4> QED BY <4>1, <4>2
      <3>3. \A k \in 1..14 : Done(Stores("reset", web.form)[k])
        BY <3>2 DEF StoredSoFar
      <3>4. \E k \in 1..14 : /\ Stores("reset", web.form)[k].key = key
                             /\ Stores("reset", web.form)[k].to = "nvs"
        <4>1. /\ restore[4] = Nvs("sta_ssid", Empty) /\ restore[5] = Nvs("sta_pwd", Empty)
              /\ restore[6] = Nvs("boot_mode", "CONFIG")
              /\ restore[11] = Nvs("mqtt_server", Factory)
              /\ restore[12] = Nvs("mqtt_username", Factory)
              /\ restore[13] = Nvs("mqtt_password", Factory)
              /\ restore[14] = Nvs("mqtt_port", Factory)
          BY DEF restore
        <4>2. Stores("reset", web.form) = restore
          BY DEF Stores
        <4> QED BY <4>1, <4>2 DEF Nvs, Keys, CredentialKeys, BrokerKeys
      <3>5. PICK k \in 1..14 : /\ Stores("reset", web.form)[k].key = key
                              /\ Stores("reset", web.form)[k].to = "nvs"
        BY <3>4
      <3>6. Stores("reset", web.form)[k].val = Default[key]
        BY <3>5, ResetStore
      <3> QED BY <3>1, <3>3, <3>5, <3>6 DEF Done
    <2>2. CASE ~WebDone
      <3>1. ~WebStore
        BY <2>2, WebStoreEffect
      <3>2. web.op = "reset" /\ countdown' /\ ~countdown /\ ~UNCHANGED web
        OBVIOUS
      <3>3. ~Restart
        BY <3>2 DEF Restart
      <3>4. \A t \in ButtonTasks : ~gotoConfigMode(t)
        BY <3>2, <3>3 DEF gotoConfigMode, Released, ForceConfigRestart, Held, LoadCount, StoreCount,
                          ForceConfigRam, ForceConfigNvs, ForceConfigWait, Rest
      <3> QED BY <2>2, <3>1, <3>2, <3>3, <3>4
              DEF Next, WebTask, PowerCut, rebootTask, Boot, Joined, ConnectWifi, SetupMqtt,
                  FactoryReset, RebootDevice, WebIdle, Press, Release, Rest, vars
    <2> QED BY <2>1, <2>2
  <1> QED BY <1>1, TypeInvariant, StoredSoFarInv, PTL DEF Spec, ResetAnswerIsTrue
=============================================================================
