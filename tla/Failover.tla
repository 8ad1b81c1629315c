------------------------------ MODULE Failover ------------------------------
(***************************************************************************)
(* How a device finds a WiFi network: init_wifi, start_client_autoconnect, *)
(* from_json and start_wifi_scan of WiFiProvisioner                        *)
(* (src/sensesp/net/wifi_provisioner.cpp).                                 *)
(*                                                                         *)
(* Every 20 s the event loop looks whether the station is connected and, if*)
(* not, applies the next valid slot of the list. Two rules of the driver   *)
(* matter: it refuses a new network while it is associating with another   *)
(* one, and applying the network it is associating with changes nothing.   *)
(* The driver, which associates again by itself after a loss, is modelled  *)
(* from how the code uses it. A scan from the web UI drops an association  *)
(* in progress. Settings saved on the WiFi page replace the list at once,  *)
(* under the event that reads it; the page asks for a restart.             *)
(***************************************************************************)
EXTENDS Integers, FiniteSets

CONSTANTS
    Networks,  \* the networks there may be
    Empty,     \* a slot without a name or a password
    Num,       \* kMaxNumClientConfigs, the length of a list of slots
    SlotLists, \* the lists of slots (client_settings_) to look at
    Slow,      \* networks that take more than one period to associate with
    MaxScans,  \* bound on the scans
    MaxSaves   \* bound on the settings saved

ASSUME SlotsAssumption ==
    /\ Num \in Nat \ {0}
    /\ SlotLists \subseteq [0..Num - 1 -> Networks \cup {Empty}]
    /\ Empty \notin Networks
ASSUME ScansAssumption == {MaxScans, MaxSaves} \subseteq Nat

VARIABLES
    slots,       \* client_settings_
    enabled,     \* client_enabled_
    autoconnect, \* start_client_autoconnect was called by init_wifi
    edited,      \* history: settings saved since the start
    saves,       \* history: settings saved
    air,         \* the networks in range
    sta,         \* the station: "idle", "associating" or "up"
    target,      \* the network it was told to join
    age,         \* periods this association has lasted, at most 2
    index,       \* current_config_idx, modulo the number of slots
    lastApplied, \* last_applied_idx, or -1
    scans        \* history: scans started

settingVars == <<slots, enabled, autoconnect, edited, saves>>
failoverVars == <<settingVars, air, sta, target, age, index, lastApplied, scans>>

FailoverTypeOK ==
    /\ slots \in SlotLists
    /\ {enabled, autoconnect, edited} \subseteq BOOLEAN
    /\ saves \in 0..MaxSaves
    /\ air \subseteq Networks
    /\ sta \in {"idle", "associating", "up"}
    /\ target \in Networks \cup {Empty}
    /\ age \in 0..2
    /\ index \in 0..Num - 1
    /\ lastApplied \in -1..Num - 1
    /\ scans \in 0..MaxScans

FailoverInit ==
    /\ slots \in SlotLists /\ enabled \in BOOLEAN /\ autoconnect = enabled
    /\ edited = FALSE /\ saves = 0
    /\ air \in SUBSET Networks
    /\ sta = "idle" /\ target = Empty /\ age = 0
    /\ index = 0 /\ lastApplied = -1 /\ scans = 0

Valid(i) == slots[i] # Empty

\* The slot the search that starts at current_config_idx stops at.
NextValid ==
    LET step == CHOOSE k \in 0..Num - 1 :
                    /\ Valid((index + k) % Num)
                    /\ \A j \in 0..k - 1 : ~Valid((index + j) % Num)
    IN (index + step) % Num

\* WiFi.begin after an optional WiFi.disconnect: the driver starts to
\* associate, unless it is associating with another network (refused) or with
\* this one (left running).
Begin(network, disconnected) ==
    IF sta = "associating" /\ ~disconnected
    THEN UNCHANGED <<sta, target>> /\ age' = IF age < 2 THEN age + 1 ELSE age
    ELSE sta' = "associating" /\ target' = network /\ age' = 0

\* A mistake: every attempt begins with a disconnect.
VariantDisconnects(slot) == slot \in DOMAIN slots

\* The test of reconnect_cb: only a switch to another slot disconnects.
Disconnects(slot) == slot # lastApplied

Associates(n) == n \in air /\ (n \notin Slow \/ age = 2)

\* Twenty seconds are enough for a network in range that is not slow.
PeriodOver == sta = "associating" => ~Associates(target) \/ target \in Slow

\* reconnect_cb finds the station connected.
TickConnected ==
    /\ autoconnect /\ sta = "up"
    /\ index' = 0
    /\ UNCHANGED <<settingVars, air, sta, target, age, lastApplied, scans>>

\* reconnect_cb applies the next valid slot.
TickReconnect ==
    /\ autoconnect /\ sta # "up" /\ PeriodOver
    /\ \E i \in DOMAIN slots : Valid(i)
    /\ Begin(slots[NextValid], Disconnects(NextValid))
    /\ lastApplied' = NextValid
    /\ index' = (NextValid + 1) % Num
    /\ UNCHANGED <<settingVars, air, scans>>

\* start_wifi_scan, from the HTTP task.
StartScan ==
    /\ scans < MaxScans
    /\ scans' = scans + 1
    /\ sta' = IF sta = "up" THEN sta ELSE "idle"
    /\ age' = 0
    /\ UNCHANGED <<settingVars, air, target, index, lastApplied>>

\* The driver completes an association.
Associated ==
    /\ sta = "associating" /\ Associates(target)
    /\ sta' = "up" /\ age' = 0
    /\ UNCHANGED <<settingVars, air, target, index, lastApplied, scans>>

\* The access point drops the station; the driver tries again by itself.
Dropped ==
    /\ sta = "up"
    /\ sta' = "associating" /\ age' = 0
    /\ UNCHANGED <<settingVars, air, target, index, lastApplied, scans>>

NetworkAppears ==
    /\ \E n \in Networks \ air : air' = air \cup {n}
    /\ UNCHANGED <<settingVars, sta, target, age, index, lastApplied, scans>>

\* A station that was up on the network tries to associate again.
NetworkVanishes ==
    /\ \E n \in air :
        /\ air' = air \ {n}
        /\ IF sta = "up" /\ target = n
           THEN sta' = "associating" /\ age' = 0
           ELSE UNCHANGED <<sta, age>>
    /\ UNCHANGED <<settingVars, target, index, lastApplied, scans>>

\* from_json for a PUT, on the HTTP task: the event loop goes on with the new
\* list, and with the index it had; whether there is an event stays as it was.
SettingsSaved ==
    /\ saves < MaxSaves
    /\ saves' = saves + 1 /\ edited' = TRUE
    /\ slots' \in SlotLists /\ enabled' \in BOOLEAN
    /\ UNCHANGED <<autoconnect, air, sta, target, age, index, lastApplied, scans>>

\* The restart the page asked for: load(), init_wifi.
Restart ==
    /\ edited
    /\ edited' = FALSE
    /\ autoconnect' = enabled
    /\ sta' = "idle" /\ target' = Empty /\ age' = 0
    /\ index' = 0 /\ lastApplied' = -1
    /\ UNCHANGED <<slots, enabled, saves, air, scans>>

FailoverNext ==
    \/ TickConnected \/ TickReconnect \/ StartScan \/ SettingsSaved \/ Restart
    \/ Associated \/ Dropped \/ NetworkAppears \/ NetworkVanishes

FailoverSpec == FailoverInit /\ [][FailoverNext]_failoverVars

-----------------------------------------------------------------------------
(* Properties. *)

\* Until settings are edited, the network the driver was told to join is the slot
\* applied last, whatever scans, losses and changes of the networks in range come
\* between: the test of reconnect_cb, which compares indices, then disconnects
\* whenever the driver would refuse another network.
AppliedIsJoined ==
    ~edited /\ lastApplied # -1 =>
        Valid(lastApplied) /\ target = slots[lastApplied]

\* The only valid slot, or one whose network needs no more than a period.
Reachable(n) ==
    \E i \in DOMAIN slots :
        /\ slots[i] = n
        /\ n \in Slow => \A j \in DOMAIN slots : Valid(j) => j = i

\* A network that stays in range is joined in the end, again and again if need
\* be: a missing one does not hold up the list, a switch is never refused for
\* good, and a single slow network is left the time it needs ("re-applying the
\* same config must leave a slow association running", reconnect_cb). Until it
\* restarts, a device whose settings were edited may fail to: reconnect_cb
\* compares the index of a slot and not its content, so that a slot edited in
\* place is applied without a disconnect, and refused.
ConnectsInTheEnd ==
    \A n \in Networks :
        <>[](n \in air /\ autoconnect /\ ~edited /\ Reachable(n)) =>
            []<>(sta = "up")
=============================================================================
