-------------------------------- MODULE Net --------------------------------
(***************************************************************************)
(* How the board gets and keeps a way in: the WiFi station, the captive    *)
(* access point it falls back to, wired Ethernet, provisioning over Improv *)
(* and the connectivity watchdog (net.c, net_eth.c, improv_glue.cpp and    *)
(* the Improv backend).                                                    *)
(*                                                                         *)
(* One task, the system event task, runs every handler in the order the    *)
(* drivers post the events.  Beside it run the Improv task, the station    *)
(* supervisor, the deferred fallback and the deferred teardown of the      *)
(* access point, the captive DNS responder, the watchdog and the web       *)
(* server.  They share plain variables; nothing is locked.                 *)
(***************************************************************************)
EXTENDS Integers, Sequences

CONSTANTS
    Nets,         \* credentials a user may enter
    None,         \* no credentials
    MAX_RETRY,    \* reconnects before the station gives up (8 in the code)
    WdtTicks,     \* watchdog polls an offline board survives
    MaxClients,   \* stations on the access point
    MaxTries,     \* provisioning attempts in one Improv window
    MaxEvents     \* length of the event queue

ASSUME NetAssumption ==
    /\ None \notin Nets /\ Nets # {}
    /\ {MAX_RETRY, WdtTicks, MaxClients, MaxTries} \subseteq Nat
    /\ MaxEvents \in Nat \ {0} /\ MaxClients <= MaxEvents

VARIABLES
    nvs,                  \* credentials in flash
    wdt_enable,           \* s_cfg.wdt_enable
    phase,                \* "boot" until net_init and improv_init have run
    ssid,                 \* s_ssid_buf: the credentials in RAM
    s_connected, s_eth_up, s_ap_active, s_ap_clients, s_retry_count,
    s_external_control, s_ap_teardown_pending, s_dns_stop,
    recov,                \* s_sta_recov_task exists
    age,                  \* watchdog polls since s_last_conn_us
    evt, fallback,        \* where the event task and deferred_ap_fallback_task are
    teardown, dns,        \* likewise deferred_ap_teardown_task, captive_dns_task
    improv,               \* the Improv task: [pc, net, retried, tries]
    connectFailed, gotIp, \* the Improv backend's flags, while connecting_ is set
    drv, sta, ap_on, joined, eth,          \* drivers: configuration and links
    events                \* posted, not yet handled

wifiVars   == <<s_connected, s_retry_count, s_external_control>>
apVars     == <<s_ap_active, s_ap_clients, s_ap_teardown_pending, teardown>>
dnsVars    == <<s_dns_stop, dns>>
credVars   == <<nvs, ssid>>
bkVars     == <<connectFailed, gotIp>>

\* connecting_ of the Improv backend.
connecting == improv.pc = "trying"
lifeVars   == <<wdt_enable, phase, recov>>
linkVars   == <<drv, sta, ap_on, joined, eth>>
vars == <<wifiVars, apVars, dnsVars, credVars, bkVars, lifeVars, linkVars,
          s_eth_up, age, evt, fallback, improv, events>>

IdleImprov == [pc |-> "closed", net |-> None, retried |-> FALSE, tries |-> 0]

Init ==
    /\ nvs \in Nets \cup {None}
    /\ wdt_enable \in BOOLEAN
    /\ phase = "boot" /\ ssid = None
    /\ s_connected = FALSE /\ s_eth_up = FALSE
    /\ s_ap_active = FALSE /\ s_ap_clients = 0
    /\ s_retry_count = 0 /\ s_external_control = FALSE
    /\ s_ap_teardown_pending = FALSE /\ s_dns_stop = FALSE
    /\ recov = FALSE /\ age = 0
    /\ evt = "idle" /\ fallback = "none" /\ teardown = "none" /\ dns = "none"
    /\ improv = IdleImprov
    /\ connectFailed = FALSE /\ gotIp = FALSE
    /\ drv = None /\ sta = "idle" /\ ap_on = FALSE /\ joined = 0 /\ eth = FALSE
    /\ events = << >>

Room(n) == Len(events) + n <= MaxEvents
net_is_connected == s_eth_up \/ s_connected

\* esp_wifi_connect: starts an attempt with the driver's configuration; an
\* error without consequence when one is under way or nothing is configured.
Connect(cfg, link) == IF link = "idle" /\ cfg # None THEN "joining" ELSE link
-----------------------------------------------------------------------------
(***************************************************************************)
(* Start-up: net_init, then improv_init, which takes the station over.     *)
(***************************************************************************)
\* The driver's STA_START is handled before Improv takes control, and connects,
\* or after, and does not.
Boot ==
    /\ phase = "boot"
    /\ phase' = "run"
    /\ ssid' = nvs /\ drv' = nvs
    /\ recov' = (nvs # None)
    /\ fallback' = IF nvs = None THEN "wait" ELSE "none"
    /\ s_external_control' = TRUE
    /\ improv' = [IdleImprov EXCEPT !.pc = "armed"]
    /\ sta' \in {"idle", Connect(nvs, "idle")}
    /\ UNCHANGED <<s_connected, s_retry_count, apVars, dnsVars, nvs, bkVars,
                   wdt_enable, ap_on, joined, eth, s_eth_up, age, evt, events>>
-----------------------------------------------------------------------------
(***************************************************************************)
(* The WiFi and Ethernet drivers and the stations on the access point.     *)
(***************************************************************************)
Driver == UNCHANGED <<wifiVars, apVars, dnsVars, credVars, bkVars, lifeVars, drv,
                      s_eth_up, age, evt, fallback, improv>>

\* An attempt ends: associated, which no handler of the program hears of, or
\* refused.
Associate ==
    /\ sta = "joining"
    /\ sta' = "assoc"
    /\ Driver /\ UNCHANGED <<ap_on, joined, eth, events>>

\* The network hands out an address (or the static one is set).
Lease ==
    /\ sta = "assoc" /\ Room(1)
    /\ sta' = "up" /\ events' = Append(events, "gotip")
    /\ Driver /\ UNCHANGED <<ap_on, joined, eth>>

Refuse ==
    /\ sta = "joining" /\ Room(1)
    /\ sta' = "idle" /\ events' = Append(events, "disc")
    /\ Driver /\ UNCHANGED <<ap_on, joined, eth>>

\* The access point of the station goes away.
Drop ==
    /\ sta \in {"assoc", "up"} /\ Room(1)
    /\ sta' = "idle" /\ events' = Append(events, "disc")
    /\ Driver /\ UNCHANGED <<ap_on, joined, eth>>

EthLink ==
    /\ phase = "run" /\ Room(1)
    /\ eth' = ~eth /\ events' = Append(events, IF eth THEN "ethdown" ELSE "ethip")
    /\ Driver /\ UNCHANGED <<sta, ap_on, joined>>

ClientJoins ==
    /\ ap_on /\ joined < MaxClients /\ Room(1)
    /\ joined' = joined + 1 /\ events' = Append(events, "join")
    /\ Driver /\ UNCHANGED <<sta, ap_on, eth>>

ClientLeaves ==
    /\ joined > 0 /\ Room(1)
    /\ joined' = joined - 1 /\ events' = Append(events, "leave")
    /\ Driver /\ UNCHANGED <<sta, ap_on, eth>>
-----------------------------------------------------------------------------
(***************************************************************************)
(* net_start_softap, called by the event task and by the fallback task;    *)
(* net_note_uplink_up and the deferred teardown.                           *)
(***************************************************************************)
\* Mutant: the access point is set up again whether or not it is up.
SoftApWanted_Always == ~s_eth_up

\* The early returns of net_start_softap.
SoftApWanted == ~s_ap_active /\ ~s_eth_up

\* The rest of net_start_softap once the driver is in APSTA mode: the flag, the
\* DNS responder unless there is a handle of one, the supervisor likewise.  The
\* responder binds its socket, or cannot and gives up.
SoftApRaised ==
    /\ s_ap_active' = TRUE
    /\ s_dns_stop' = FALSE
    /\ IF dns = "none" THEN dns' \in {"run", "none"} ELSE UNCHANGED dns
    /\ recov' = (recov \/ ssid # None)
    /\ UNCHANGED <<wifiVars, s_ap_clients, s_ap_teardown_pending, teardown, credVars, bkVars,
                   wdt_enable, phase, linkVars, s_eth_up, age, improv, events>>

SoftApMode ==
    /\ ap_on' = TRUE
    /\ UNCHANGED <<wifiVars, apVars, dnsVars, credVars, bkVars, lifeVars, drv, sta, joined,
                   eth, s_eth_up, age, improv, events>>

EventApMode   == evt = "mode" /\ evt' = "flag" /\ SoftApMode /\ UNCHANGED fallback
EventApRaised == evt = "flag" /\ evt' = "idle" /\ SoftApRaised /\ UNCHANGED fallback

\* 130 s after a boot without credentials.
FallbackFires ==
    /\ fallback = "wait"
    /\ fallback' = IF ~net_is_connected /\ ~s_ap_active /\ SoftApWanted THEN "mode" ELSE "none"
    /\ UNCHANGED <<wifiVars, apVars, dnsVars, credVars, bkVars, lifeVars, linkVars,
                   s_eth_up, age, evt, improv, events>>

FallbackApMode   == fallback = "mode" /\ fallback' = "flag" /\ SoftApMode /\ UNCHANGED evt
FallbackApRaised == fallback = "flag" /\ fallback' = "none" /\ SoftApRaised /\ UNCHANGED evt

net_note_uplink_up ==
    IF s_ap_active /\ ~s_ap_teardown_pending
    THEN s_ap_teardown_pending' = TRUE /\ teardown' = "grace"
    ELSE UNCHANGED <<s_ap_teardown_pending, teardown>>

Starting == evt # "idle" \/ fallback \in {"mode", "flag"}

Teardown(pc1) ==
    /\ teardown' = pc1
    /\ UNCHANGED <<wifiVars, credVars, bkVars, lifeVars, drv, sta, eth, s_eth_up, age,
                   evt, fallback, improv>>

\* The grace period of 10 s is over.  A net_start_softap under way now was under
\* way when the teardown was scheduled, and takes no 10 s.
GraceOver ==
    /\ teardown = "grace" /\ ~Starting
    /\ IF net_is_connected /\ s_ap_active
       THEN Teardown("stop") /\ s_dns_stop' = TRUE
       ELSE Teardown("done") /\ UNCHANGED s_dns_stop
    /\ UNCHANGED <<s_ap_active, s_ap_clients, s_ap_teardown_pending, dns, ap_on, joined, events>>

\* esp_wifi_set_mode(STA): every station on the access point is cut off.
StopMode ==
    /\ teardown = "stop" /\ Room(joined)
    /\ ap_on' = FALSE /\ joined' = 0
    /\ events' = events \o [i \in 1..joined |-> "leave"]
    /\ Teardown("flag")
    /\ UNCHANGED <<s_ap_active, s_ap_clients, s_ap_teardown_pending, dnsVars>>

\* The count is cleared without a lock: a handler that has read it and not yet
\* written it back overwrites the zero.
StopFlag ==
    /\ teardown = "flag"
    /\ s_ap_active' = FALSE
    /\ \/ s_ap_clients' = 0
       \/ /\ events # << >> /\ Head(events) \in {"join", "leave"}
          /\ UNCHANGED s_ap_clients
    /\ Teardown("done")
    /\ UNCHANGED <<s_ap_teardown_pending, dnsVars, ap_on, joined, events>>

TeardownDone ==
    /\ teardown = "done"
    /\ s_ap_teardown_pending' = FALSE
    /\ Teardown("none")
    /\ UNCHANGED <<s_ap_active, s_ap_clients, dnsVars, ap_on, joined, events>>
-----------------------------------------------------------------------------
(***************************************************************************)
(* captive_dns_task.                                                       *)
(***************************************************************************)
Dns(pc1) ==
    /\ dns' = pc1
    /\ UNCHANGED <<wifiVars, apVars, credVars, bkVars, lifeVars, linkVars, s_eth_up, age,
                   evt, fallback, improv, events>>

\* The stop request is seen, at most one receive timeout later; the socket closes.
DnsClose == dns = "run" /\ s_dns_stop /\ Dns("closing") /\ UNCHANGED s_dns_stop

\* The handle is cleared, and the request.
DnsEnd == dns = "closing" /\ Dns("none") /\ s_dns_stop' = FALSE
-----------------------------------------------------------------------------
(***************************************************************************)
(* The event task: event_cb and the Ethernet handlers, and the handlers of *)
(* the Improv backend for the same events.                                 *)
(***************************************************************************)
Next1(e) ==
    /\ evt = "idle" /\ events # << >> /\ Head(events) = e
    /\ events' = Tail(events)

StaDisconnected ==
    /\ Next1("disc")
    /\ s_connected' = FALSE
    /\ gotIp' = FALSE /\ connectFailed' = (connectFailed \/ connecting)
    /\ IF ~s_external_control /\ ssid # None /\ s_retry_count < MAX_RETRY
       THEN s_retry_count' = s_retry_count + 1 /\ sta' = Connect(drv, sta)
       ELSE UNCHANGED <<s_retry_count, sta>>
    /\ evt' = IF ~s_external_control /\ ssid # None /\ s_retry_count = MAX_RETRY /\ SoftApWanted
              THEN "mode" ELSE "idle"
    /\ UNCHANGED <<s_external_control, apVars, dnsVars, credVars, lifeVars, drv,
                   ap_on, joined, eth, s_eth_up, age, fallback, improv>>

StaGotIp ==
    /\ Next1("gotip")
    /\ s_connected' = TRUE /\ s_retry_count' = 0 /\ age' = 0
    /\ gotIp' = connecting
    /\ net_note_uplink_up
    /\ UNCHANGED <<s_external_control, s_ap_active, s_ap_clients, dnsVars, credVars, connectFailed,
                   lifeVars, linkVars, s_eth_up, evt, fallback, improv>>

Handled == UNCHANGED <<wifiVars, dnsVars, credVars, bkVars, lifeVars, linkVars, age, evt,
                       fallback, improv, s_ap_active>>

EthGotIp ==
    /\ Next1("ethip")
    /\ s_eth_up' = TRUE
    /\ net_note_uplink_up
    /\ Handled /\ UNCHANGED s_ap_clients

EthDisconnected ==
    /\ Next1("ethdown")
    /\ s_eth_up' = FALSE
    /\ Handled /\ UNCHANGED <<s_ap_clients, s_ap_teardown_pending, teardown>>

ApStaConnected ==
    /\ Next1("join")
    /\ s_ap_clients' = s_ap_clients + 1
    /\ Handled /\ UNCHANGED <<s_eth_up, s_ap_teardown_pending, teardown>>

\* Mutant: the count is not kept from falling below zero.
ApStaDisconnected_NoFloor ==
    /\ Next1("leave")
    /\ s_ap_clients' = s_ap_clients - 1
    /\ Handled /\ UNCHANGED <<s_eth_up, s_ap_teardown_pending, teardown>>

ApStaDisconnected ==
    /\ Next1("leave")
    /\ s_ap_clients' = IF s_ap_clients > 0 THEN s_ap_clients - 1 ELSE 0
    /\ Handled /\ UNCHANGED <<s_eth_up, s_ap_teardown_pending, teardown>>
-----------------------------------------------------------------------------
(***************************************************************************)
(* sta_recovery_task, every 60 s, and net_wdt_task, every 10 s.            *)
(***************************************************************************)
\* Mutant: the retry count starts afresh in every round.
Supervise_ClobbersRetry ==
    /\ recov /\ ~s_external_control /\ ~s_connected /\ ssid # None
    /\ s_retry_count' = 0
    /\ sta' = Connect(drv, sta)
    /\ UNCHANGED <<s_connected, s_external_control, apVars, dnsVars, credVars, bkVars, lifeVars,
                   drv, ap_on, joined, eth, s_eth_up, age, evt, fallback, improv, events>>

Supervise ==
    /\ recov /\ ~s_external_control /\ ~s_connected /\ ssid # None
    /\ s_retry_count' = IF s_ap_active THEN 0 ELSE s_retry_count
    /\ sta' = Connect(drv, sta)
    /\ UNCHANGED <<s_connected, s_external_control, apVars, dnsVars, credVars, bkVars, lifeVars,
                   drv, ap_on, joined, eth, s_eth_up, age, evt, fallback, improv, events>>

\* esp_restart: RAM is lost, the saved settings are not.
Reboot ==
    /\ phase' = "boot" /\ ssid' = None
    /\ s_connected' = FALSE /\ s_eth_up' = FALSE
    /\ s_ap_active' = FALSE /\ s_ap_clients' = 0
    /\ s_retry_count' = 0 /\ s_external_control' = FALSE
    /\ s_ap_teardown_pending' = FALSE /\ s_dns_stop' = FALSE
    /\ recov' = FALSE /\ age' = 0
    /\ evt' = "idle" /\ fallback' = "none" /\ teardown' = "none" /\ dns' = "none"
    /\ improv' = IdleImprov
    /\ connectFailed' = FALSE /\ gotIp' = FALSE
    /\ drv' = None /\ sta' = "idle" /\ ap_on' = FALSE /\ joined' = 0 /\ eth' = FALSE
    /\ events' = << >>
    /\ UNCHANGED wdt_enable

\* Mutant: an access point that is up stops the clock.
WdtPaused_ApActive == net_is_connected \/ s_ap_active \/ ssid = None

WdtPaused == net_is_connected \/ s_ap_clients > 0 \/ ssid = None

Age(a) ==
    /\ age' = a
    /\ UNCHANGED <<wifiVars, apVars, dnsVars, credVars, bkVars, lifeVars, linkVars, s_eth_up,
                   evt, fallback, improv, events>>

WdtPoll ==
    /\ phase = "run" /\ wdt_enable
    /\ \/ WdtPaused /\ age > 0 /\ Age(0)
       \/ ~WdtPaused /\ age < WdtTicks /\ Age(age + 1)
       \/ ~WdtPaused /\ age = WdtTicks /\ Reboot /\ UNCHANGED nvs
-----------------------------------------------------------------------------
(***************************************************************************)
(* The Improv task: the backend's tryConnect while the window is open, and *)
(* the end of the window.                                                  *)
(***************************************************************************)
ImprovRest ==
    UNCHANGED <<apVars, dnsVars, lifeVars, ap_on, joined, eth, s_eth_up, age,
                   evt, fallback>>

\* tryConnect returns; its flags are not read again.
TryReturns ==
    /\ improv' = [IdleImprov EXCEPT !.pc = "armed", !.tries = improv.tries]
    /\ connectFailed' = FALSE /\ gotIp' = FALSE
    /\ ImprovRest

\* tryConnect drops the old link.
TryDisconnect(n) ==
    /\ improv.pc = "armed" /\ improv.tries < MaxTries
    /\ improv' = [pc |-> "left", net |-> n, retried |-> FALSE, tries |-> improv.tries + 1]
    /\ IF sta = "idle" THEN UNCHANGED <<sta, events>>
       ELSE Room(1) /\ sta' = "idle" /\ events' = Append(events, "disc")
    /\ UNCHANGED <<wifiVars, apVars, dnsVars, credVars, connectFailed, gotIp, lifeVars, drv,
                   ap_on, joined, eth, s_eth_up, age, evt, fallback>>

\* It waits at most half a second for that, then sets the driver up for the new
\* network and connects.
TryConfigure ==
    /\ improv.pc = "left"
    /\ drv' = improv.net /\ sta' = Connect(drv', sta)
    /\ gotIp' = FALSE /\ connectFailed' = FALSE
    /\ improv' = [improv EXCEPT !.pc = "trying"]
    /\ ImprovRest
    /\ UNCHANGED <<wifiVars, nvs, ssid, events>>

\* One refusal is retried.
TryAgain ==
    /\ improv.pc = "trying" /\ ~gotIp /\ connectFailed /\ ~improv.retried
    /\ connectFailed' = FALSE
    /\ improv' = [improv EXCEPT !.retried = TRUE]
    /\ sta' = Connect(drv, sta)
    /\ UNCHANGED <<wifiVars, apVars, dnsVars, credVars, gotIp, lifeVars, drv, ap_on,
                   joined, eth, s_eth_up, age, evt, fallback, events>>

\* Success: on_connected_cb persists what was entered.
TrySucceeds ==
    /\ improv.pc = "trying" /\ gotIp
    /\ nvs' = improv.net /\ ssid' = improv.net
    /\ TryReturns
    /\ UNCHANGED <<wifiVars, drv, sta, events>>

\* The second refusal, or the deadline of 12 s.
TryFails ==
    /\ improv.pc = "trying" /\ ~gotIp
    /\ TryReturns
    /\ UNCHANGED <<wifiVars, nvs, ssid, drv, sta, events>>

\* No byte for 30 s or 120 s, or an hour: net_set_external_control(false).
WindowCloses ==
    /\ improv.pc = "armed"
    /\ s_external_control' = FALSE
    /\ IF ~s_connected /\ ~s_ap_active /\ ssid # None
       THEN s_retry_count' = 0 /\ sta' = Connect(drv, sta)
       ELSE UNCHANGED <<s_retry_count, sta>>
    /\ improv' = IdleImprov
    /\ ImprovRest
    /\ UNCHANGED <<s_connected, nvs, ssid, bkVars, drv, events>>
-----------------------------------------------------------------------------
(***************************************************************************)
(* POST /api/wifi and /api/wifi/reset.                                     *)
(***************************************************************************)
\* The driver keeps its configuration until the next boot.
SaveCreds(n) ==
    /\ phase = "run"
    /\ nvs' = n /\ ssid' = n
    /\ UNCHANGED <<wifiVars, apVars, dnsVars, bkVars, lifeVars, linkVars, s_eth_up, age, evt,
                   fallback, improv, events>>

\* delayed_reboot_task restarts the board half a second later: what happens until
\* then, without credentials, is lost with RAM.
ClearCreds == phase = "run" /\ nvs' = None /\ Reboot
-----------------------------------------------------------------------------
EventTask ==
    \/ StaDisconnected \/ StaGotIp \/ EthGotIp \/ EthDisconnected
    \/ ApStaConnected \/ ApStaDisconnected
    \/ EventApMode \/ EventApRaised
FallbackTask == FallbackFires \/ FallbackApMode \/ FallbackApRaised
TeardownTask == GraceOver \/ StopMode \/ StopFlag \/ TeardownDone
DnsTask      == DnsClose \/ DnsEnd
TryEnds      == TryConfigure \/ TryAgain \/ TrySucceeds \/ TryFails

Next ==
    \/ Boot
    \/ Associate \/ Lease \/ Refuse \/ Drop \/ EthLink \/ ClientJoins \/ ClientLeaves
    \/ EventTask \/ FallbackTask \/ TeardownTask \/ DnsTask
    \/ Supervise \/ WdtPoll
    \/ \E n \in Nets : TryDisconnect(n) \/ SaveCreds(n)
    \/ TryEnds \/ WindowCloses
    \/ ClearCreds

Spec == Init /\ [][Next]_vars

\* Tasks run, timers expire, the driver's attempt to associate ends one way or the
\* other.  Nothing is assumed of the network, which may never hand out an address,
\* of the cable or of the user.
FairSpec ==
    /\ Spec
    /\ WF_vars(Boot) /\ WF_vars(Associate \/ Refuse)
    /\ WF_vars(EventTask) /\ WF_vars(FallbackTask) /\ WF_vars(TeardownTask) /\ WF_vars(DnsTask)
    /\ WF_vars(Supervise) /\ WF_vars(WdtPoll)
    /\ WF_vars(TryEnds) /\ WF_vars(WindowCloses)
-----------------------------------------------------------------------------
Creds  == Nets \cup {None}
Events == {"disc", "gotip", "ethip", "ethdown", "join", "leave"}

\* Types, and the limits the code keeps: the reconnects never exceed MAX_RETRY
\* (net.c 203) and no more stations are counted than the access point admits.
TypeOK ==
    /\ nvs \in Creds /\ ssid \in Creds /\ drv \in Creds
    /\ {wdt_enable, s_connected, s_eth_up, s_ap_active, s_external_control, recov,
        s_ap_teardown_pending, s_dns_stop, connectFailed, gotIp, ap_on, eth}
           \subseteq BOOLEAN
    /\ phase \in {"boot", "run"} /\ sta \in {"idle", "joining", "assoc", "up"}
    /\ s_retry_count \in 0..MAX_RETRY /\ age \in 0..WdtTicks
    /\ s_ap_clients \in 0..MaxClients /\ joined \in 0..MaxClients
    /\ evt \in {"idle", "mode", "flag"} /\ fallback \in {"none", "wait", "mode", "flag"}
    /\ teardown \in {"none", "grace", "stop", "flag", "done"}
    /\ dns \in {"none", "run", "closing"}
    /\ improv \in [pc : {"closed", "armed", "left", "trying"}, net : Creds,
                   retried : BOOLEAN, tries : 0..MaxTries]
    /\ events \in Seq(Events) /\ Len(events) <= MaxEvents

\* What every status page and guard takes s_ap_active for: whenever no task is in
\* the middle of raising or dropping the access point, the flag says whether the
\* driver has one up (net.c 494-502 and 627-682, from three tasks, unlocked).
ApFlagTruthful ==
    ~Starting /\ teardown \notin {"stop", "flag"} => (s_ap_active <=> ap_on)

\* The count of stations that stops the watchdog is the number of stations: it
\* lags behind by the events not handled yet, but the teardown, which clears it
\* out of turn, leaves nothing behind that would keep the watchdog waiting for
\* nobody or cut somebody off (net.c 221-236, 415-455, 494-502).
ClientsCounted == events = << >> => s_ap_clients = joined

\* A board with credentials, its driver set up and its supervisor running does
\* not stay offline without offering a way in: it gets an uplink, or raises the
\* access point, whatever the supervisor, Improv and the cable do meanwhile
\* (net.c 185-215, 594-609, 689-715).  The one way out the code leaves is a station
\* that stays associated for good to a network that gives it no address: nothing is
\* disconnected, so nothing is counted, and connecting again has no effect.
OfflineFallsBack ==
    []((recov /\ ssid # None /\ drv # None /\ ~net_is_connected)
           => \/ <>(s_ap_active \/ net_is_connected \/ ssid = None \/ phase = "boot")
              \/ <>[](sta = "assoc"))

\* With the watchdog on, a board with credentials that is offline and has nobody
\* on its access point does not stay so: it gets an uplink or a client, or it
\* restarts (net.c 415-455).
WatchdogFires ==
    (wdt_enable /\ phase = "run" /\ ssid # None /\ ~net_is_connected /\ joined = 0)
        ~> (phase = "boot" \/ ssid = None \/ net_is_connected \/ joined > 0)
=============================================================================
