# CDC2NET: verification project

CDC2NET is ESP32 firmware that puts a serial device (a USB stick, or a radio on
a UART) on the network: raw TCP and RFC2217 clients on one port, a web interface
for configuration and updates, and on gateway boards a companion radio whose
firmware the host keeps in step. This directory holds TLA+ modules of its core,
the TLC configurations that check them on small instances, and proofs that the
TLA+ proof system checks for every value of the constants. All paths below are
under `src/firmware/main` unless they say otherwise.

## 1. Inventory

| Component | State | Operations | Concurrency, failures |
|---|---|---|---|
| bridge (`bridge.c`) | source pointer, sink table, TX lock (mode, owner, time stamp) | attach/detach source, attach sink, fanout of received bytes and of "device gone", `bridge_tx_to_source`, `bridge_set_tx_master` | called from every task; critical sections under `s_br.mtx` with unlocked calls in between |
| raw-TCP / RFC2217 sink (`sink_tcp.c`) | client slots, `ctrl_client`, telnet state per client, replay buffer | accept, receive, negotiate, subnegotiate, clean up, fanout to clients, drop clients, replay | one accept task, one task per client, source tasks; `S.mtx`; peers that stall or vanish |
| USB source (`source_usb.c`) with the CDC-ACM driver (`components/usb_host_cdc_acm/cdc_acm_host.c`) | handle, ready/connected flags, identity, line coding; the driver's list of open devices | enumerate, open, apply/revert coding, transmit, close, notify down | driver task and its callbacks, `stick_task`, callers of the vtable, on two cores; unplugging at any time |
| USB source on CherryUSB (`source_usb_cherry.c`) | claimed / want_close / rx_idle | the same on another stack | hub thread against `stick_task` |
| CherryUSB hub driver (`components/cherryusb`: `class/hub/usbh_hub.c`, `core/usbh_core.c`, port interrupts of `port/dwc2/usb_hc_dwc2.c`), vendored and patched | port structures, hub instance with poll timer and URB, address map, message queue | poll, debounce, reset, enumerate, release | interrupts and a timer against the hub thread; ports and hub unplugged at any step; failing transfers |
| UART source (`source_uart.c`) | line coding, ROM-banner matcher | receive, transmit, coding, reboot watch | receive task against vtable callers |
| line-coding store (`serialcfg.c`) | table of NVS blobs | look-up, upsert with eviction, delete | no lock; web server writes, source tasks read |
| radio staging and sync (`webui.c`, `radio_flash.c`) | `radio_fw` partition, the radio's flash | upload with commit marker, sync at boot | power or connection lost at any step |
| web interface (`webui.c`) | none of its own | OTA, radio and CUL updates, serial and network settings | httpd task against everything else |
| OTA (`ota_check.c`, `webui.c`, `main.c`) | install state, passive slot, watchdog registration | check, install, upload | background task against uploads |
| CUL DFU (`cul_dfu.c`, `webui.c`) | device handle, one transfer with its buffer | enter bootloader, erase with fallback, write, start | time-outs with late completions, refusals, the stick pulled during a run; shares the port with the USB source |
| network (`net.c`, `net_eth.c`) | STA/SoftAP/Ethernet state, timers | connect, fall back, recover | event task, timers, Improv |
| log ring (`log_buffer.c`) | ring, sequence numbers | append, read since | writers in any task, reader in httpd |

How they interact: the source calls the bridge (`rx_sink`,
`bridge_notify_source_down`), the bridge calls the sinks from a snapshot, a sink
sends through `bridge_tx_to_source`. The line coding of the source is set from
three sides: by `stick_task` when a device is opened, by an RFC2217 controller
through the bridge, and by the web interface directly; `serialcfg` holds the value
to fall back to. `radio_flash_sync` runs before the bridge is up and shares the
partition with the upload handler of the web interface. The USB source and the DFU
client are two clients of one host library: a stick that is told to jump into its
bootloader leaves the one and appears at the other, and the port is not given to
the next device before both have let go of the last.

What makes each part correct, in a line each:

- bridge: one TX master at a time as `bridge.h` describes it (the code does not keep
  that, section 3), no wedge, each event to each sink once, a detached source out of
  use;
- TCP sink: slots, tasks and controller stay consistent through drops and slot
  reuse; a session ends when its device goes; the wire belongs to the controller
  and is handed back;
- serialcfg: a bounded map, readable without a lock;
- radio: no incomplete application reaches the radio (an incomplete bootloader may,
  section 3), an interrupted write is noticed, a healthy radio is left alone, the boot
  always completes;
- USB source: only a device that is gone is torn down, the key is the attached
  stick's, a stick that is announced and stays is served in the end, one that leaves
  is closed, so that the port can take the next;
- CUL DFU: success is reported only for a stick that holds the whole image;
- hub driver: the status poll survives everything but the hub's end, ports agree
  with what is plugged in, addresses are not lost, nothing outlives its hub;
- CherryUSB source: no task uses an instance the stack has freed, the identity
  is the claimed device's, an unplug always completes;
- OTA: the board always has an image of its own to boot, only later versions are
  offered, downloads end, the watchdog comes back;
- network: a board with credentials ends up with an uplink or an access point unless
  it stays associated without an address, the access-point flag is true, the watchdog
  is not shadowed.

PROJECT.json lists the hazards behind these at the lines where they bite.

## 2. Modules

| Module | Models |
|---|---|
| `TxMaster` | abstract: the single-writer lock as `bridge.h` promises it (`Spec`), and with the one step that breaks the promise (`SpecWithOvertaking`) |
| `Bridge` | `bridge.c`; refines `TxMaster` with that step |
| `BridgeProofs` | theorems about `Bridge` |
| `PortLease` | abstract: a port with so many sessions, one of which may own the wire |
| `SinkTcp` | sessions and line coding: `sink_tcp.c` with `source_usb.c`, `source_uart.c` and `POST /api/serial`; refines `PortLease` |
| `SinkTcpProofs` | theorems about `SinkTcp` |
| `CfgStore` | abstract: a bounded map from device keys to codings |
| `SerialCfg` | `serialcfg.c`; refines `CfgStore` |
| `SettingsProofs` | theorems about `SerialCfg` and about `Net` |
| `StagedImage` | abstract: a staging area with nothing or one whole image, and a radio that gets it or nothing |
| `RadioStage` | `POST /api/radio`, `radio_flash_sync`, power failures; refines `StagedImage` |
| `RadioStageProofs` | theorems about `RadioStage` |
| `SourceUsbCherry` | `source_usb_cherry.c` against the hub thread of CherryUSB |
| `SourceUsbCherryProofs` | theorems about `SourceUsbCherry` |
| `Versions` | `parse_ver`, `cmp_ver` and the announced version's buffer in `ota_check.c`, with a definition of "later" without numbers |
| `Ota` | `POST /api/ota`, `ota_check.c`, the main task's watchdog, power failures |
| `OtaProofs` | theorems about `Ota` |
| `UsbBus` | the host library of esp-usb as its two clients use it (external) |
| `SourceUsb` | `source_usb.c` and the CDC-ACM driver under it: callbacks, open, close, `stick_task`, `op_tx` |
| `CulDfu` | `cul_dfu.c` and the bootloader it talks to |
| `UsbHost` | `SourceUsb` and `CulDfu` on one `UsbBus`, with `POST /api/cul/dfu/enter` |
| `UsbHostProofs` | theorems about `UsbHost`, and so about `SourceUsb` and `CulDfu` |
| `UsbHub` | CherryUSB's hub driver and enumeration |
| `UsbHubProofs` | theorems about `UsbHub` |
| `Net` | `net.c`, `net_eth.c`, the Improv window and its `tryConnect`, `/api/wifi` |
| `MC...` | instances of these for TLC |

An action is one critical section, or one unlocked call or access, of the code; what a
function reads in one section and uses in a later one is part of the model's state
(`call`, `loc`, `acc`, `web`, `rd`, `up`, the `pc` of a task). Operators keep the
names of the C functions where there is one. Operators commented "Mutant" are not part
of any specification: they are the plausible mistakes the properties are tested
against.

**Bridge.** `bridge_tx_to_source` is three sections (`TxCheckSource`,
`TxLockCheck`, `TxStamp`) around the unlocked transfer (`SourceTx`, which may
fail). The clock is `tx_age`, the time since the last stamp in ticks, saturated
just above the idle limit. A fanout is `EnterFanout` (the source has read
`rx_sink`), `SnapshotSinks`, one `CallSink` per sink, `LeaveFanout`; `sent`
and `heard` are history variables for the exactly-once property. Receive path and
transmitters look the source up in one section and use it later without the mutex;
`late` counts, for each of them, how often it used a source that was no longer
attached.

**SinkTcp.** A `client_task` is named by its connection, since after its cleanup it
runs on (it reverts the line coding) while its slot may serve somebody else. `Gate`
and `Admit` are separate because the readiness test holds no lock. `Cleanup`,
`RevertResolve` and `RevertApply` are the three parts of a controller's departure.
`tn_subneg` is `SubnegBegin` (ownership flag), `SubnegGet` (current coding),
`SubnegApply`. For `PortLease` a session is the socket in an active slot (`Sessions`)
and the owner the socket in the slot that `ctrl_client` names (`Owner`). `kind`
selects the source: `usb` (devices come and go), `uart`, and `ncp`, a UART radio with
the reboot watch that drops the clients of a source that stays ready. `xTaskCreate`
may fail in `Spawn`: nobody looks at its result, so the slot stays taken by a session
without a task (`unserved`). `WebKinds` is a bound: the kinds for which the web
interface acts beside the clients. Bytes, telnet framing and the replay buffer are
left out.

**SerialCfg.** The table is written by one task and scanned slot by slot by others.
`seen` records, for the look-up property, which values the key had meanwhile. Its
top-level operators carry the prefix `Cfg`, so that one proofs module can extend it
beside `Net`.

**RadioStage.** Partition and radio flash are six pieces: the first page of sector
0 (magic, chip id), the rest of it (bootloader), the radio's own data, the
descriptor, the rest of the application. A power failure may come between any two
pieces, also inside the write of sector 0 and inside the radio's erase, which may
also time out (`EraseTimeout`). The MD5 is equality of the pieces it covers. For
`StagedImage` the staged image is what the page with the magic belongs to (`Staged`),
with or without the bootloader behind it, and the radio has an application (`App`) when
all its pieces from the descriptor on are of one image: the abstract staging area is
about applications.

**SourceUsbCherry.** Two actors share one claim: the hub thread (`InterfaceStart`,
`StopEnter`, `StopWithdraw`, `StopWait` or `StopExpire`, `Disconnected`) and
`stick_task` (from `TakeConnect` to `Drop`), with a writer in `op_tx` and a caller of
`apply_lc` beside them. The stack's own steps (`Enumerate`, `Release`, `Free`) are
those of its serial class and core: enumeration and release of a port run in the
one hub thread, and a freed instance must not be touched.

**UsbBus, SourceUsb, CulDfu, UsbHost.** An enumeration is a number (`ses`), and so
is a handle: it tells an attachment from the next one of the same stick. `CdcEvent`
is the driver's task in `usb_event_cb`, with `new_dev_cb` or `event_cb`; `stick_task`
is one action per blocking call or shared access, from `TakeConnect` to `Close`. An open
is three steps: the driver opens the device (`OpenBegin`), claims its interfaces, starts
its transfers and lists it with `event_cb` (`OpenStart`), and a VCP driver sets up the
chip (`OpenOk`); it can fail at each of them (`OpenFail`). Only the end of a listed
device (`Listed`) reaches `event_cb`; that of another one is lost. The driver's task has
the higher priority (6 against 4), but core 0 to itself, while `stick_task` runs on
either core, so neither waits for the other: an open may find a device whose announcement
the driver's task has not handled yet. That announcement comes to nothing
(`usb_host_device_open` refuses a client that has the device open, line 926), and
`noted` records which enumeration `new_dev_cb` was last called for. A transfer submitted
to a device that has gone meanwhile aborts the program (`ESP_ERROR_CHECK`, lines 205 and
219); the board then starts anew, which is `Init` and no step of the model. In
`CulDfu` a control transfer is `CtrlFill`
(the buffer, also one in use), `CtrlSubmit`, and `CtrlAwait` or `CtrlTimeout`; a
transfer given up on stays `flying` and completes, is refused or ends with its device
later. `Result` is what `cul_dfu_flash` and the helpers it calls do with an answer.
A program memory is a state per block (old, blank, new, or mixed when a block is
written twice), so the order of erase and write shows. The image lies in one block
of the erase. The bytes of commands and the content of the EEPROM are left out.

**UsbHub.** `phys`, `chg`, `en` and `hubOk` are the wires: what is plugged in, the
hub's change bits, which devices have been reset and not pulled since, and whether the
hub answers at the address the driver uses. `child`, `hub`, `alloctab` and `last` are
the driver's structures, `mq` its queue. The thread is one action per control transfer
whose outcome matters, so a device or hub can vanish between any two. `Init` includes
a board that was reset alone, with the hub powered and its change bits collected by an
earlier life. Filling and submitting the poll is one step: the URB is idle then.
Channels of the controller are not modelled, nor that the ignored result of a submit
is `-USB_ERR_NOMEM` without one: the poll, the thread's control transfer and the four
transfers of the one stick in use are fewer than there are. Completions of the poll
other than data and NAK are unbounded, as the vendoring notes report them; control
transfers fail at most `MaxFaults` times besides those that fail because nobody is
there.

**Ota.** A slot holds two pieces of an image; what two writers leave in it need not
be one image, and `Verified` is what the boot loader and `esp_ota_set_boot_partition`
check of the slot. The watchdog of the main task is `s_wdt_on`, `s_wdt_paused` and
`subscribed`; `app_wdt_feed_main` is two steps, since the web server may pause
between its test and its `esp_task_wdt_add`. A version is a text: digits, dots and other
characters, of which `Versions` models what `sscanf("%d.%d.%d")` makes of it, missing and
longer parts, suffixes and the cut at the end of the buffer included. Blanks and signs,
which `%d` also takes, and numbers beyond an `int` are left out.

**Net.** The event task handles the queue `events` in order; the drivers post to it.
`net_start_softap` is three steps (early returns, driver mode, flag) and runs in the
event task (`evt`) and in the fallback task (`fallback`); `net_stop_softap` runs in
the teardown task. The Improv task holds `s_external_control` while its window is
open. `drv` is what the driver is configured for, which is not always `ssid`. The
watchdog's clock `age` counts polls. Assumed of the code outside the repository:
`esp_wifi_connect` has no effect while an attempt is under way, the station is
associated or nothing is configured, and leaving APSTA mode posts one event for each
station. The 10 s of grace do not end while a `net_start_softap` is under way.
`s_ap_clients` is counted by the event task and cleared by the teardown without a
lock, so the clear can be lost to a join or leave that is being handled (`StopFlag`).
`ClearCreds` includes the restart half a second later. `Associate` is the association,
of which no handler hears, and `Lease` the address (`IP_EVENT_STA_GOT_IP`), which may
never come.

## 3. Runs

Passing runs:

| Run | Instance | Shows |
|---|---|---|
| `bridge_lock` | 2 sinks, 1 id, 1 source, 2 callers, idle time 1 tick | `OvertakesOnlyInSilence`; `AutoTakeover` (fair) |
| `bridge_fanout` | 2 sinks, 2 sources, 2 chunks and one "device gone" of each source | `DetachedUsedOnce`, `FanoutExact` |
| `tcp_slots` | 2 slots, 3 connections, 2 USB devices in turn or 2 radio reboots | `ControllerIsServed`, `OneTaskPerSlot`, `AtMostOneStaleSession`, `ImplementsPortLease` |
| `tcp_wire` | 2 slots, 2 connections with 2 commands each, 2 USB devices, a UART, or a radio that reboots; web interface beside the UART | `WireReverts`, `SetByControllerOrDropped`; `DeadSessionsEnd` (fair) |
| `serialcfg` | 3 keys, 2 codings, 2 slots, 2 readers | `LookupRegular`, `ImplementsCfgStore` |
| `radio` | 6 pieces, 6 images of which 4 must be refused, 2 power failures | `AcceptedAppWhole`, `InSyncAppWhole`, `NoNeedlessRewrite`, `ImplementsStagedImage`, `BootCompletes` (fair) |
| `cherry` | 2 sticks on 2 ports, a writer, a line-coding request | `HandlesAlive`, `IdentityIntact`, `ClaimHasOwner`, `ReadyUntilPulled`, `UnplugCompletes` (fair) |
| `ota` | 2 slots, 4 images (the shipped one, a release, a foreign project's, another chip's), 691 announced texts of up to 10 characters against a buffer of 8, power failures at will | `AlwaysBoots`, `BootsOwnFirmware`, `OfferIsLater`, `InstallEnds`, `WatchdogRearmed` (fair) |
| `net` | 1 network, 1 reconnect, watchdog after 1 poll, 1 station, 1 Improv attempt, 2 events in the queue | `ApFlagTruthful`, `ClientsCounted`, `OfflineFallsBack`, `WatchdogFires` (fair) |
| `usbhost` | 1 stick with a serial number, 3 enumerations, 2 blocks, 1 flash, 1 late or refused transfer | `OnlyGoneTornDown`, `KeyOfAttached`, `FlashWhole`, `Served` (fair) |
| `hub` | 1 device, a hub with 2 ports, queue of 7, addresses 2 to 4, 2 changes on each side, 1 failed transfer | `AddressesAccounted`, `NoOrphans`, `PollAlive`, `PortsSettle` (fair) |

One run shows a promise of the sources broken: `bridge_promise`, the instance of
`bridge_lock`, finds `ImplementsTxMaster` violated (first entry under "Seen while
modelling").

Why the bounds are enough: the lock has one owner, so two sinks and two callers meet
every race for it, and one tick separates busy from idle; slot reuse needs one
connection more than there are slots, a swap needs two devices; eviction needs one
key more than there are slots; two commands of a connection are the taking of the
control and one request, and what is on the wire is told by its provenance, so that
one baud rate is enough; two power failures reach a failure during the recovery from
a failure. Two sticks are what one claim can be contended by; two images in one slot
are what two writers can mix; one reconnect tells the last from the others, one poll
a fed watchdog from an expired one, and two events are needed for one to be handled
while the next is pending. Three enumerations are application, bootloader and
application again, or an aborted open, a healthy one and its successor; two blocks
tell a whole image from a part of one. Three addresses wrap and run out; two ports
and one device make it move from port to port and from hub to root. `MaxPumps`, `MaxDowns`,
`MaxCommands`, `MaxGens`, `MaxDrops`, `MaxCuts`, `MaxTries`, `MaxClients`,
`MaxEvents`, `MaxSes`, `MaxFlash`, `MaxPlugs`, `MaxRoot` and `MaxFaults` bound what
peers, devices, users and power may do. Deadlock checking is off where the
environment is bounded and may simply stop (Bridge, SinkTcp, UsbHost, UsbHub). The
modules' `TypeOK` is in no run: it documents the state, and it is proved, as a part
of the inductive invariants of section 5.

Symmetry is used where the permuted sets appear only in equality tests and not with
liveness properties: connections in `tcp_slots`, sources in `bridge_fanout`, keys,
codings and readers in `serialcfg`.

Seen while modelling. Each entry marked (*) was found by TLC as a counterexample to
a property that was dropped for the weaker one that holds, or holds in fewer cases.

- TX lock. (*) In AUTO mode a claim leaves the old time stamp in place
  (`bridge.c:189-198`), and the stamp is set only after the transfer (225-228). While the
  first claimant's transfer is under way the lock therefore still counts as idle, and
  another sink claims it: two TX masters at once. `bridge.h:15-20` says that the stick
  tolerates only one TX master at a time, and `bridge.c:217-220` that the stamp comes
  after the transfer so that a slow one does not release the lock. `bridge_promise` shows
  it: a sink attaches at boot, when the line has been silent, and two tasks transmit for
  two sinks. `OvertakesOnlyInSilence` says that nothing else is wrong with the lock: a
  master is overtaken only when no transfer at all has been completed for the idle time.
  The firmware attaches one sink, so it cannot happen there today.
- Radio reboot. (*) `drop_all_clients_locked` clears `S.ctrl_client`
  (`sink_tcp.c:741`), so the controller's task finds `was_ctrl` false at 464 and does
  not revert. After a radio reboot, where the source stays open, the RFC2217 coding
  stays on the wire, against `sink_tcp.c:39-40`: "On controller disconnect the wire
  reverts to the device's NVS/global default". `WireReverts` is therefore about
  a source without the reboot watch; the run reaches the others, too.
- Torn commit. (*) `webui.c:681` writes the 4 KB of sector 0 in one call, and the magic
  stands in its first page. If power fails behind that page the rest of the sector, the
  bootloader's beginning, stays blank, and `radio_flash_sync` accepts the image: it looks
  at the magic and at the descriptor behind sector 0. It even flashes it, when the
  application differs from the radio's, and since only the application is compared by MD5 it
  never repairs the blank part. `radio_flash.c:122-127` and `webui.c:619-625` say that the
  order of the writes excludes an incomplete image. TLC refutes `AcceptedAppWhole` with all
  pieces from the first instead of those from `NV` on, in an upload and one power failure.
- Radio fence. (*) The partition is erased before the chip id of the new image is
  compared (`webui.c:611` against 650-657), so a refused image for another chip leaves
  a blank partition, and the same image sent again skips the comparison and is
  accepted. `webui.c:576-578` says of the fence: "Without this, a wrong-chip image
  would put the radio into a boot-loop that the self-healing sync re-flashes forever";
  the exception "A blank partition skips the check" is meant for the "first stage".
- Hub. (*) The change bits of a port are cleared in a loop that tries again for as
  long as the request fails (`usbh_hub.c:561-577`): a hub pulled between the read of
  the status and the clearing keeps the thread there for ever, and nothing is bound
  again without a reset, against `VENDORING.md:63`, "hub hot-plug re-binds the source
  without a reset". (*) The thread that enumerates a hub sends itself a message and
  waits for room in its own queue (`usb_osal_idf.c:128`); when the root port has
  bounced seven times meanwhile there is none. Both are the exception `Stuck` of
  `PortsSettle`. (*) A failed SET_ADDRESS loses its address (`usbh_core.c:388-392`,
  the structure does not hold it yet), and address 127 is never given back (74), which
  `AddressesAccounted` counts. Running out of addresses is not reported: `ret` holds
  the result of the last transfer (376). A port that does not settle ends the loop
  over all ports (`usbh_hub.c:618`), and their change bits wait for the next poll.
- Open of a USB stick. (*) The end of a device that leaves between
  `usb_host_device_open` (`cdc_acm_host.c:316`) and the entry in the list (225) is
  delivered to nobody (940-949). A submit to it aborts the program; if it leaves behind
  the last submit (220), the open of a native CDC-ACM device succeeds on a device that is
  gone: nothing else tests it (`source_usb.c:281-285` ignores the error). The source is
  ready, the port is held, and the next stick never enumerates. TLC refutes that an open
  device that is gone is closed; `Served` says it of devices that were listed in time. (*)
  A stick that `stick_task` finds before the driver's task has handled its announcement
  is never announced (926), so that its serial number is not recorded and its line coding
  is looked up under the last identity. If its open then fails while another kind of
  device was noted last, it is not found again either. Both take the two cores of the S3.
- USB source. (*) `op_revert_line_coding` takes `tx_mtx` against a torn key
  (`source_usb.c:359-363`), but `derive_key` (266) and the teardown (299) write it
  without. `op_tx` keeps a handle for up to 500 ms (323) that `stick_task` may close
  meanwhile (301), which frees it (`cdc_acm_host.c:256`). (*) `WireReverts` fails for a
  USB source whose device is torn down between reading the flag and applying the request.
  That the identity of the next stick survives the clearing at 300 rests on the
  library not recovering the port before the close at 301.
- CUL DFU. (*) A run whose stick was replugged half-way can report success without
  having erased what it started with: nothing ties `S.dev` to the device of the first
  transfer. `FlashWhole` is about runs whose transfers all went to one enumeration.
- Controller flag. (*) `sink_tcp.c:35-40` promises that the controller's requests are the
  only ones applied. The flag is read at 267 under the mutex and the request applied after
  it: when the clients are dropped in between (741-744, the device went or the radio
  rebooted), the request of a connection that is controller no longer is applied, after
  another client may have become controller. `SetByControllerOrDropped` says that this is
  the only case.
- Client tasks. The result of `xTaskCreate` (`sink_tcp.c:591`) is not looked at. When it
  fails the slot stays taken, with an open socket that nobody reads, until the board is
  restarted; dropping the clients only shuts the socket down. `DeadSessionsEnd` is about
  sessions that have a task.
- Sessions. (*) A session can exist without a device, since the accept gate is tested
  outside the mutex (`sink_tcp.c:540`); `AtMostOneStaleSession` shows the extent: one,
  never more. The comment at 538-539 reads as if there were none. (*) The revert of a
  controller that has left can overwrite what the next one was already told is set
  (`sink_tcp.c:470`). `POST /api/serial` tests the provenance of the coding and
  applies its own in two unlocked steps (`webui.c:1037-1040`). Deleting the entry of a
  UART source applies `serialcfg_default()` with the label "default" although the
  module's default may differ (`webui.c:1003`, compare `source_uart.c:373-375`).
- Radio. (*) A rewrite "to be safe" that loses power in the erase leaves a radio
  without a bootloader whose application matches; it is called in sync ever after.
  `radio_flash.h:17-20` describes a decision by descriptor where the code decides by
  MD5.
- CherryUSB. A device that starts between `rx_idle` (`source_usb_cherry.c:411`) and
  the release of the claim (423) finds the claim taken and is not opened. A replug
  before `stick_task` has run at all finds `want_close` set and is torn down at once.
- OTA. (*) The main task can be on the watchdog during an upload: a feed that has
  tested the pause flag adds the task again after the pause (`main.c:78-103`). An
  upload can overwrite the slot an install has just confirmed, in the half second
  before the restart; the board then boots the old slot or the new upload, and
  `AlwaysBoots` holds. (*) The deadline of an install (`ota_check.c:309-313`) covers
  the download loop; `esp_https_ota_begin` and `esp_https_ota_get_img_desc` come
  before it (274-289), and a server that stalls there leaves the state "running" and
  refuses every later install. `InstallEnds` is about the download. The upload loop
  retries a receive timeout without limit (`webui.c:452`).
- Network. (*) A station that is associated to a network whose DHCP server does not answer
  gets no event (`net.c:216` waits for one) and no retry, and the supervisor's
  `esp_wifi_connect` has no effect on it: no access point is raised, and only the watchdog,
  if it is enabled, ends it. `OfflineFallsBack` excepts a station that stays associated for
  good. (*) An uplink that returns between the teardown's test (`net.c:468`) and
  the clearing of `s_ap_teardown_pending` (471), or while the fallback task is
  switching the mode, leaves the open access point up beside the uplink. A start
  that sees the handle of a DNS responder that is closing (672 against 852) gets an
  access point without one. After a failed Improv attempt the driver is configured
  for the network that was tried, while the supervisor logs that it retries the
  stored one. A fresh board whose access point was raised without credentials has no
  supervisor, and one whose Ethernet cable is pulled after 130 s raises no access
  point; `OfflineFallsBack` is therefore about boards with credentials, a configured
  driver and a supervisor.

## 4. Fairness

- Bridge: the clock runs, and a task inside `bridge_tx_to_source` leaves it (short
  sections, a transfer with a timeout). Callers owe nothing: `AutoTakeover` is about
  a sink that keeps trying.
- SinkTcp: the scheduler runs the accept task, each client task that has something
  to do (`recv` returns on a socket that was shut down or hung up) and `stick_task`
  once a device is being opened or torn down. That a task can be created is not assumed.
  Peers, devices, reboots and the web
  interface owe nothing, and neither does a client owe a command.
- RadioStage: the boot sequence goes on. Power failures are bounded, uploads are not
  fair.
- SourceUsbCherry: both threads run; where a step takes `tx_mtx` the fairness is
  strong, since the hub thread has the highest priority and nobody holds the mutex
  for ever; a write ends once its device is gone. The 5 s limit of the stop hook is
  allowed but not relied on. Nobody has to plug or unplug anything.
- Ota: tasks run and timeouts expire. The release server and the peer of an upload
  may stall for ever; that a server sends the descriptor (`InstallBegin`) is not assumed.
- UsbHost: both clients' tasks run and transfers end. `stick_task` has strong fairness
  because it needs `tx_mtx`, which is handed to the waiting task when it is given.
  `OpenStart` and `OpenOk` have strong fairness too: a device that answers lets one of the
  opens, which are repeated every two seconds, succeed. Nobody has to plug, flash or enter anything.
- UsbHub: the poll timer expires, polls complete and not every one fails, and the hub
  thread runs, with the highest priority of all. Plugging is not fair.
- Net: tasks run, timers expire and the driver ends an attempt to associate, one way or
  the other. Nothing is assumed of the network (an address may never come), the cable,
  stations or users.

## 5. Proofs

Every safety property that a passing run checks but one (`OfferIsLater`) is proved for
every value of the constants (`PollAlive` under a condition, see below), and so are
the type invariants of the modules, which no run lists. Each proof has the same plan:
an inductive invariant, stated at the head of the proofs module in named parts, that
was first checked with TLC on an instance; one lemma for the initial states; a step
with one case per action; and one theorem per property that follows from it.

`BridgeProofs` (every set of sinks, sources, callers, ids, every table size and idle
time):

- `TypeCorrect`: `TypeOK` is inductive; it includes that a caller past the first
  section holds a source and that the owner index is in the table.
- `DetachedUsedAtMostOnce`: `[]DetachedUsedOnce`. Not inductive alone: an attached source
  has no late uses yet (`AttachedNotLate`), only the attached one is wired
  (`WiredIsAttached`), and who has been late once holds that source no more
  (`LateHoldsNoMore`).
- `FanoutCorrect`: `[]FanoutExact`. Not inductive alone: that a sink attached in the
  middle of a fanout starts even needs to know that the snapshot is never longer than
  the table (`SnapshotWithinTable`).
- `LockRefinement`: `Spec => OvertakesOnlyInSilence`, step by step under the mapping
  `Pinned`, `Master`, `Silent`, `Writers` of module `Bridge`. The stronger
  `ImplementsTxMaster` is false.

`SettingsProofs`, about `SerialCfg` (every number of slots, keys, codings and readers):

- `CfgTypeCorrect`, `KeysStayUnique`, `LookupCorrect`, `CfgRefinement`. The invariant
  `CfgInv` adds to the properties what a look-up at slot `i` knows (`ScanOK`): the
  present value has been seen, and either the key was absent at some moment since the
  look-up began or it is stored at `i` or later. It rests on entries never moving;
  compaction breaks it (see the mutant `delete_Compacts`).

`SettingsProofs`, about `Net` (every set of networks, every bound on retries, stations,
attempts and events):

- `NetTypeCorrect`, `ApFlagIsTruthful`, `StationsCounted` from `NetInv`. `ApOK` says
  what the three tasks that touch the access point know of each other's pending steps:
  nobody raises it while it is torn down, whoever is about to set the flag has switched
  the driver, and between the two steps of a teardown the one that is missing accounts
  for the difference. `CountOK` reads the outstanding join and leave events as a history
  of the number of stations (`Stations`): the count is the number before the first of
  them, or less after the teardown has cleared it, and then the number passes through
  zero on the way, since the mode switch has posted a leave for everybody; there the
  floor of `ApStaDisconnected` lets the count meet it again. Without the floor it does
  not.

`SinkTcpProofs` (every finite number of slots, every set of connections and codings,
every kind of source):

- `TypeCorrectness`, `SlotsMatched`, `ControllerServed`. `OneTaskPerSlot` is not
  inductive: `AcceptOK` says what `accept_task` holds between its steps and
  `SlotsServed` ties a task to the slot with its socket and back, so that a slot freed
  by a drop and used again is never taken for the old one. The count of active clients
  needs the cardinality lemmas, hence the finite set of slots.
- `OneStaleSession`. `StaleOK` says why there is at most one: it passed the gate before
  the device went down, so it is the one `accept_task` had in its hands, and while it is
  still there no slot holds another.
- `LeaseRefinement`: `Spec => ImplementsPortLease`. A socket is in one slot only
  (`SocketsDistinct`), so that closing a slot ends one session and, by
  `ControllerIsServed`, releases no other's ownership; that there are never more
  sessions than slots is an argument about cardinalities (`SessionsFit`).
- `ControllerOrDroppedSets`, for every kind of source: `RequestsOwned` follows the
  ownership flag a subnegotiation has read to its use. The control leaves a connection
  only by its own cleanup or by a drop, which shuts its socket down for good.
- `WireRevertsToDefault`: `WireReverts` speaks of `kind = "uart"`, the only kind for which
  the code keeps what `sink_tcp.c:39-40` says (section 3). `WireOK` follows an RFC2217
  coding on the wire to its controller or to a task on the way to revert it.

`RadioStageProofs` (every set of images, partition size and number of power failures):

- `AcceptedAppIsWhole`, `SyncedWhole`, `NoRewriteLoop`. `PageIsMarker` is what is left of
  the idea of the code, that sector 0 is erased first and written last: where its first
  page is present, everything behind sector 0 is the image it belongs to, while the rest
  of sector 0 may be missing. `UploadOK` says how far an
  upload has come and what it has left, `SyncOK` that the radio has what was written so
  far, `FreshOK` that a radio that was synced holds an application that is in the
  partition. What the sizes computed from the partition are is a lemma of its own
  (`ImgSizeHeld`).
- `StageRefinement`: `Spec => ImplementsStagedImage`. It needs one fact more, that the
  erase has taken everything before the first write (`AheadErased`): between the two the
  radio has no application, not a mixture with the old one, and it gets the new one in
  the step that writes the last piece.

`OtaProofs` (every set of images, whatever they claim to be):

- `NeverBricks`, `NoForeignFirmware`. Nobody writes the running slot
  (`RunningIntact`); an upload and an install that overwrite each other leave a header
  of this project's or none (`HeadersOwn`), which the install ensures by its look at the
  descriptor (`InstallChecked`). What the boot loader starts after any power failure
  follows (`BootedOwn`).

`SourceUsbCherryProofs` (every finite set of devices, every set of hub ports and
callers):

- `NoHandleOutlivesItsDevice`, `OwnIdentity`, `ClaimsOwned`, and the action property
  `ReadyUntilPulled` (`ReadyLasts`). `HandleOK` and `HubOK` are the two ends of the
  handshake of `usbh_serial_stop` with `stick_task`; `ClaimOK` ties the claim to one
  device until it is pulled, by name and by port, since a minor is used again for the
  next device (`DevicesDistinct`); `SignalOnce` keeps `stick_task` from serving a claim
  twice.

`UsbHubProofs` (every finite set of external ports, every set of devices, address
space, queue size and bound on what the environment does):

- `NobodyOrphaned` from `TreeInv`: the instance of the hub, the root port and the
  children stand and fall together.
- `AddressesAgree` from `AddrInv`: connected ports have distinct addresses, all of them
  marked as taken, and each failed transfer loses one address at most.
- `PollSurvives`: `[](roots + 1 < MqSize => PollAlive)`. `PollAlive` alone does not
  hold for every value of the constants: if the root port changes as often as `hub_mq`
  has places while the thread is busy, the message of the completed poll is lost and
  nobody starts the next one. TLC shows it with `MqSize = 2` and `MaxRoot = 4`. With
  the 7 places of the code it takes six changes of the root port while one message is
  handled; below that the theorem excludes it, and `MaxRoot = 2` of the run is below.

`UsbHostProofs` (every set of sticks, number of enumerations, blocks, faults and runs):

- `OnlyTheGone`, `OwnKey` from `PortInv`. While `stick_task` has a device open nothing
  else enumerates, so that this device is the last one (`SourceOK`); a disconnect signal
  that is pending then is about that device (`SignalOK`), which needs the drain in
  `TakeConnect`; and the serial number is the one of the attached device if `new_dev_cb`
  was last called for it (`noted`), in which case the key is derived from it
  (`IdentityOK`).
- `WholeFlash` from `FlashInv`. A transfer may be answered after the run has given it up,
  and the run then takes one answer for another, up to the end of the step. `CommandOK`
  says why that does no harm: the question for the result of an erase or a write is
  never answered "ok" unless the command had its effect, because otherwise it is still
  under way and the next transfer is refused, or it was refused itself and the
  bootloader reports an error until it is told to clear it, or the stick is gone.
  `WriteOK` and `LateOK` carry the effect from block to block and to the end. `XferOK`
  says that the device of the client only ever moves on to a later enumeration, which is
  what makes `xfer.ses = f.ses` at the end speak of the whole run.

Assumptions: the named `ASSUME`s of the modules only (NULL is not a member of the sets
it stands beside, sizes are naturals, the sets of slots, hub ports and CherryUSB devices
are finite, the shipped image is a valid one); TLC evaluates them in every run. The
theorems are about `Spec`, without fairness, so they hold of the fair specifications
of the runs too.

Only model-checked are `OfferIsLater`, which is about what functions defined by recursion
over the texts compute, and the liveness properties (`AutoTakeover`, `DeadSessionsEnd`,
`BootCompletes`, `UnplugCompletes`, `InstallEnds`, `WatchdogRearmed`,
`OfflineFallsBack`, `WatchdogFires`, `Served`, `PortsSettle`): liveness under fairness
is outside the prover's reach.

## 6. Not modelled, and the plan

Most of the repository's lines are not the project's own: of some 75 000 lines of C
about 64 000 are vendored under `firmware/components` (CherryUSB with its device side
and all its classes and ports, the mDNS library, Improv) and 1 500 are a generated
header of web assets. Only what the firmware patches or leans on in concurrent use is
modelled there: the hub driver, enumeration, the life of a serial instance and
Improv's connection attempt. The share of the whole repository that the modules stand
for is therefore small and will stay so; of the firmware's own C files it is about one
half, the rest being start-up, formatting of HTML and JSON, logging, register set-up
and the items below.

Not modelled because there is nothing to check: configuration scalars, health
counters, mDNS records, board support code, HTML and generated assets. Logging and
statistics are left out everywhere.

Left out of modules that exist: telnet framing, escaping and the replay buffer
(SinkTcp), line-coding values and the key copied by `op_revert_line_coding`
(SourceUsbCherry), scanning, the disconnect history and DNS bytes (Net), hubs behind
hubs, descriptors and the host controller's channels (UsbHub), blanks, signs and
overflow in version texts (Versions), erase commands after the first one (CulDfu), the
values of vendor set-up requests of VCP chips (SourceUsb).

Sequential code that a unit test reaches as well as a model does, and that is left to
one: the byte-level telnet parser of `process_rx`, the ROM-banner matcher of
`source_uart.c`, the copying of the log ring under its lock.

Still to come: telnet negotiation state per client and the replay buffer in SinkTcp,
and with them a specification of what a client that connects late is shown.
