# Formal models of BlueRetro

BlueRetro (`src/BlueRetro`) is the firmware of an ESP32 that connects Bluetooth
controllers to a game console. This directory holds TLA+ models of the parts of
it in which several threads, two cores, a Bluetooth controller, a file system
and remote devices meet; TLC configurations that check them on small instances;
and proofs, checked by TLAPS, that hold for every value of the constants.
Unless a module says otherwise the build is the default one of this repository
(hardware HW1); `SysMgr` models the hardware that is built into a console
(`CONFIG_BLUERETRO_HW2`), whose ports and power are the harder ones.

Line numbers in this file are those of `src/BlueRetro/main/...` unless the path
says otherwise. `README.md:NN` is the README of the repository, `src/README.md`.

Contents: 1 the system, 2 the modules, 3 the runs, 4 the proofs, 5 what the
models show about the code, 6 abstractions, 7 what is not modelled, 8 plan,
9 how to run.

## 1. The system

### 1.1 Threads

| Thread | Where | Core | What it does |
|---|---|---|---|
| Bluetooth controller and its VHCI callbacks (priority 23) | ESP-IDF; `bt_host_tx_pkt_ready`, `bt_host_rx_pkt` (bluetooth/host.c) | 0 | delivers HCI events and ACL data; **all event handlers run here, one after the other, each to its end** |
| `esp_timer` task (22) | adapter/adapter.c, kb_monitor.c, memory_card.c, bluetooth/hidp/ps*.c | 0 | stops rumble, repeats keys, stores the memory card, sends reports to PS3 and PS5 controllers |
| `bt_tx_task` (11) | bluetooth/host.c:217 | 0 | takes packets from the ring buffer `txq` and gives them to the controller |
| `bt_fb_task` (10) | bluetooth/host.c | 0 | takes feedback items (rumble, game id, memory card notes, player LEDs) from `queue_bss` |
| `bt_host_task` (5) | bluetooth/host.c:290 | 0 | parses the descriptors that service discovery found |
| `sys_mgr_task` (5) | system/manager.c | 0 | BOOT button, power and reset of the console, ports, system commands |
| wired loop | wired/*.c | 1 | bare metal: answers the console, bit by bit; feeds `queue_bss`; stops core 0 with `core0_stall` |

There is hardly a lock in the program. Threads communicate through lock-free
queues, atomic flag words, and plain shared memory.

### 1.2 Components

For each component: its state, its operations, what makes it hard, and what
makes it correct. The status is that of `PROJECT.json`, whose notes say what is
left out of the components that are modelled in part.

| Component | State and operations | Hard | Correct when | Status, module |
|---|---|---|---|---|
| Feedback queue (`components/queue_bss`, liblfds) | two rings of slot numbers, the slots; enqueue, dequeue, return | two cores, no lock, items used in place, return values nobody looks at | no slot is lost or in two hands; an item is dropped only when there is no room | modelled: `QueueBss` |
| Bluetooth device table (`bt_dev` in host.c) | a slot per device: flags, address, handle, port; look-ups, reset | every handler starts with a look-up, and slots are reused | a look-up finds the slot of the device that is meant | partly: `BtDevTable` |
| HCI connection handling (hci.c) | the slots, `inquiry_state`, the configuration link; a handler per event | events of several devices in any order, retries, two threads that start and stop the search | a device has one slot, none waits for ever, the search goes on | partly: `BtConnections` |
| HCI controller setup (hci.c) | the place in `bt_hci_config`, a retry counter, a static cursor over the LE keys | the handler does not know whose command completed | at the end every command has been accepted | modelled: `HciSetup` |
| Bluetooth transport (host.c, hci.c) | the one packet buffer, `txq`, `BT_CTRL_READY`; the one reassembly buffer | tasks preempt each other in the middle of a packet; a callback that waits | packets and frames are whole; nobody waits for himself | modelled: `HostTransport`, `AclReassembly` |
| L2CAP signalling, SDP client (l2cap.c, sdp.c) | flags, type and channels of a device; answers, the turn of `bt_host_task` | five things answered independently; a task that changes the type | reports are started on configured channels for the right type | partly: `HidLink` |
| Link key store (host.c) | 16 keys of each kind, a wrapping index, two files | a renewed key under the index; stores that are cut or fail | a controller is answered with its newest key or none | modelled: `LinkKeys` |
| SMP pairing (smp.c, hci.c) | two FIFOs of callbacks by slot, what a slot knows | disconnection while an answer is outstanding | an answer serves the pairing that asked | modelled: `SmpPairing` |
| ATT HID discovery (att_hid.c) | discovery state, tables of five reports | the table's limit, splits between answers | every input report the parser kept is subscribed to; tables keep apart | partly: `AttHid` |
| Web configuration (att_cfg.c) | prepared writes, file commands, OTA lock | it preempts the loader of the files | settings of one game do not reach another | partly: `ConfigStore` |
| System manager (manager.c) | mapping of devices to ports, command queue, power | devices come and go in the middle of a pass | a port has one controller | modelled: `SysMgr` |
| BOOT button (manager.c) | hold counter, thresholds, LEDs | - | the LEDs tell what the release will do | modelled: `BootButton` |
| Adapter core (adapter.c, kb_monitor.c) | keyboard state, typematic timer, rumble timers | a timer deleted in its own callback; two producers | no key and no motor stays on | partly: `KbMonitor`, `FbTimer` |
| Memory card (memory_card.c) | the card, a dirty bit per block, the file, a timer | four threads without a lock, stores that fail | what is written is stored in the end | modelled: `MemoryCard` |
| Configuration and game id (config.c, gameid.c) | three layouts, a file per game | upgrades, power cuts, crossing with the browser | usable settings in RAM; stored ones survive | modelled: `ConfigFile`, `ConfigStore` |
| Core synchronisation (core0_stall.c ...) | two words and an interrupt | each core waits for the other | both go on | partly: `Core0Stall` |
| HID protocols (hidp/*) | start-up sequences, calibration, the extension of a Wii Remote, the timer of PS3 motors | `bt_hid_init` again in mid-sequence; one timer handle for two purposes; answers for an extension that is gone | sticks are read with their own calibration, a motor stops, an extension is known | partly: `SwStart`, `Ps3Rumble`, `WiiStart` |
| HID descriptor parser (hid_parser.c) | cursor and stacks over bytes | limits | every report is described | not modelled |
| Conversions (adapter/wireless, adapter/wired) | none | arithmetic | a button lands where the tables say | not modelled |
| Wired protocols (wired/*) | command handlers, bit timing; of a PlayStation pad: two packet buffers, the mode, the motors | real time; commands that are obeyed a packet later | each command is obeyed once and in order | partly: `PsPort` |
| LEDs, FPGA, start-up, debug tools | output | - | - | not modelled |
| liblfds, Zephyr headers | vendored | - | - | the one queue in use: `BssRing` |

### 1.3 How they interact

The Bluetooth callback calls every handler; the handlers write the device table,
queue packets for `bt_tx_task` (`HostTransport`), store keys (`LinkKeys`), hand
descriptors to `bt_host_task` (`HidLink`) and commands to `sys_mgr_task`
(`SysMgr`). The wired loop of core 1 reads what the reports were converted to and
feeds rumble, game ids and memory card notes into `queue_bss` (`QueueBss`);
`bt_fb_task` takes them (`FbTimer`, `MemoryCard`, `ConfigStore`) and sends
feedback to the device it finds by port. `FbChannel` is what the users of the
queue rely on; `MemoryCard`, `FbTimer` and `KbMonitor` use a FIFO in its place.

## 2. The modules

| Module | Models | EXTENDS (project modules) |
|---|---|---|
| `FbChannel` | abstract: a bounded FIFO that refuses when full | |
| `BssRing` | the ring of liblfds, as the pieces its operations are made of | |
| `QueueBss` | `queue_bss` and its users, one access to shared state per step | `BssRing`; instantiates `FbChannel` |
| `Core0Stall` | `core0_stall`, one access to a shared word per step | |
| `KbMonitor` | the keyboard of one port and its typematic timer | |
| `FbTimer` | the rumble of a Dreamcast controller and its stop timer | |
| `PsPort` | a pad at a port of a PlayStation, with and without a multitap | |
| `BtDevTable` | `bt_dev` and its look-ups | |
| `BtConnections` | inquiry, scan, connecting, naming, disconnecting | `BtDevTable` |
| `HciSetup` | the walk through `bt_hci_config` | |
| `HidLink` | one BR/EDR controller from its name to its reports | |
| `SwStart` | the start-up of a Switch controller and its calibration | |
| `Ps3Rumble` | the motors of a PlayStation 3 controller and the timers of its slot | |
| `WiiStart` | the extensions of a Wii Remote | |
| `HostTransport` | packets to the Bluetooth controller, tasks by priority | |
| `AclReassembly` | frames in several ACL packets | |
| `LinkKeys` | the arrays of keys; the BR/EDR file and power cuts | |
| `SmpPairing` | pairing with BLE controllers | `LinkKeys` |
| `AttHid` | the discovery of the reports of a BLE controller | |
| `BootButton` | `boot_btn_hdl` | |
| `SysMgr` | `sys_mgr_task`: button, commands, ports, power | `BootButton` |
| `MemoryCard` | the memory card, one access to shared state per step | |
| `ConfigFile` | the layouts, their upgrades, load and store as operators | |
| `ConfigStore` | the configuration in RAM and in files, two threads, power cuts | `ConfigFile` |
| `QueueBssProofs` | proofs | `QueueBss`, `Core0Stall`, `KbMonitor`, `FbTimer`, `PsPort` |
| `HidLinkProofs` | proofs | `HidLink`, `SwStart` |
| `LinkKeysProofs` | proofs | `SmpPairing` and `LinkKeys`, `AttHid` |
| `HostTransportProofs` | proofs | `HostTransport`, `AclReassembly` |
| `StorageProofs` | proofs | `ConfigStore`, `MemoryCard` |
| `BtConnectionsProofs`, `HciSetupProofs`, `SysMgrProofs` | proofs | the module of that name |
| `MC...` | instances for TLC | see below |

`MCCores`, `MCHidLink`, `MCBleHid`, `MCHostTransport` and `MCSysMgr` hold several
machines that share no state. A variable `which` chooses one at the start, so that
a run explores the sum of their states and not the product; what does not run
stays at its beginning.

Variables carry the names of the C variables where there is one. Where a thread
is in a function is a `...pc` or `...at` variable. A definition that is wrong on
purpose is marked `mutant`: it is what a plausible mistake in the following
definition would look like, and is used only to see that a property notices the
mistake. Every property of a passing run has such a mutant, which violates it.
Variables named under "for the properties" or "history" in a module change
nothing; they record the accidents the code does not exclude, which the
properties then except by name.

### Between the cores: QueueBss, Core0Stall, KbMonitor, FbTimer, PsPort

`QueueBss`. `free` and `queue` are `item_free_state` and `item_queue_state`;
`item[s]` is what slot `s` holds. `Offer` ... `PublishQueue` are the steps of
`queue_bss_enqueue` (queue_bss.c:84), split where the other side can come
between: the look at the cursors, the read of the element, the move of the
cursor, the begin and the end of the `memcpy`, the store of the slot number and
its publication. `ItemSeen` ... `PublishFree` are the dequeue, the use in
place, and `queue_bss_return`. The barriers of liblfds order the stores, so a
sequentially consistent interleaving of these steps is what the two cores do.
`FbChannel` is what a user would like to know: items that fit are accepted until
the channel holds `Capacity` of them, the one being handled included, and are
received once each, in order. The refinement maps the channel to the contents
of the slots named by the live part of the queue ring. `PublishQueue` is the
moment an item is sent, `RetireQueue` the one it is received, and `PublishFree`
the one it is released.

`Core0Stall`. `core0_stall_start` does three stores and does not wait; the wired
loop waits later. The handler of core 0 says it is there, spins, and clears.
`missed` records the one race: the next section resets `core0_stall_end_var`
before the handler of the last one has read it.

`KbMonitor`. `KbReport`, then `UpdateKey` per key, are `kbmon_update` in the
Bluetooth callback, which interrupts the task of the timer; the steps of
`kbmon_typematic_cb` are the read of the key, the queueing of its code, and the
arming of the timer. The queue of codes is the FIFO that `QueueBss` implements.

`FbTimer`. `bt_fb_task` reads the handle, makes and arms a timer if there is
none, or deletes it and forgets the handle; the callback queues a stop, deletes and
clears the handle. What `esp_timer_delete` does with a timer that is armed depends
on the version of ESP-IDF: both outcomes are allowed.

`PsPort`. A step is a packet of the console to its end: `SinglePacket` and
`TapPacket` are `packet_end` (ps_spi.c:449) for a single pad and for a multitap,
`LeaveTap` and `CardPacket` what `spi_isr` does to packets it breaks off or that
are for the memory card. `rx_buf` has the command of the pad that is followed,
`Obey` is `ps_cmd_req_hdlr`. What the console has told (`session`, `asked`,
`wants`) is kept beside it, in the order it was told, and compared.

### Bluetooth below the profiles: BtConnections, HciSetup, HostTransport, AclReassembly

`BtConnections`. `dev` holds per slot what connecting uses of `struct bt_dev`. The
controller is external: `link` and `handleOf` per address, `inquiring`, `scan`, `adv`,
`reports` (advertising reports on their way), `naming` (remote name requests under
way). One action is one branch of `bt_hci_evt_hdlr`, called for whatever event the
controller may send in its state. A link may have any handle, 0 as well, which a slot
without a link has too. `misled` (whose link went down under handle 0, so that the
handler reset another slot) and `refused` (whose LE connection the controller refused
to make) are history. `mgr` is non-atomic: `bt_hci_start_inquiry` and
`bt_hci_stop_inquiry`, called by the task of lower priority, are two steps each,
between which any handler may run.

`HciSetup`. `bt_config_state` and `bt_hci_pkt_retry` are those of hci.c, `index`
is the static cursor of `bt_host_get_next_accept_le_bdaddr`. `pending` is the
controller's queue of commands, which it completes in order, well or not.

`HostTransport`. `Tasks` are those of core 0 that send: the callbacks of the
controller, the timers (those of PS3 and PS5 controllers send reports), `bt_fb_task`,
and `bt_host_task` with `sys_mgr_task`. A task fills the head and the body of the
shared buffer and adds the packet to `txq`, or waits for room; `bt_tx_task` waits for
a packet, then for `BT_CTRL_READY`, clears it and sends. A task takes a step only if
no task above it can (`Runs`); the packet in the hands of `bt_tx_task` still takes its
place in the ring. `AclReassembly` follows the fragments of several devices through
the one buffer of `bt_host_acl_hdlr`.

### Profiles: HidLink, SwStart, Ps3Rumble, WiiStart, LinkKeys, SmpPairing, AttHid

`HidLink`. `flags` are the `BT_DEV_...` flags, `type` is `ids.type`; `inited`
records the type `bt_hid_init` last ran for. `owed` are the questions the host
has asked and `chan`, `configs` the channels with the configuration messages that
came. The handlers are atomic; the turn of `bt_host_task` has five steps, since
handlers preempt it: it sees data, parses it, compares the type, initialises, and
clears the flag (host.c:296-320).

`SwStart`. `SubcmdAck` is `bt_hid_sw_hdlr` for an answer, which stores what it
reads and asks for the next; `asked` are the requests on their way. `Report` is a
report, which may make the tables of the conversion (`meta`). `Wipe` and
`SetLed` are `bt_hid_sw_init` when `bt_fb_task` calls it again, with any handler in
between; `Rumble` is a SET_LED that carries rumble (adapter/wireless/sw.c:420), whose
answer starts another chain of reads until the calibration has been read.
`cut` and `amid` record the two ways it leaves a wrong calibration.

`Ps3Rumble`. The steps of `bt_hid_cmd_ps3_set_conf` and of the callbacks, one access
to `timer_hdl`, `BT_DEV_FB_DELAY` or a timer each; `running` are the timers that
are armed, the one of the start-up as well as the one of the motors, and `Leave`
frees the slot while they run.

`WiiStart`. `WiiStatus`, `WiiRdData`, `WiiAck` are the branches of
`bt_hid_wii_hdlr`; the Remote and its user (`Plug`) are external: requests and
answers are two FIFOs, so that answers arrive after the extension they are about
has gone.

`LinkKeys`. `Put` is `bt_host_store_link_key`, its LE variants and the move of the
index. `LinkKeyNotify` then stores the array in its file: `StoreKeys` with any part
of its bytes (the index, `n` entries, half of the next: nobody looks at what `fwrite`
returns, and the power may go), or `StoreNothing` if the file cannot be opened
(host.c:166; the result is ignored at 652). After a `PowerCut`, at any moment, the
file is read, or cannot be opened. `spoilt` records of whom RAM, or the file, has an
old key or half of one.

`SmpPairing`. A value is named by what it was made from (whose random number, of which
pairing), so that a property can say a confirm value was made from the random number
that is sent later. `ctrl` are the commands LE_RAND and LE_ENCRYPT the Bluetooth
controller has not answered; `randq` and `encryptq` hold slots only. `PairingFail` is
PAIRING_FAILED from the remote end, at any time: it is printed (smp.c:289-294), and
the link stays. `stale` and `trouble` record what the FIFOs allow to go wrong.

`AttHid`. A database of attributes stands for a controller; answers carry as many
attributes as `chunk` says. `kept` are the reports of it that hid_parser.c:245-257 put
into `bt_data->reports`, one of each type it knows, without which
`bt_att_is_report_required` refuses an input report (`Required`). The tables of the
slots lie behind each other, as they do in memory. Where the attributes of a report
lie is arithmetic (`ChrcOf`, `RefOfReport`, `CccOf`): a report takes four, the output
report three. `Noted` is the loop over the attributes of an answer as one step: each
is noted at the index that `report_cnt` has there, which is a count of
characteristics.

### Tasks and files: SysMgr, BootButton, MemoryCard, ConfigStore

`BootButton`: `Held` is one turn of 10 ms; `Selected` the `state++` of an external
adapter and the switch that follows it. `SysMgr` puts it in the loop of
`sys_mgr_task`: `at` says what the task is at, `CmdStep` takes a command,
`PortFull`, `PortStep` and `PortsDone` go through `wired_port_hdl`, `PollOn`,
`StartSearch` and `PollOff` are `power_on_hdl`; connections, disconnections and
the search of the Bluetooth callback come between any two steps.

`MemoryCard`: `Copy`, `Mark`, `Notify` are `mc_write`; `TakeNote`, `FbStop`,
`FbStart` are `mc_start_update_timer` in `bt_fb_task`; `Fire` ... `CbStart` are the
callback. The contents of a block are the number of its last write.

`ConfigFile` has the bytes of a configuration as two parts with an owner and an
edit number, cut by lengths; a load brings what a file of some length holds, and
the upgrades of versions 0 and 1 move it. `ConfigStore` adds the threads: the
loader of a game id (`bt_fb_task`) and the commands of the browser, which preempt
it, with a step per call into the file system.

## 3. The runs

All bounds are constants of the configurations or guards named in the modules.

| Run | States | What it checks, and why the bounds are enough |
|---|---|---|
| `Cores` | 303,331 | `QueueBss` with a ring of 4 (three slots), two items that fit and one that does not: the ring fills, empties and wraps, each while the other side is in the middle of an operation. `KbMonitor` with two keys and three codes, so the queue overflows; `FbTimer` with three armed timers at a time and a queue of three; `Core0Stall` unbounded. `PsPort` with a command of each kind and letters of a game id that look like a command and like none; a behaviour ends where the console leaves a multitap with a command due or comes back to an old one (`switched`). |
| `BtConnections` | 4,053,218 | One BR/EDR and two interchangeable BLE controllers, one browser, two slots, the handles 0 and 1, two attempts: more devices than slots and than handles, so that slots and handles are fought for and reused, handle 0 among them; a retry that is made and one that is not; a connection that is refused. One device at most is `misled` (`OneMisled`). |
| `BtConnectionsLive` | 161,870 | One device of each kind, three attempts, without automatic inquiry: `BrAttemptEnds` under fairness of the page. Apart because liveness over the larger instance takes several times as long. |
| `HciSetup` | 18,501 | A table with one entry of each kind (8 of the code's entries stand for all), two keys, three retries, six errors: enough for a restart in the middle of which further commands fail. The system really stops (deadlock is allowed): setup done, controller idle. |
| `HostTransport` | 237,423 | A ring of one packet, so that one handler fills it, bursts of two packets, a sender of each of the four priorities that send (a longer ring with four senders is beyond TLC; the theorems hold for any); two devices with frames of up to three fragments. |
| `BleHid` | 440,124 | Keys: two entries, three controllers, four keys, two power cuts: entries are evicted and renewed on either side of the index, with stores that end anywhere or fail. Pairing: two slots, three pairings, rings of four, one failing command; only the first pairing is given up by its remote end (`FirstGivesUp`). Discovery: four databases with reports that the parser did not keep, among them one with six reports and one whose last service is a single attribute, in two neighbouring slots, two discoveries, one refusal. |
| `SysMgr` | 910,645 | Two devices, two ports, one command waiting; the whole range of thresholds of the button, with holds of up to 640 turns (the last threshold is 600), alone. |
| `HidLink` | 128,041 | The link is unbounded: one device, all its answers in every order, for ever. Switch: three starts, so that one comes amid the sequence of another and one after it, or a rumble in place of one (`ThreeChains`). PS3: three timers, so that the slot's next controller arms one while those of the one before run. Wii: the extension is changed four times and the LEDs once, so that a third extension is put in while answers for the first are on their way. |
| `MemoryCard` | 376,198 | Two blocks, two writers, three writes, one `fopen` or `fwrite` that fails, a queue of two, one file to leak: two writes of one block around a store, and one of another; each resource runs out. |
| `ConfigStore` | 2,503,305 | Two games (interchangeable) and the default file, each starting in any version or absent; two edits, one accident (a failed `fopen` or a power cut). What follows a crossing (section 5) is cut off: three of the properties promise nothing after it, and the fourth, `SettingsUsable`, is proved for it as well. |
| `QueueBssTwoProducers`, `BtTwoBle` | - | Each is expected to be violated; see section 5. |

What the properties say of the code:

- `DroppedOnlyWhenFull`, `ImplementsChannel`: with one producer nothing is lost,
  duplicated, torn or reordered in the feedback queue, and it implements
  `FbChannel`, liveness included.
- `PadObeys`: a pad is in the configuration mode when the console put it there, has
  afterwards the mode it was told, and no motor runs that was told to stop, also
  at a multitap, where a command is obeyed a packet later from the other buffer.
  Excepted are the accidents of section 5, 20.
- `KeysAgree`: when all is quiet, the console believes the keys down that are
    down, with three exceptions: an update came amid the
  typematic callback, a code was dropped, the keyboard went with keys held. There is
  no other while the queue of codes is the FIFO it stands for; what two producers do
  to the ring (section 5, 1) comes on top.
- `StallEnds`: core 0 gets out of the stall, unless the next section begins
  before core 0 has read the word that ends this one (`missed`): then both
  cores wait for ever.
- `RumbleStops`: a motor that runs is stopped, unless the queue was full or the
  timer could not be armed.
- `OneSlotPerDevice`: in every order of inquiry results, connection requests
  and advertising reports, a device gets one slot. It depends on each handler's
  look-up by address, and on the reset of the slot, not on the link.
- `HandleFindsDevice`: packets and `DISCONN_COMPLETE` carry a handle only; it
    leads to the right slot, although look-ups do not ask whether the slot is
  connected. Handle 0 may lead to a slot without a link instead, but never to that of
  another connected device.
- `StrandedByAccidentOnly`: no slot waits for an event that cannot come, but for two
  accidents: the controller refused to make the LE connection, or the device's link
  went down with handle 0 and the reset of another slot. `NoSlotStranded` is the same
  without the accidents, and is violated (`BtTwoBle`).
- `SearchResumes`: the adapter looks for devices again after the last one went,
  although two threads start and stop the search without a lock.
- `OrphanedByNameOnly`: the only way for a live link to lose its slot. The code
  keeps such a link open, and the PIN and link key handlers (hci.c:1750, 1768)
  dereference the null slot if the device asks.
- `BrAttemptEnds`: an attempt to connect over BR/EDR ends, in a link or in a
  free slot.
- `AllAcknowledged`: at the end of the setup every command has been accepted,
  if the walk had the controller to itself (`shared` says when it had not).
  `BondedAccepted` holds without errors: the key of a failed command is skipped,
  and a restart loads nothing, as its cursor is static. `SetupEnds`: it ends.
- `TornFromAbove`: a packet is torn only by a task of higher priority (of a timer's
  packet by a handler, of one of `bt_fb_task` by either), unless
  its sender had to wait for room. `PacketsLeave`: what is queued is
  sent, although the callback of the controller may wait for room itself.
- `FramesWhole`: a frame that is handed on is one device's, whole and in order,
  unless two devices sent frames in fragments at the same time.
- `UsedWhenConfigured`: the host keeps one flag per channel for two messages.
- `InitialisedForType`: the race of `bt_host_task` with the interrupt channel
  is harmless: whichever comes second calls `bt_hid_init` with the right type.
  (It is limited to controllers the adapter paged: one that paged the adapter
  may have its channels ready before the name is known.)
- `ReportsStart`: no order of answers leaves a connected controller mute.
- `OwnCalibrationUsed`: the sticks of a Switch controller are read with all of the
    calibration it holds, although `bt_hid_sw_init` wipes it whenever the LEDs
  change and rumbles add chains of reads, but for the two races `cut` and `amid`.
- `Ps3Stops`: a motor the console wants to stop stops, though a stop that comes
  soon after a start is only noted for the callback of a timer; but for the
  two ways in which it is lost (`swallowed`).
- `ExtensionKnown`: however often the user changes the extension of a Wii Remote,
  in the end it is known for what it is and reports come.
- `NewestKeyOrNone`: through renewals, evictions and stores that are cut or fail, a
  controller is answered with its newest key or none, unless the file that was read
  has its old key, as it could not be opened for the new one, or half of a key.
- `ConfirmsItsRandom`, `KeysOfOnePairing`, `PairingEnds`: the confirm value the
  remote end gets is of the random number it gets next; the two parts of a
  stored key are of one pairing; a pairing ends, if its remote end does not give it up
  with PAIRING_FAILED. Each excepts slots with answers
  outstanding for their last device, and the troubles section 5 lists.
- `TablesApart`, `AllSubscribed`, `DiscoveryEnds`: up to four reports, the discovery
  of a slot leaves its neighbour alone, subscribes to all input reports that the
  parser kept and to nothing else, and ends if no request is refused and the last
  service is no single attribute.
- `LedTellsAction`: the LEDs identify the action in both kinds of adapter.
- `PortsApart`: two controllers that send reports never drive one port, nor that
  of a wired controller, once `wired_port_hdl` has seen them.
- `InquiryFollowsPower`: a console that stays on with room for a controller is
  searched for one, and one that stays off is not, unless somebody said so.
- `LostOnlyByRace`, `AllStored`: what is written to the memory card is stored,
  with three exceptions: a write between `fwrite` and `atomic_clear_bit`
  (memory_card.c:117), a full feedback queue, an `fopen` that failed, since nobody arms the
  timer again until the next write. There is no other while
  the feedback queue is the FIFO it stands for; a note that two producers lose
  (section 5, 1) comes on top.
- `FilesKeepApart`, `SourceIsTrue`: a file has the settings that were made for
  it, and `config_src` says which file RAM is from, unless the browser came
  between a game id and the end of its load (`crossed`), or a store was cut or failed.
  `SettingsUsable`: what RAM has can be used, wherever the power goes, except amid
  an upgrade, and unless a file could not be opened. `SettingsSurvive`: what was
  stored is found again, unless a store was cut or failed, or the file is of version 0.

### 3.1 Fairness

- `QueueBss`: `bt_fb_task` is an endless loop: weak fairness of its steps.
  None for producers: they may stop.
- `Core0Stall`: core 1 never stops within a section, and the interrupt of core 0
  is not masked for ever. `FbTimer`: `bt_fb_task` is scheduled, and armed timers
  fire.
- `BtConnectionsLive`: the controller ends each page by the page timeout:
  weak fairness of `BrCompletes`. HCI_LE_Create_Connection has no timeout, so
  there is none for LE, and no property claims an LE attempt ends.
- `HciSetup`: the controller completes every command (HCI requires it).
- `HostTransport`: the callback runs to the end of its packet (weak fairness);
  a timer's callback, `bt_tx_task` and the controller's next *ready* are enabled and
  disabled by the tasks above, which do not send for ever: strong fairness of each.
- `HidLink`: L2CAP obliges an end to answer requests (weak fairness per
  channel), and `bt_host_task` loops for ever. Nothing obliges a device to stay,
  or the controller to authenticate; `ReportsStart` therefore starts from the
  opened control channel and excepts refusals and departures.
- `Ps3Rumble`: `bt_fb_task` and the task of the timers are scheduled, and armed
  timers expire. The start of one is enabled again and again when callbacks and
  handles change in between: strong fairness of the callbacks, weak of the rest.
- `WiiStart`: a Remote does what it is asked, and what it tells is heard: weak
  fairness of both. None for its user.
- `SmpPairing`, `AttHid`: SMP and ATT have a transaction timeout of 30 s, after which
  the link is closed: the remote end answers, goes, or says PAIRING_FAILED (after
  which nothing is promised: `PairingEnds` excepts it); the Bluetooth controller
  completes LE_RAND and LE_ENCRYPT.
- `SysMgr`: the task, an endless loop, is scheduled.
- `MemoryCard`: a call of `mc_write` ends; `bt_fb_task` takes the items in the
  order they came, so a note is not passed over for ever by other items (strong
  fairness of `TakeNote`, which other items may disable again and again); the
  timer task runs.

## 4. The proofs

All with `tlapm`, from the assumptions named in the modules.

**QueueBssProofs**, for a ring of any size `N >= 2`, any items, **one
producer**. `Conservation` and `SingleOwner` are not inductive: that a slot is in
one place only depends on what each side has read before it moves its cursor.
`IndInv` adds `EntriesAreSlots` and what each side knows between two steps
(`ProducerKnows`, `ConsumerKnows`: the ring is still non-empty, the slot read is
still the front one, the slot just stored is behind the cursor). The lemmas
about `Count`, `Live`, `Position` under `Retire`, `Store` and `Publish` carry the
arithmetic of the wrap-around. Theorems: `Invariant`, `TypeCorrect`,
`SlotsConserved`, `SlotsOwned`, `PushesSucceed` (the *Queue full!* branch and
the unchecked failure of `queue_bss_return` are dead code), `DropsAreJustified`,
and `ChannelRefinement`: initial states map to initial states and each step to
a step of `FbChannel` or a stutter. One producer is what the theorems need and
what the code does not guarantee: see `QueueBssTwoProducers`.
The module also proves `SectionsHold` of `Core0Stall` (unless the one race
happens, core 0 is held from the start to the end of the same section; `StallInv`
adds in which order the words are reset and what the handler waits for) and
`StopOnItsWay` of `FbTimer` (while the motor runs a timer is armed, or the stop is
queued or under way, or `trouble` says why not; `FbInv` adds that a handle in hand
belongs to the timer that is armed), for any number of timers; and `PadsObey` of
`PsPort`, whatever the console sends: `PsInv` adds that the command that is due is
in the other buffer (`DueIsInBuffer`), that every configuration leads to the mode
that was asked for (`PendingIsAsked`), and that the motor follows `last_rumble` but
for what the queue dropped (`RumbleKnown`). `KeysStayInStep` is `KeysAgree` of
`KbMonitor` for any number of keys and a queue of any length. `KeysAgree` speaks of
the moments when nothing is on its way; `KbInv` speaks of all of them: the last code
about a key that is queued, or else what the console holds, is what the last report
that went through said of it (`AllTold`, with `Settles`), and what repeats is a key of
that report (`RepeatsHeld`).

**BtConnectionsProofs**, for any number of slots, controllers, browsers, handles and
retries. `TypeCorrect` (the look-ups stay in the table, the retry counter below its
limit), `DeviceHasOneSlot`, `InquiryIsNoted` and `SearchIsResumed` hold as they are.
For the handles, `IndInv` adds that a slot has its link's handle, and 0 without a link
(`SlotsFollowLinks`), that no two links share a handle (`HandlesDiffer`), and that a
reported device is not linked (`ReportsUnlinked`: the report handler does not look).
Nothing is assumed of the handles, which may be 0, or of the number of BLE
controllers. `Invariant`, `HandleIsOfDevice` and `OrphansAreUnnamed` hold in any case.
`ScanComesBack` rests on `LeAskedHasSlot` (an attempt over LE always has a slot, whose
reset turns the scan on again), which the end of a link with handle 0 breaks when it
resets that slot: it holds as long as nobody was `misled`. `NothingStranded` is
`StrandedByAccidentOnly`: every step leaves each slot attended to, or its device in
`misled` or `refused`. The look-ups return the first slot that fits; that there is one
is the well-foundedness of the naturals (`LeastSlot`), and the rest of the proofs use
only what a look-up returns (`DevOfAddr`, `DevOfHandle`, `NewDevIsFree`,
`ActiveDevMeans`).

**HciSetupProofs**, for a table of any length, any number of keys, retries and
errors. `Walk`: one command is under way, the one the state points at, and all
earlier entries are accepted. `Loading`: the accept list has the keys that the
cursor has passed. `EveryCommandAccepted`, `EveryBondAccepted` follow at the end.

**HidLinkProofs**: `IndInv` relates the flags, the type, the channels and the place of
`bt_host_task`; a slot that is claimed again has nothing left of the device before but
the flag of the parser. `OnlyConfiguredUsed` and `InitialisedRight` follow.
`CalibrationIsItsOwn` is `OwnCalibrationUsed` of `SwStart` for any number of starts
and rumbles. A second start wipes the calibration while requests of the first are
under way, so the invariant cannot say which part has been read; it says which
requests must be gone before a part is certain (`CalibrationRead`): each request is
asked for by the answer to the one before, so when no earlier one is under way either,
the chain that the last wipe started has got the answer. The first two requests of a
chain that a rumble adds have names of their own (`RUMBLE`, `RUMBLE_EN`), since no
wipe came before it.

**HostTransportProofs**, for a ring of any size and bursts of any length. The
priorities are the argument: when a task is in the middle of a packet, only
tasks above it have moved since (`Own`), and each of those has finished. With the
state of *ready* against that of the controller, `Transport` gives
`NeverTornFromBelow` and `ControllerReady`. For frames of any number of
fragments and devices, `NeverHalfAFrame`: the buffer holds the beginning of one
frame (`OneFrame`), unless two were mixed.

**LinkKeysProofs**, for arrays of any size: `KeysInv` (RAM and file have one entry per
device, with its newest key unless it is `spoilt` there) is inductive, for stores that
end at any byte or never begin (`WrittenFact`); `NewestOrNone` follows. For
`SmpPairing`, with any number of slots, remote ends, pairings and errors:
`KeysAreOfOnePairing` and `ConfirmsStaySound`. The code holds slots in its FIFOs and
nothing else, so what has to be invariant is that the FIFOs go with the commands of
the Bluetooth controller: `Pairing` is an order-preserving map from the entries of a
ring onto the commands of its kind, under which an entry whose slot is `Sound` gets a
value of that slot's pairing (`RandFits`, `EncryptFits`). `Progress` says per slot
what its phase and its random value tell of the answers that are left (the first half
comes first); `StartsSound` that a link is encrypted with the key of its pairing.
These three hold without `trouble`; that the two parts of a key agree (`BondsStored`)
also with all of it but a key of which one half came (the link went, or the remote end
said PAIRING_FAILED, between the halves); that slots in use have different remote ends
(`SlotsUsed`), always. For `AttHid`, with any number of slots, controllers and
discoveries, and attributes spread over the answers in any way: `TablesStayApart` and
`InputsSubscribed`. What the loop of one answer leaves does not look like what the
code is after: `report_cnt` is one behind, by the report that no characteristic has
followed yet, and counts only what came since the answer began. `Scanned` says what
the table holds when the answers so far went up to a handle, as a function of that
handle alone; `NotedFact` that one more answer leads from `Scanned` at the handle
before it to `Scanned` at its last one. The count of the characteristics of an answer
is the difference of the reports at its ends (`CountFact`, by a bijection with an
interval), and a characteristic counts just if it begins a report other than the first
(`NextsFact`). `Stage` adds what the other requests rest on: references are read in
the order of the reports, and the inputs subscribed to are those of `Required` (input
reports that the parser kept) below the one under way. `DiscoveryInvariant` holds of
each slot whose table was not touched from the one before, until it goes beyond its
own; `OthersKept` says that an action of one slot touches no other table without
`spoiled` telling.

**SysMgrProofs**, for any number of devices and ports: during a pass the devices
it has been through have ports that increase strictly, below `idx`, and `idx` is
the next port until the ports run out (`PassInv`). The search for the next free
port is a step per port in the model, since the prover has no induction. From
it `DifferentPorts`; `LedsTell` for holds of any length.

**StorageProofs**. The memory card, for any number of blocks, writers, writes,
failures, files and queue places: `LostOnlyByRace` is inductive together with
`StoredIsNoted` (between store and `Clear` a newer write is about to be marked, or
raced) and `PickedIsMarked`; `WorkIsUnderWay` on the types alone. The configuration,
for any games and any number of edits, failures and power cuts: `FilesStayApart`,
`SourceStaysTrue`, `SettingsStayUsable` and `SettingsDoSurvive`, all four properties of
its run, from one invariant (`StoreInvariant`). `StoreInv` relates the files and the
RAM at every place a thread can be at in config.c: which lengths a file can have
(`Shapes`), which file is in hand and that it is there (`Names`, `Found`), what magic
stands before and after each of the two stores of an upgrade (`Magic`, and `Layouts`
while nothing failed), that the loader and the browser are in each other's way only
when `crossed` says so (`OneAtATime`), whose the settings in RAM and in hand are while
`config_src` already names another file (`Apart`), and that none is lost on the way
(`Survive`).

Only model-checked: liveness (`ReportsStart`, `AllStored`, `BrAttemptEnds`,
`SetupEnds`, `StallEnds`, `RumbleStops`, `PacketsLeave`, `PairingEnds`,
`DiscoveryEnds`, `InquiryFollowsPower`, `Ps3Stops`, `ExtensionKnown`, the fairness part of
`ImplementsChannel`), which this prover does not treat, nor `ENABLED`. Every invariant
of the runs is stated by a theorem. Out of its reach as well: induction over data and
RECURSIVE operators; no module that is proved about has one.

## 5. What the models show about the code

Two of these are runs that are expected to end in a violation:

1. **Two producers on a single-producer ring** (`QueueBssTwoProducers`).
   `adapter_q_fb` is called on core 1 by the wired loops and on core 0 by the
   rumble timer, `sys_mgr_task` and the web configuration. liblfds' queue takes
   one producer. Two threads take the same slot. (`kbmon_update` and the typematic
   callback are two producers of the queue of codes as well.)
2. **A second BLE controller strands its slot** (`BtTwoBle`). A report that
   is on its way while a connection is being made claims a slot; the controller
   refuses the second HCI_LE_Create_Connection with a Command Status, of which
   hci.c:1723-1731 only prints the error. That controller cannot connect
   until the adapter restarts.

The others came up while modelling. They are in the models, as outcomes that are
allowed, or as the exceptions the properties name:

3. **Handle 0.** A slot that is found and not connected has `acl_handle` 0; look-ups
   by handle find it for a link whose handle is 0, as BLE links of the ESP32 can have.
   When that link ends, the slot found is reset, that of a device which is being
   connected to: the LE scan can stay off, and the slot of the link that ended stays,
   to wait for an event that does not come (`misled`).
4. **The memory card leaks files.** A callback that finds no block marked returns
   without `fclose` (memory_card.c:107-113). A write stored by an earlier callback
   causes one; after `max_files` of them nothing can be opened; with fewer, an `fopen`
   of the memory card or of another file fails while others are open.
5. **The factory reset comes after three seconds**, not ten (README.md:54), on an
   external adapter: manager.c:400-402.
6. **A short press** disconnects all devices (README.md:46); while an inquiry is
   going on it only stops the inquiry (manager.c:390).
7. **The configuration interface** is turned off when an attempt to connect starts
   (hci.c:1105, 1360) and on again only on a disconnection (hci.c:1406, 1416): an
   attempt that fails leaves it off (`adv` in `BtConnections`).
8. **The upgrade from version 0 loses the settings**: `config_v0_update` shortens
   the file to the length of version 2's layout, and `config_v1_update` then finds 6
   of 12 records. A power cut, or an `fopen` that fails, between the two stores of
   that upgrade leaves the newest magic over an older layout for good.
9. **Update of the firmware.** `ota_hdl` left by a browser that went away makes later
   commands be acknowledged and do nothing. Prepared writes that are cancelled stay in
   RAM; they are settings of whatever file RAM holds. When a game is loaded between
   two of them, the first is discarded and the other becomes the game's. A command of
   the browser while a game's file is loaded brings settings of one file into another
   (`crossed`).
10. **Pairing.** A LE_RAND or LE_ENCRYPT that fails leaves its entry in the FIFO,
    so that each later answer is for the one before. An answer that is
    outstanding when its device leaves works on the next device in the slot. A
    ring that is full is only printed, and so is PAIRING_FAILED (smp.c:289-294): the
    link stays up with the pairing unfinished. A key of which one half came stays, and is
    found.
11. **Key file.** It is truncated, then written: a power cut in between loses all
    bonds of its kind, or cuts a key in half, which is used. If it cannot be opened when a
    key is renewed, nobody notices (host.c:652), and after a restart the controller
    is answered with its old key. The file of the LE keys is stored in the same way.
12. **Discovery.** With five reports or more `reports[5].ref_hdl` is the count and
    the flag of the next slot's table: a request for a handle that is none, which
    ends the discovery. With six, split over two answers, it writes there. A last
    service of one attribute makes the group request repeat for ever.
13. **Ports.** `bt_host_reset_dev` sets `out_idx` to the number of the slot until
    the next `wired_port_hdl`, 320 ms later or more: until then two controllers may
    drive one port. `power_on_hdl` starts a search in manual mode as well. A
    controller whose disconnection takes longer than one poll after power-off
    switches the console on again.
14. **Stalls.** `core0_stall_start` does not wait until core 0 has left: a section
    that starts before it has done so leaves both cores waiting (`missed`).
15. **Keyboard.** `kbmon_get_code` reads `*qlen` after it has returned the slot
    (kb_monitor.c:101), which a producer may fill meanwhile. A repeated MAKE can
    come behind the BREAK of its key.
16. **Rumble.** If `esp_timer_delete` refuses an armed timer, its handle is lost:
    it fires later, stops a motor that was started since, and clears the handle of
    a newer timer. A stop by the console while a timer runs leaks a timer.
17. **Waiting.** `sys_mgr_cmd` waits without a timeout in the callback of
    Bluetooth when two commands are queued, while `sys_mgr_task` may wait for room
    in `txq`.
18. **Switch calibration.** `bt_hid_sw_init` is called again when the controller gets
    another port, and wipes the calibration (sw.c:59). If its answers come when the
    calibration has been read (`hid_state` is 1), it is not read again (`cut`);
    reports that are converted before it is read again copy what is there (`amid`).
    Either way sticks are read with defaults until the next connection.
19. **PS3 motors.** A stop between the test and the clearing of the mark by the
    callback (ps3.c:42-45) is lost (`raced`). If the slot's timer is that of the
    start-up, or another controller's, the mark can be set with no timer to clear it,
    and the next stop is only noted (`unarmed`).
20. **PlayStation pads.** A stop is ignored while the pad is digital (ps_spi.c:212), to
    which its user can change it (`deaf`), or when the queue is full, since
    `last_rumble` has moved (`ps_lost`). The analog button changes the mode also in the
    configuration mode, and 0x44 is then ignored (`amid`). A console that stops
    addressing a multitap loses the last commands of pads 2 to 4, and of pad 1;
    one that comes back has the old ones obeyed again, or the letters of a game
    id that passed through the same buffer (`switched`).
21. **Wii extensions.** A write that fails because no extension is in is sent again at
    once, until one is put in (wii.c:193-196).

## 6. Abstractions

- Handlers of HCI events are atomic: they share one task. Tasks of lower
  priority are not.
- `BtConnections` starts at the end of the setup. `inquiry_override` is 0 (it is a
  variable of `SysMgr`). The controller accepts BR/EDR connection commands; a
  device is connected to once at a time. Authentication, features, encryption and
  role switch do not move slots or links and are in `HidLink` as far as they
  matter.
- `QueueBss`: `queue_bss_deinit` has no caller. An item that does not fit is
  refused before anything is touched.
- `PsPort`: pads only, one of them followed; answers are left out, packets come to
  their end, rumble is enabled in the configuration.
- `SwStart`: the calibration of both sticks is one, its centres from one place, and a
  controller is a Switch controller with both; feedback to its motors is `Rumble`,
  what it tells them is left out. `Ps3Rumble`: what else may occupy
  the slot is left out; a motor is on or off. `WiiStart`: the two kinds of Classic
  Controller are one; the Wii U Pro controller is left out; the user changes
  nothing before the first status.
- `FbTimer`: the controller stays connected; a timer that is leaked or deleted when it
  is not armed is forgotten. `KbMonitor`: one keyboard, one port. Both, and
  `MemoryCard`, have a FIFO, each of whose operations is one step, in place of the
  ring of `BssRing`, which more than one thread feeds: what `QueueBssTwoProducers`
  shows comes on top of what they show.
- `HciSetup`: the contents of commands are left out; what success changes in the
  controller is the accept list. `bt_config_state` grows without bound in the
  code and stays past the table here.
- `HostTransport`: a packet has a head and a body, written in two steps, and
  carries who wrote them; `sys_mgr_task` and `bt_host_task` are one sender, having
  one priority.
- `HidLink`: one slot, which link and address leave together. The remote end sends one
  configuration request per channel, since the host accepts every one; two in a row,
  which the one flag of l2cap.c:268 would count as a request and an answer, do not
  occur. A descriptor makes a generic device another, or not. Disconnection of single
  channels, the SDP server, and the LEDs that `bt_fb_task` sets are left out. The flag
  that says data is there may be cleared for a slot that was claimed anew meanwhile
  (host.c:314); the model has it, and no property excludes it.
- `SmpPairing`: a cipher is a constructor. `AttHid`: handles and counts are real,
  contents of reports are not; one request is outstanding; the ids of the reports of a
  controller are distinct and not 0 (0 would match an entry of `bt_data->reports` that
  was not filled); a `malloc` that fails (att_hid.c:254-260) is left out.
- `BootButton`: the restart after a factory reset ends the model. The read of
  `sw_thresholds[3]` (manager.c:370) is past the array and has no effect, as
  the comparison with 3 follows.
- `SysMgr`: a step goes through one port or one device; LEDs of ports are left
  out, since nothing reads them; commands that reset, switch on or off the
  console are one; how long a button is held is not counted (it is in
  `BootButton`); `Hotplug` and the number of turns between looks are constants.
- `MemoryCard`: a `memcpy` of a block is one step, a write to the file all or
  nothing, the other items of the queue are counted. An `fopen` fails when the card
  has leaked `MaxFiles` files, or for those that others have open, in any number that
  `MaxFails` allows; an `fclose` or an `mc_restore` that fails is left out. Power loss is left out:
  the file is then what the last store left.
- `ConfigStore`: a call into SPIFFS is atomic (it holds a lock), an `fwrite` of the
  configuration comes in two halves, a `memcpy` of a game id is one step. An `fwrite`
  that writes less because the flash is full is left out (one that the power cuts
  is not). A prepared write is whole, and is credited to the file RAM holds at the
  time: `crossed` is set only when the browser comes between a game id and the end of
  its load. The run cuts off what follows a crossing, also for `SettingsUsable`, which
  does not except it; the theorem `SettingsStayUsable` covers it.
- `LinkKeys`: the bytes of an entry after its address are two parts, there or zero;
  the file of the LE keys is stored and read in the same way and is not followed.
- Time is order only, except in `BootButton`, which counts turns.

## 7. Not modelled, and why

- **Mapping and conversion** (adapter/wireless, adapter/wired, most of
  adapter.c): arithmetic on tables without control; a model would repeat it.
- **Wired protocols** other than the PlayStation's pads: bit timing on bare metal.
  They are producers of the feedback queue and the side of core 1 in
  `Core0Stall`.
- **hidp/\***, but for the three that are modelled: the handlers repackage reports.
  PlayStation 4 and 5 controllers are sent their configuration at once and again when
  a timer expires; nothing depends on which comes first.
- **hid_parser.c**: a parser of bytes without concurrency; what it gets right shows
  on real descriptors.
- **Debug tools, LEDs, FPGA, start-up**: output, register access, calls in order.
- **liblfds and the Zephyr headers** are vendored; the one queue of liblfds that
  is used is in `BssRing`.
- **Hazards without a property** are listed in `PROJECT.json` with the reason.

## 8. Plan

1. The safety parts of the liveness properties, step by step: that a discovery, a
   pairing and a setup always have an answer outstanding until they end.
2. The command handlers of the other wired protocols whose state outlives a packet
   (wired/nsi.c, maple.c), as `PsPort` has them.

## 9. Running

    tlc -workers 2 -config Cores.cfg MCCores
    tlapm QueueBssProofs.tla

The module of each configuration, its properties and what it is expected to show
are in `PROJECT.json`, with the lines of the source each definition stands for.
