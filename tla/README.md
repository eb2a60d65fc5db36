# EriksPineBuds: TLA+ models and proofs

A verification development for the firmware in this repository: TLA+ modules of
the parts that keep the user's settings (the NV record, the flash operation
queue under it, the configuration service above it, the paired-device list) and
of the parts that react to the user (BLE activities, the key from touch to
action), TLC runs on small instances, and TLAPS proofs for every size. Paths
are relative to the repository root, `src/` being the checkout.

## 1. Inventory

The firmware runs on a BES2300 with the RTX kernel: preemptive threads (app
thread, Bluetooth thread, TWS control thread), interrupt handlers, and sleep
hooks that the idle loop runs with interrupts locked. Two buds run the same
image and talk over the TWS link; a phone talks to one of them.

| component | state | operations | interacts with |
|---|---|---|---|
| NV record `nvrecord_extension.c` | RAM mirror, `is_update`, flush state, `written_size`; main and backup sector | init (load, repair), setters, flush (sync, async), rebuild, sector clear | norflash_api calls; sleep hook; every thread that stores a setting |
| Settings `nvrecord_env.c` | one static copy `localSystemInfo` | get copies out, set copies in | mirror of the NV record |
| Flash queue `norflash_api.cpp` | node pool, one sector buffer, a list per module, the module whose turn it is, suspended operation, "allowed" callbacks | erase, write (sync, async), read, flush, flush disable and enable, `app_flash_page_*` | sleep hook; NV record, OTA, log sections |
| Configuration `app_opb_config.c` | `current_config` | get, set (validate, save), TWS prepare and received handlers | `nvrecord_env`, TWS sync |
| GATT service `opb_configps_task.c` | none of its own | read and write of four characteristics | `app_opb_config`, `nvrecord_env`, TWS sync |
| TWS sync `app_tws_if.cpp` | registered users, one send buffer under a mutex | command, response, timeout, connected | peer bud |
| Paired devices `nvrecord_bt.c` | slots, most recent first, and a count; the volume pointer of `app_bt_stream.cpp` into a slot | add, move, delete, delete all phones; aim the pointer, change a volume | Bluetooth thread, audio manager's thread, NV record |
| Key driver `hal_key.c` | debounce and gesture state, timer, interrupt enable | key interrupt, checker timer | `app_key.cpp` |
| Keys `app_key.cpp`, `key_handler.cpp` | event counter, handler list | key event, dispatch, configured action | app mailbox, `app_opb_config` |
| App mailbox `app_thread.c` | mail queue, handler table | put, process | all modules of the app thread |
| BLE activities `app_ble_mode_switch.c` | state, pending operation, advertising in use and wanted | start and stop of advertising, scan, connection; completion events; switches of the users | BLE stack, mailbox of the Bluetooth thread; `app_tws_if.cpp`, which on a slave cancels past the state |
| OTA, battery, audio manager, IBRT UI, BLE bonds, logs, utilities, companion app | see `PROJECT.json` | | |

What makes these hard is listed line by line under `hazards` in
`PROJECT.json`; where the runs exclude one that the code does not guard
against, its note says so. In short: power may fail between any two page programs of a two-copy record; threads, the sleep hook and interrupts share the flush
state; flash operations are queued, merged, suspended and resumed while other
modules compete for six nodes and one buffer; the two buds exchange commands and
responses while the phone goes on writing; completions of BLE commands are queued
behind requests that have changed the state since; a timer interrupt, a key
interrupt and a thread share the key state; records move under a pointer to one
of their fields.

What makes them correct:

* NV record: a completed flush is never lost and never replaced by something
  older; one sector is always valid; a change is not forgotten; a flush ends.
* Flash queue: the flash ends up as the accepted requests, in order, say; a
  read sees the latest request; pools and lists stay consistent; everything
  queued is eventually done; a caller that finds the pools full gets through.
* Configuration: both buds hold the same configuration once the link is quiet;
  the last write of each field is the one that stays; what is in use is what is
  saved; only known action codes are stored.
* BLE activities: once nothing is on its way, switched off means
  off, a bud with a connection is not connectable, and, as long as nobody cancels
  past the state machine, the state says what the radio
  does and the last request to advertise has been carried out.
* Keys: every gesture is carried out once, as what it was, in order; the counter
  counts; the key is never left deaf; everything comes to rest.
* Paired devices: the list is ordered by recency, nobody but the last of a full
  list is forgotten, volumes stay with their device, changes are marked for
  saving.

Not looked at: vendored stacks, drivers, codecs, signal processing.

## 2. Modules

```
DurableRecord        what the record promises: a value, what a restart finds, a floor
   ^ ImplementsDurable
NvRecord             the record over two sectors and its view of the queue
   ^ MCNvRecord         instances
   ^ NvRecordProofs     stages of the flush: crash safety
       ^ NvDurableProofs   versions: no update lost, two copies, refinement

NorflashApi          the queue itself, for several modules   <- MCNorflashApi
   ^ NorflashApiProofs     lists, pools and contents of the queue
       uses SetInduction

OpbConfig            two buds, GATT writes, TWS sync, reboot <- MCOpbConfig, OpbConfigProofs

RecentDevices        what the paired-device list promises: a sequence, most recent first
   ^ ImplementsRecent
DeviceRecords        slots, copying loops, volume pointer    <- MCDeviceRecords
   ^ DeviceRecordsProofs   closed forms of the loops, refinement
       uses SetInduction   induction over the naturals, stated with sets

BleModeSwitch        BLE activities, mail, BLE stack         <- MCBleModeSwitch, BleModeSwitchProofs
KeyEvents            finger, key driver, counter, mailbox    <- MCKeyEvents, KeyEventsProofs
```

### NvRecord

State follows the code: `nv_flsh_state` is the structure of the same name,
`mirror` is what `nvrecord_extension_p` points to, `flash` the two sectors. Content
is abstracted to *versions*: each change of the mirror is a new number; a page
holds the page of one version, or is `Erased`, or `Torn`. A sector is valid when
all its pages are of one version, which is what magic, length and CRC decide
together. `queue`, `locked`, `progress` and `others` are the flash queue as this
one client sees it (NorflashApi models it in full); `others` is what other
modules leave of the pools, so BUFFER_FULL happens at every call.

`snap`, `durable` and `loaded` are history variables; no action reads them.

* The synchronous flush (`SyncFlush`) is one step per stretch between two points
  where the interrupt lock is free; `pc[t]` says where thread `t` is. The test at
  line 555, which sees what the assignment just before it left, is taken with it.
* The asynchronous flush runs under the lock, so one call is one step
  (`AsyncMainErase` ... `AsyncBakDrain`).
* `nv_record_extension_init` loads a copy, decides on a repair, and starts the
  synchronous flush that ends it; `power = "boot"` until that returns.
* `Crash` is power loss, watchdog or ASSERT, between any two steps and inside a
  page program or an erase.

Left out: `nv_record_sector_clear` and the callers that use it to reset a device.

### NorflashApi

`node`, `buff` and `head` are the pool of nodes, the pool of sector buffers and
the lists, with the links as the code has them, so that unlinking can go wrong.
A free node's old contents are not kept, since they are not read while the
lists are consistent (`Linked`). Every entry point runs under
the interrupt lock and is one step; the retrying helpers `app_flash_page_erase`
and `app_flash_page_program` are `Request`, then `app_flush_pending_flash_op` and `Retry`
until there is room. `Finished` and `Suspended` are the two outcomes of
`_opera_flush`: the device completes the operation, or an interrupt suspends it.
`wanted` is a history variable, each sector as the accepted requests leave it.
`Chain` follows the links; the loops of `_e_opera_add` (`Scan`) and of a synchronous
request that empties its list (`Drained`) are recursive functions of the number of
nodes visited.

`Proper` says how clients behave: they program erased pages, and only the
modules in `ReErase` erase a sector with queued operations. Completion callbacks, flash
remapping, power management settings and power loss are not part of this module.

### OpbConfig

Two buds, each with `current_config`, the record's RAM image and the record in
flash; a queue of commands and responses in each direction. A GATT write
validates, applies, saves and sends a command; the peer applies it and answers
with its own state; the first bud applies the answer. Handlers run one at a time
in the Bluetooth thread. The TWS transport is a prebuilt library: it is taken to
deliver in order until the link drops, and to drop a command sent without a
link. Names are a length and an identity, since the only thing the code does to them is
cut them at the length of the field.

`Flush` stands for the whole of NvRecord.

### BleModeSwitch

`app` is everything the application side keeps (`bleModeEnv`, the parameters in
use and asked for, the switches, the connections, the mail of the Bluetooth
thread); `radio` is what the stack does and `evts` what it has to say. A request
is posted to the Bluetooth thread; `ble_switch_activities` there starts, stops or
remembers (`op`); a completion is an event of the stack, posted once more, and
`app_ble_*_evt_handler` executes the pending operation. The stack is a prebuilt
library, modelled from the events `app_task.c` handles: it refuses a command at
times, lets a client connect while advertising, completes in order, and does not
answer the cancel of a radio that is idle.

What `ble_adv_is_allowed` asks (lines 424-464) is split by how it changes:

| condition | in the model | who changes it |
|---|---|---|
| a switch of a user is off | `app.advSwitch` | `ForceSwitch`, `RoleChanges`: with a stop or a request |
| slave of a connected pair | `slave` | `RoleChanges` with a request (`ble_callback_role_update_handler`); `TwsConnects` and `TwsDisconnects` without one |
| stack not ready, powering off, SCO active | `barred`, one value for the three | `Bar`, `Unbar`: without one |

When SCO ends or the stack becomes ready, the code asks for advertising some time later
(`apps.cpp:228`, the timer of `app_hfp.cpp:1367`, the switch of
`app_bt_stream.cpp:6822`): this is a `StartConnectableAdv` or `ForceSwitch` that may follow
`Unbar`. A power-off does not end; the model lets it.

When the TWS link comes up (`TwsConnects`, `due`), its event reaches the Bluetooth
thread later: `TwsConnected` is `app_tws_if_tws_connected_handler`, which on a slave calls
`appm_stop_advertising` directly, whatever `bleModeEnv.state` says. The cancel is answered
when the radio did something; the completion finds a state that
`ble_switch_activities` leaves alone. `past` remembers that an activity was
cancelled this way (in a state in which something ran or was being started); section 3 tells
what follows.

* The handler is called by the prebuilt IBRT library
  (`app_ibrt_customif_ui.cpp:254`) and taken to run in the Bluetooth thread.
  `app_ibrt_ble_adv_stop`, which it calls next, is another HCI path, outside this state machine.
* `appm_stop_advertising` has two more callers, which do not run: the timer of
  `app_adv_timeout_handler` is never started, and `voice_over_ble.c` is not built.
* The functions that fill in advertising data are one value, `fill`; which of
  them run makes no difference to the control.
* The early return while an address is being resolved is abstracted.
* `ConnectEnds` happens after the start was reported (see the hazard at line
  768); a link lasts until the system is quiet.
* The code does not match a completion with the command it completes. `odd`
  counts the connections, refusals and direct cancels since it was last quiet, and
  `InStep` limits the claims to one of them: a second one can be mistaken for
  the completion of something else. Once `past` holds the count is not reset any more, so
  `OffMeansOff` and `NotConnectable` follow a direct cancel until a further connection
  or refusal; TLC finds them true with the reset (`Since` without `~past`) too.
* A pending operation that a refused start leaves behind stays (the comment at
  line 520 announces more than the code does). If such a start waits while a
  condition above goes away, it may be carried out with parameters from before a
  connection; `Lift` counts that as two events out of turn, which takes it out of the claims.

### KeyEvents

One finger, the power key, the two interrupts of `hal_key.c`, the counter of
`app_key.cpp`, the mailbox and the application thread. Time is in checker
intervals of 40 ms; time stamps are ages. `owed` is the list of actions that the
gestures call for, from the configuration; `wrong` and `lost` record the first
disagreement. Gestures are made so that they are told apart by a person too:
contacts and pauses of an interval at least, taps of one gesture well inside the
double-click time, gestures well outside it. `Hurried` lifts the
last condition for a hold after a tap, `Preempts` lets the timer interrupt
come between load and store of the counter's decrement (once per decrement).

* `pwr_key.time` is not set in the interrupt (the line is commented out), so
  the first debounce test compares with the last release; the model keeps this.
* `hal_key.c` also knows GPIO and ADC keys; `tgt_hardware.c` configures none.
* Mail of other modules only delays the key events, which the scheduling of the
  application thread covers.

### DeviceRecords

`info` is `bt_pair_info`: the slots and the count. The loops over `memcpy` are
recursive functions of the number of copies made (`ShiftRight`, `ShiftLeft`,
`DeleteMobiles`), one slot at a time, so that the order of overlapping copies
matters. A record is an address, a link key and one volume (the A2DP and the HFP
level behave alike). `vol_p` is the pointer into a slot; the audio thread
computes the new level before it takes the lock, writes under it and marks the
record after. `Flush` stands for the whole of NvRecord. The stack adds a record
when a device is paired and looks it up when it reconnects, then the connection is
indicated (`Connected`) and the pointer is aimed at the phone's record; when the
other bud is indicated it is aimed again, since the bud's record may have pushed
the phone's along.

* `unheard` marks list changes that no indication follows (the bud's link is lost
  in between, all phones are deleted): until a stream opens or somebody connects,
  the pointer may be at another device's volume, and volume changes go there.
* A phone that reconnects from the last slot of a full list is pushed out when the bud is paired at
  that moment; its indication then finds no record and leaves the pointer where it was.
* Deleting all phones is one step; nothing but a volume change can come between
  its deletions. The RAM copy of the last connections (`ibrt_config_ram_bak`) is left out: its
  `resume` has no caller.

## 3. Runs

| run | instance | shows |
|---|---|---|
| `nv_sync` | 2 pages, 3 versions, one flushing thread, sleep hook, crashes | `CrashSafe`, `NeverLoseBoth`, `ProgramsErasedPages`, `RestsOnTwoCopies`; the machine implements `DurableRecord`; a synchronous flush returns |
| `nv_async` | 2 pages, 4 versions, sleep hook only | no change is forgotten; every change reaches flash |
| `nv_lost_update` | violation | a change between line 570 and line 573 is forgotten |
| `nf_async` | 2 modules, 3 sectors of 2 pages, 4 nodes, 1 buffer, 4 requests | lists and pools, reads, order |
| `nf_sync` | 2 modules, 2 sectors, 3 nodes, 1 buffer, 4 requests, some synchronous, flushing always allowed | order; a suspended operation is not disturbed; everything drains; waiting callers return |
| `opb_sync` | one written bud, 3 writes, 2 link losses or reboots | while the link has held the buds agree whenever it is quiet; always, what is in use is valid, is what is saved, and ends up in flash |
| `opb_stale` | violation | a response to an earlier write undoes a newer one for good |
| `ble_mode` | 4 requests, connections or changes of role, TWS link and SCO, 1 refusal, 1 connection index, two switch users, two contents | `OffMeansOff` and `NotConnectable` when quiet; `StateAgrees` and `Advertised` too, unless an activity was cancelled past the state machine; activities come to rest |
| `key_events` | 2 gestures of up to 5 taps or a hold, contacts too short | `CountAgrees`, `NeverDeaf`, `Recognised`, `TapFits`; everything comes to rest |
| `key_stale_click` | violation | a tap, then a hold within the double-click time: a later single tap is reported as a double click |
| `devices` | 3 phones and the bud for 3 slots, 2 keys, 4 connections, a volume change, a power failure | the slots implement `RecentDevices`; changes are marked; the volume pointer follows the connected phone |
| `dev_latest` | violation | the phone offered first for reconnection is the one paired longest ago |

The four violations are disagreements between the code and documentation or
comments; `nv_lost_update` depends on the thread mix of the product; `findings` in
`PROJECT.json` quotes the sentence each contradicts.

**Further observations.** The models show these too when a configuration or
property is changed as indicated; they have no run of their own.

| configuration | property | what happens |
|---|---|---|
| `NvSync.cfg`, `Callers = {}` | `SurvivesReboot` | two valid copies differ at boot, the newer one is loaded and not repaired; a later power loss during a flush of the main sector brings the older one back (`nvrecord_extension.c:387`) |
| `NvSync.cfg`, two threads in `Threads` and `Callers` | `NeverLoseBoth` | two threads in the flush at the same time spoil both sectors (line 539) |
| `NfAsync.cfg`, `ReErase = {0}` | `Linked` | erasing a sector with two adjacent queued nodes leaves a freed node on the list (`norflash_api.cpp:399`) |
| `NfAsync.cfg`, `NBuff = 2` (`norflash_api.h:124`) | `ReadsLatest` | a write behind a suspended write of the same sector fills its buffer from the flash, so reads miss what the suspended one has not programmed yet (`norflash_api.cpp:499`) |
| `NfSync.cfg`, `CpUses = TRUE` | `InOrder` | a synchronous request made while flushing is not allowed overtakes the queue (line 984) |
| `OpbSync.cfg` | `BudsAgree` | a write made without a link is not sent when the buds connect (`app_tws_if.cpp:362`) |
| `Ble.cfg`, `OtherThreads = TRUE` | `OffMeansOff` | advertising is found to be allowed, a thread of higher priority switches it off and sees an idle state, and the advertising starts (`app_ble_mode_switch.c:496`) |
| `Ble.cfg`, without `~past` in the property (and in `Since` for `Advertised`) | `StateAgrees`, `Advertised` | a new TWS link makes a slave cancel its advertising directly: the state stays ADVERTISING with an idle radio, and the next request goes to STOPPING_ADV, cancels an idle radio and waits for ever (`app_tws_if.cpp:392`) |
| `Key.cfg`, `Preempts = TRUE`, `MaxTouches = 3` | `TapFits` | an increment of the key counter is lost, the decrements take it to 255, and every later key event is dropped (`app_key.cpp:89`) |

**Bounds.** Two pages are the fewest for which a sector can be half written; the
proofs do not depend on the number. Three versions allow a stored record, a
change during its successor's flush, and the successor. Four requests fill the
pools of `nf_async` and leave a node locked behind a merge; three sectors let one module have a
neighbour between two nodes of a sector. Three writes are needed to lose
one of them in `opb_stale`, and the passing run has as many; its names include one of 32
bytes, which the record cuts to 31. `MaxVersion`, `MaxOps`, `MaxWrites` and
`MaxDrops` only bound the environment. `nf_async` identifies the contents
clients write (symmetry; it checks invariants only). The invariants of `ble_mode`
were also checked with five requests (16 million states, against 1.3 million with four). The
thresholds of `key_events` are the smallest that keep the order of the product's
(debounce, double click, long press and twice that); the counter's limit is the
product's. `devices` has one device more than slots, so the list overflows, and
slots enough for two copies to overlap; phones and keys are interchangeable
(symmetry; the refinement checked with it is a safety property). It was also
checked with five connections.

**Deadlock** is checked for NvRecord and NorflashApi, where some hook can always
run. The system of OpbConfig rests when nobody writes any more, so its configurations
switch the check off; so do those of the other three modules, for the same reason.

**Fairness.** NvRecord: a thread inside the flush is scheduled, the sleep hooks keep being called and the
interval timer expires, the flash is not suspended for ever (strong fairness of
the completing outcome: each suspension serves one interrupt and resumes).
NorflashApi: the same for the device and the waiting callers; flushing is held back
only in `nf_async`, which asks no liveness question. Requests are finitely many: a module
that queued without end would keep its turn (`_get_cur_mod` returns
`cur_mod` until its list is empty), which is a hazard and not a property.
OpbConfig: messages on a link that holds are delivered, and a marked change is
flushed (`UpdateReachesFlash` of `nv_async`). BleModeSwitch: the Bluetooth thread
works off its mail and the stack answers every command. KeyEvents: an interrupt
that is pending is taken, the timer runs while it is started, the application
thread is scheduled, and the finger ends what it began. DeviceRecords asks no
liveness question.

## 4. Proofs

All theorems are for every value of the constants that the named assumptions
of the modules allow, and for the hypotheses the theorem states.

| module | theorem | property | hypotheses |
|---|---|---|---|
| NvRecordProofs | `TypeCorrectness`, `CrashSafety` | `TypeOK`, `CrashSafe` | one flushing thread |
| NvDurableProofs | `TwoCopiesAtRest` | `RestsOnTwoCopies` | one flushing thread |
| | `NoOverprogramming` | `ProgramsErasedPages` | one flushing thread |
| | `OneCopySurvives` | `NeverLoseBoth` | one flushing thread |
| | `FlushImplementsDurable` | `ImplementsDurable` | one flushing thread |
| | `NoUpdateLost` | `NoLostUpdate` | one flushing thread, only the repair at boot and the sleep hook flush |
| OpbConfigProofs | `TypeCorrectness`, `AppliedIsSaved` | `TypeOK`, `SavedAsApplied` | none |
| | `OneWriterKeepsInStep` | `InStep` | one bud is written |
| DeviceRecordsProofs | `TypeCorrectness`, `ChangesAreMarked`, `PointerAtPhone` | `TypeOK`, `Marked`, `VolumeOwner` | none |
| | `ArrayImplementsList` | `ImplementsRecent` | none |
| NorflashApiProofs | `TypeCorrectness`, `PoolsIntact` | `TypeOK`, `Linked` | `Product` (below) |
| | `QueueInOrder`, `LatestIsRead` | `InOrder`, `ReadsLatest` | `Product` |
| | `OneOperationAtATime` | `DeviceBusy` | `Product` |
| BleModeSwitchProofs | `TypeCorrectness` | `TypeOK` | none |
| | `StateMatchesRadio`, `SwitchedOffStaysOff` | `StateAgrees`, `OffMeansOff` | no request arrives and no condition changes while the Bluetooth thread is deciding |
| | `ConnectedIsNotConnectable`, `LastRequestAdvertised` | `NotConnectable`, `Advertised` | the same |
| KeyEventsProofs | `TypeCorrectness`, `DriverHears` | `TypeOK`, `NeverDeaf` | none |
| | `CountIsExact` | `CountAgrees` | the decrement is not interrupted, the limit is below 255 |
| | `SingleTouchFits` | `TapFits` | the same, the limit is 3 at least, no hold right after a tap |
| | `GesturesRecognised` | `Recognised` | no hold right after a tap, `Timings` (below) |

`Product` says three things: there is one sector buffer, as in the product
(`norflash_api.h:127`; other builds have four or none); no module erases a sector with queued
operations (`ReErase = {}`); and if there are synchronous requests, no callback forbids
flushing. The numbers of modules, sectors, pages and nodes are arbitrary.

`Timings` says that debouncing takes no longer than the double-click time (80 ms and
400 ms in the product; else a touch soon after a contact that was too short could be missed)
and that ages are counted beyond the pause between two gestures, without which the model's
finger would never begin a second one. The limit of `SingleTouchFits` is the product's
or more. `GesturesRecognised` does not ask for an undisturbed decrement: a counter that
is wrong makes the driver drop events, which `Recognised` leaves out.

With two exceptions each hypothesis is where the code is known to fail:
two flushing threads spoil both sectors and `nv_lost_update` is a caller of
the synchronous flush (section 3); with two written buds `InStep` is false
(`opb_stale` shows the exchange); a second buffer, erasing a sector with queued operations and
a synchronous request while flushing is forbidden are the observations on `NfAsync.cfg` and
`NfSync.cfg`; a request that arrives while the Bluetooth thread is deciding breaks
`OffMeansOff`, and the interrupted decrement `TapFits` (observations of section 3);
a hold right after a tap is the run `key_stale_click`. The exceptions are `Timings`,
and the hold right after a tap in `SingleTouchFits`: TLC finds `TapFits` true with `Hurried` too
(`Key.cfg` with `Hurried = TRUE`), but the proof counts the events of one
touch and does not follow a tap into the hold after it.

**NvRecord, crash safety.** `CrashSafe` is not inductive: it says nothing of what
is queued. The inductive invariant `IInv` describes, for each stage of the flush,
what the queue holds and which sector is trustworthy: at rest and while the main
sector is being erased or written, the backup is a valid copy no older than the
floor; from the moment the main write has been handed over until the backup is
complete, the main sector holds (or the queue will make it hold) `snap`, and the
backup may be anything. The stages (`Resting`, `ErasingMain`, `WritingMain`,
`MainIsDone`, `ErasingBak`, `WritingBak`, `BakWrittenStage`, `BakIsDone`) tie
together the program counter, the flush state, the queue and the sectors; this is
also what makes mixing an asynchronous and a synchronous flush harmless, since
both move between the same stages. One lemma per action shows it is preserved; the
lemmas on `norflash_api_flush` (what one step of the device does to a queue of one
or two nodes) carry most of the weight. TLC checked `IInv` with three pages before
it was proved.

**NvRecord, versions.** `IInv` knows which sector is valid and not how new it is.
`JInv` adds that (`Versions`): no valid copy is newer than the mirror, the backup is
never newer than the main copy once both are complete, in the late stages the
backup is behind `snap`, and a resting machine has two valid copies. Proving it
action by action would repeat the case analysis of `IInv` for every conjunct;
instead each action that leaves the power on is first shown to be of one of six
*kinds* of steps (queue and flash stay as they are, the device works, an erase is
queued, the main write is queued, pages of the backup are queued, the flush
is complete), and the rest follows from
the kind. The refinement is one step on top: a flush that completes raises the
floor, a device step that makes the main copy valid changes what a restart finds, a
power loss leaves a version between floor and mirror, and every other kind
stutters. `UInv` adds, for `NoUpdateLost`, that `snap` is still the mirror
unless the update mark is up.

**OpbConfig.** `IInv` is the type invariant with `Applied`: what is in use is what is
in the record's image; it holds whoever writes. For `InStep` the links are needed
too (`LinkInv`): with one written bud and a link that has held, commands go one way
and responses the other (`OneWay`), and the last response on its way
carries the state that its sender still has (`Converges`). An arbitrary number of
writes may be under way, which the run bounds by three.

**DeviceRecords.** The loops of `nvrecord_bt.c` copy slots over each other one by
one. Each loop is given a closed form (`ShiftRightIs`, `ShiftLeftIs`, `DeleteMobilesIs`), a
function that satisfies the same recursion, and shown equal to it by induction;
`SetInduction` proves the induction principle needed from the well-foundedness of
the naturals, for a set instead of a predicate, since a theorem with a predicate
parameter cannot be instantiated. From the closed forms follow what adding does to the slots
(`AddIs`, `AddKeeps`, `AddNothing`), and from these both the invariant (`Proper`:
the used slots hold different devices; `Marked`; `OnePhone`; `Aimed`: where the
volume pointer is when no indication is pending) and the refinement: the
used slots, read from the first on, are the abstract list. TLC checked `IInv` with
three slots and with one before it was proved.

**NorflashApi.** The invariant is about the lists as sequences: `IInv` says that there
are sequences `q` of nodes, one per module, that the links make up (`Lists`), and the
rest speaks of `q`. `Pools`: the nodes in use are those on the lists, free ones are blank,
the buffer belongs to the one queued write, a sector has at most one erase queued, and
its write is newer. `Current`: a suspended operation is the oldest of the module at work, is
locked, and no other node is. `Contents` is the reason why `InOrder` and
`ReadsLatest` hold: the buffer of a queued write is the whole sector as it is wanted,
and what the write will find (the erased sector after a queued erase, else the flash)
is as wanted outside the range that is left to program, and erased or as wanted inside.
A suspended write keeps this because the pages before its
resume page are as wanted. `Waiting` says that a request that waits for room is still a
proper one when it is retried. The links are handled once (`ChainIs`: following
them gives `q`; `Cut`: what freeing the oldest nodes leaves; linking a new node in front), the loops
have closed forms proved by induction over the number of nodes (`SetInduction`), and
each entry point has one lemma on top of these. TLC checked `IInv` on both instances
before it was proved.

**KeyEvents.** `IInv` is the type of all driver state with `Hears`, which is
`NeverDeaf` with its reason: while the key interrupt is disabled, what was seen of the
key (`Watched`) will keep the timer going. Each stage of
`hal_key_debounce_handler` has a lemma that it keeps the ranges of `key_status`; the click counter is
shown to be below its maximum between two interrupts, which makes the access to
the table of gestures safe. `CInv` adds the counter: while the
thread has it loaded no interrupt runs, and what the interrupt adds is what it puts into the mailbox.

**KeyEvents, gestures.** The four stages of the handler are first put together: one lemma for each
situation (`ClassifyQuiet`, `ClassifyPause`, `ClassifyPress`, `ClassifyTap`, `ClassifyEnd`,
`ClassifyDown`, `ClassifyHeld`) says what `key_status` becomes and which events are sent. `Line`
then ties the driver to the finger: what `key_status` says of the key and of the gesture
fits together, a key that counts as down is pressed, and the driver is at most one
interval behind a finger that was lifted. For `TapFits`, `Few` bounds the events on their way by
the state of the gesture: none before the press, two before the release, three before the
pause ends, so the event of the gesture is the fourth at most. For `Recognised` the phases of
a gesture are needed (`Phase`). `Counting` says that the taps counted, those whose
release has not been counted yet, and those still to come add up to the gesture until its event is sent; the
subtle case is a finger that is down again before the release of the tap before has been
classified. `PauseTime` and `TapTime` compare the ages of the
finger with those of the driver, so that a pause is not taken for the end nor a tap
for a hold; `Holding` says a hold lasts until it is recognised; `Still` that the key has settled
before a gesture begins. From the phases follows what the handler sends (`Tells`): the
event of the gesture once, when it stops being pending, and no other gesture. `InOrder` closes the
argument: what is owed are the actions of the events on their way, in order (`Matches`, a
function that counts the acting ones), followed by the action of the pending gesture. TLC checked
`Line`, `Phase` and `InOrder` on the run's instance and with other thresholds before they were
proved.

**BleModeSwitch.** `TypeOK` includes that the radio never advertises with parameters nobody
configured. That is not inductive: `advParam` is zero at first, and a completion
that arrives out of turn may execute a pending start. `IInv` adds
`Configured` (an operation to advertise becomes pending, and the thread starts it, only
after `ble_adv_config_param` has run), that every mail names a function the thread has, and
that start and update commands on their way carry configured parameters. It
holds for requests from any thread (`OtherThreads`) and any number of refusals.

**BleModeSwitch, quiet states.** The four properties say something only when nothing is on its way, so
the invariant must say what everything on its way will lead to. `BInv(t)` follows the commands
with a sequence `t` of what the radio does before each of them and after the last (`Run`): a start always finds
the radio free, and the end of `t` is what the state is after (`Goal`, `Course`).
`Exact` adds that a starting or stopping state has exactly one completion on its
way, as a command, an event of the stack or a mail (`Tokens`), and a settled state none. As long as
nothing odd happened (`odd = 0`) this is kept by every
step. After one connection, refusal or direct cancel (`odd = 1`) either it holds again
without the count (`After`), or the oddity is still on its way: `Lost`, an indicated
connection that has ended the activity at the radio and is about to make the state idle, or `Refused`, a
failed completion on its way to a state that it makes idle. `Cut` is the exception that a direct cancel makes:
an activity was cancelled past the state machine (`past`), and the commands leave the radio at rest, whatever
the state is after. A radio at rest neither advertises nor is connectable, which is why
`OffMeansOff` and `NotConnectable` need no exception, while `StateAgrees` and `Advertised` do.

`Fit` is what the commands owe to the conditions: `Off` and `Unconn` say that a state that should not
advertise, or not be connectable, has a pending operation or a mail that stops it (`Stopper`), or else the radio
ends at rest; a slave whose link has just come up owes it once the event of the link has been handled. `Renews` says that
parameters from before a connection are followed by a new request; `Want` that the last
request to advertise is a mail, is pending, is being started, or is what the radio ends up doing.
The functions of the file are handled by what they do to the state and the commands
(`Stay`, `Ask`), the changes that post nothing by `AsideStep`, the direct cancel by
`CancelCourse`. TLC checked `BInv`, with one and with two connection indices and refusals,
before the direct cancel was added and the proof extended; the proof has no bound on
requests, refusals or connections.
The two intervals must be different and neither may be the word for the requests of other kinds
(`BleAssumption`).

**Only model-checked.** Liveness (`FlushReturns`, `UpdateReachesFlash`, `Settles`,
`ComesToRest`, `QueueDrains`, `JobReturns`), which is outside the prover's reach,
and what the violation runs show. Every invariant, action property and refinement of a passing run is
a theorem.

## 5. Not modelled, and why

The repository is for the most part vendor code: the SDK's drivers, the RTX
kernel, CMSIS, codecs, signal processing with its tables, prebuilt stacks and
their headers. The modules cover the control logic of the product around it,
which is a small part of the lines. In particular:

* OTA (`OTA_ENABLE` is 0), BLE bonding (`BLE_SECURITY_ENABLED` is 0), log and crash
  sections, voice assistants: not in this build.
* IBRT UI and role switch: a prebuilt library, of which only the callers are here.
* Audio manager, media player, battery: decision tables over streams of a
  vendor player and a filter of measured voltages; possible later modules.
* The static copy of the settings in `nvrecord_env.c:65`, shared by threads, and
  `nv_record_sector_clear` with the device reset: listed as hazards or left
  out of NvRecord.

## 6. Plan

1. The settings copy of `nvrecord_env.c`, composed with OpbConfig.
2. The queue of NvRecord as a refinement of NorflashApi's view for one module.
3. Battery and audio manager.
