# Verification of the Telink mesh SDK node

TLA+ models, TLC runs and TLAPS proofs for the firmware under `src/firmware`: the Telink SIG-mesh
SDK as this repository builds it (the `project/*/makefile` builds: chip 8258,
`__PROJECT_MESH__=1`, one of `NODE_SWITCH_TEST`, `NODE_BRIDGE`, `NODE_DIM`, `NODE_LIGHT`).
Paths below are relative to `src/firmware/vendor/common` unless they start with another
directory.

## The system

A node is one program without an operating system. Interrupts (radio, UART, timers) put data in
ring buffers; everything else happens in one main loop (`mesh_loop_process`, `mesh_node.c` 3464).
Each pass runs the radio, then the network and transport layers, which call the models' message
handlers, then the time-driven work (`system_time_run`, the scheduler's clock, poll timers,
pending resets, the reset counter and, near the end, `mesh_sno_save_check`). A handler runs to
completion; what interleaves is the order of messages, timers and user
actions, and at any instruction the power can go. A lamp's power *is* its wall switch: power loss
is the normal way such a node stops, and all that survives is what some handler wrote to flash.

The mesh network and transport layers, most of the configuration server and the BLE stack are
binary libraries (`firmware/proj_lib`); the source here is what surrounds them. Where a model needs one of their operations, it is modelled from the state
it shares with the source and marked *external* (named `Lib...`).

### Components

| component | source | state | operations |
|---|---|---|---|
| Flash record log | `mesh_node.c` 2340-2500 | one 4 KB sector per parameter area: flag word and parameter per record, write cursor | `mesh_par_store`, `mesh_par_retrieve` |
| Sequence number, IV index | `mesh_node.c` 2605-2665 | `mesh_adv_tx_cmd_sno`, its last saved value, `iv_idx_st`, the misc area | store, retrieve, the check of each pass |
| Keys | `mesh_node.c` 1100-1750, 2504-2600 | `mesh_key.net_key[][2]`, key refresh phases, bindings, the key area | add, update, delete, provision, save, retrieve, key refresh |
| Factory reset | `factory_reset.c` | a counter sector, `clear_st`, `reset_check_time` | counting power cycles, the reset, kick-out by NODE_RESET |
| Scheduler and time | `scheduler.c`, `time_model.c` | 16 entries per element, `g_TAI_sec`, the time zone, `g_schd_nearest` | set entry, time, zone; the tick |
| Calendar | `time_model.c` 36-280 | none | `get_UTC`, `get_TAI_sec` |
| Friend node | `mesh_fn.c` | per friendship: message cache, timers, poll state, group list | request, poll, clear, subscriptions, caching |
| Low power node | `mesh_lpn.c` | friendship state, retry counters, FSN | offer, poll, retry, clear |
| Light, transitions, scenes | `light.c`, `lighting_model*.c`, `generic_model.c`, `scene.c` | present/target level, remaining steps, current/target scene | set, delta, move, range, the step of each millisecond, store/recall/delete a scene |
| Light's saved setting | `light.c` 140-400, `generic_model.c` | `light_res_sw_save`, the save timer, the parameter area | set, default, on/off, power-up mode, delayed save, power-on |
| Provisioning over advertisements | `app_provison.c` | link, transaction numbers, what is being repeated, segments, the received net info | the nine messages, acknowledgements, retries, time-outs, stop |
| Provisioning over GATT, proxy | `app_provison.c` 100-260, `app_proxy.c` | segment buffers, filter type and list | receive segment, filter commands |
| Fast provisioning | `fast_provision_model.c` | two state machines (WIN32 provisioner and node), MAC list, timeouts | reset network, get/set address, confirm, complete |
| Heartbeat | `app_heartbeat.c` | publication and subscription counters | set, receive, periodic step |
| Message queues | `proj/common/tutility.c` 181-270 | a ring and two u8 counters | push, get, pop, reset |
| Serial bridge | `project/mesh_node_bridge/app` | receive ring (DMA and interrupt), echo queue, one command slot | interrupt, echo, parse, pop, send |
| Dimmer node | `project/mesh_node_dim/app` | last voltage, subscriptions | the check every 200 ms |
| Switch node | `project/mesh_node_switch(test)/app` | first press, two flags | the scan |
| Event loop, soft timers | `ev.c`, `blt_soft_timer.c` | event ring, sorted timer array | compiled out of the builds here |
| Remote provisioning, mesh OTA, light control | `remote_prov.c`, `mesh_ota.c`, `lighting_model_LC.c` | - | compiled out of every firmware build here |

Shared state ties these together: the scheduler recalls scenes and sets lights; a factory reset
erases every area the others store to; a provisioning dialogue ends in the key store; all parameters reach flash through the record log.

### What is hard, and what makes it correct

- *Power loss at any flash operation.* A store is an erase or several programmed words. The log
  must never program over a programmed word, never retrieve half a parameter and never go back
  to an older one (FlashStore). What a component does in several stores must be
  resumable or harmless between any two (KeyStore, FactoryReset).
- *State saved less often than it changes.* The sequence number is saved every
  `MESH_CMD_SNO_SAVE_DELTA` numbers, and a number used twice is discarded by the network as a
  replay; the IV index saved during an update must be the one the node sends with (MiscStore).
- *A cached answer.* `g_schd_nearest` replaces looking at all entries each second: whatever
  changes the clock or an entry must recompute it, and the computation must agree with the
  per-second test (Scheduler).
- *Counters in write-once bytes.* The reset counter must neither fire on a wrong sequence of
  sessions nor lose the one it fired on before everything is erased (FactoryReset).
- *Two slots per key.* A key refresh keeps old and new keys side by side while commands keep
  arriving; searches look at the first slot only and stop at the first match (KeyStore).
- *Calendar boundaries.* Leap centuries, short months (Calendar).
- *Lossy radio, two timers.* Friend and low power node repeat, delay and time out
  independently (FriendNode), and so do provisioner and node, with acknowledgements matched
  by a number (PbAdv).
- *A movement anything may interrupt.* A transition is thousands of rounded steps, and every
  command, range change, scene operation or other channel may come between two (LightTransition).
- *A setting saved later.* What a lamp comes back with is stored three seconds after the last
  change (LightSave).
- *Rings between an interrupt and the loop,* with counters that wrap and are never brought back
  into the ring (MyFifo, SerialRing), and a slot for one command (CommandSlot).

`PROJECT.json` lists every hazard at its line with the properties that cover it.

## Modules

**FlashStore** models one parameter area: `flag`, `data` are the sector, `cursor` is `*p_adr`
counted in records, `par` the parameter in RAM, `pc` the next flash operation of
`mesh_par_store`. One action per flash operation (`StoreErase`, `StorePreFlag`, `StoreData`,
`StoreSaveFlag`, `StoreClearLast`), `MeshParRetrieve` for the scan at power-on, and a power
loss before, inside (`TornFlag`, `TornData`, `TornClear`) and after each. `inMap` says whether
the area is listed in `mesh_save_map[]`, whose areas are compared with the last record and not
stored again when equal. The read-back check of `mesh_par_store` only counts errors and is left
out. `saved` is history: what the program was last told is in flash.

**DurablePar** is what an area promises: a register `durable` that a store changes in one
atomic step somewhere before it returns, except that a store may first empty it (the sector is
full and is erased); a power-on reads it. FlashStore implements it (`ImplementsDurablePar`, with
`durable <- Retrieved`); MiscStore and KeyStore are built on an instance of it, in which the
assignment to the parameter and the start of its store are one step (nothing runs between them).

**MiscStore** models the sequence number and IV index: `MeshMiscStore` and its callers,
`SnoSaveCheck` at the end of a pass and `MeshMiscRetrieve`. Two other writers of this state are left out:
provisioning, which sets the IV index once, before a number is drawn (`mesh_node.c` 1952), and fast
provisioning, which only WIN32 builds contain (`mesh_config.h` 83-88). `used` is history: for each IV index, all numbers below `used[iv]` may have been sent.
External: drawing a number, the IV update, and the flush of the misc record that the library
owes when `misc_flag` is set.

**MCFlash** runs FlashStore and FactoryReset side by side (`part` says which one a behaviour is
about; MCLight, MCNodes and MCScheduler do the same).

**FactoryReset** models the counter sector byte by byte (`cnt`, `idx`), the writes that the
counter functions have still to do (`todo`), the four states of `factory_reset_cnt_check`,
`factory_reset` area by area, and a power loss between any two. Time is the instants that the
thresholds of `factory_reset_serials` tell apart. `gesture` is history: the lengths of the last five
sessions that wrote the counter.

**KeyStore** models both slots of the network keys with their application keys, key refresh,
bindings, and each delete step by step: every application key is unbound, cleared and saved,
then the network key is. Provisioning a node while a key refresh is under way
(`MeshNetKeyAddByProvision` with the flag) puts its key in both slots and starts in phase 2; the second try of
`mesh_net_key_add_by_provision` (1364-1367) has no case, as the first slot was just emptied. External: binding a model, phases 2 and 3 of a refresh.

**Scheduler** models entries, `g_TAI_sec`, the zone and `g_schd_nearest`. `NearestToday`,
`CheckNextMin`, `CheckNextHour` and `update_schd_nearest_TAI_today` translate the stepwise
search; `Due` translates the match functions and is the reference the search is compared with.
`Tick` is a second of `mesh_time_proc`: redrawing random fields, rebuilding, acting.
**MCScheduler** holds the values of its constants.

**Calendar** walks through days by the calendar's rule beside `get_UTC` and `get_TAI_sec`.

**FriendNode** models one low power node (`lpn`: `mesh_lpn_par`, `fri_ship_proc_lpn`,
`subsc_list_retry`) and the friends in its range (`fn[f]`: `fn_other_par[0]`, `fn_req[0]`,
`fn_poll[0]`, `fri_ship_proc_fn[0]`, `fn_ctl_rsp_delay[0]` and the cache ring of `f`). An action of
the node ends with what it sends being heard, or lost, by each friend (`heard`, `H`), and the
friend's handler (`OnRequest`, `OnPoll`, `OnSubsList`, `OnClear`) runs in the same step; what a
friend sends later is an action of its own (`FnOffer`, `FnAnswer`, `FnClear`). Timers expire at
any moment at which they run. A cached message is its kind and, as history, whether the node has
it (`got`). `fresh` is history of the keys: friendship messages are encrypted with keys derived
from the request's counter (`mesh_node.c` 1382-1400), so that a poll reaches only a record made
from the last request. External: the ring's push (`my_fifo_push_adv`), and what the library does when
an answer arrives (toggle the sequence bit, stop the repetitions). **MCFriendNode** bounds
what a run looks at: `near`, the friends in range, are one, whose cache fills, or all, each with one message at a
time.

**LightLevels** are the levels of a light and the ranges it may be limited to. **LightTransition** is
the light between two passes of the main loop: `trans` is `st_transition_t` of one channel, with
the step in 1/32768 and its fraction; `Ms` is one millisecond of `light_transition_proc`, `EndRun`
the comparison with the current scene that follows a run of them; the commands (`LevelSet` for
set and delta, `MoveSet`, `RangeSet`, `SceneStore`, `SceneRecall`, `SceneDelete`) come between two
runs. `SceneRecallRefused` is a recall whose transition time `g_level_set` refuses after the scenes were
set. Colour and other channels are one action, `OtherChannel`: they end, or break, scenes. History:
`goal`, the scene recalled and left alone since; `clamped`, a change of range touched the transition;
`lost`, the last move was given no time; `refused`, the last recall was refused and
nothing set the light since.

**LightSave** is the saved setting: `set_on_power_up_last`, the commands that call it, the timer, the
store on an instance of DurablePar (with `ghost`, the unfinished record that makes a store skip,
see FlashStore), and `light_res_sw_load` at power-on. `blur` is history of the two commands that
leave the saved setting apart from the target.

**PbAdv** is provisioning over advertisements. `dev[r]` is `prov_para` of the provisioner and
of the node, with the queue `mesh_adv_cmd_fifo` (`tx`) and the reassembly (`seg`). What is at the
head of a queue is on the air: it may be heard any number of times (`mesh_provison_process`)
until it was `Sent`. The handlers have one operator per message and side
(`NodeLinkOpen` ... `NodeData`, `NodeAcked`, `ProvLinkAck` ... `ProvComplete`), built from what they
share: `Answer` acknowledges, says the next message and repeats both; `OnlyAck` has nothing to
say yet; `Say` starts something. The main loop's steps are `mesh_adv_provision_retry`, `Timeout`,
`wait_and_check_complete_state` (the node's 4 s) and `mesh_loop_provision_end_process` (the
provisioner's 2 s). A link id stands for the keys exchanged on the link and for the
address given at its end.

**RingCounters**, **MyFifo** and **FifoQueue**: the counters and cells of `my_fifo`, the ring,
and the queue it promises to be. **SerialRing** is the bridge's `hci_rx_fifo`, which the UART's DMA
fills behind the counters' back: `Receive` writes block after block, `uart_irq_proc` moves on,
`MainLoop` echoes, parses and pops the oldest cell in steps between which the interrupt may
come; parsing echoes the strings it finds (`Pieces`). **CommandSlot** is what becomes of a frame: the handlers of both builds (bytes; JSON, the
committed one), the slot, and `user_func_proc`. **Dimmer** is the
knob's program, in which each command may fail on its own (`heard` is those it was sent to), and
**Switch** that of the buttons. **MCNodes** runs them all.

`*_proofs` hold the theorems: **Flash_proofs** (FlashStore and FactoryReset), **MiscStore_proofs**,
**KeyStore_proofs**, **Scheduler_proofs** (Scheduler and Calendar), **FriendNode_proofs**,
**Light_proofs** (LightTransition and LightSave), **PbAdv_proofs** and **Nodes_proofs** (MyFifo,
SerialRing, CommandSlot and Switch). Those about components that run side by side extend the MC module
that composes them, so that their theorems speak of what the run checks.

## What each run checks

| run | states | bounds | what it shows |
|---|---|---|---|
| `flash` (MCFlash) | 1.0 M | sector of 16 words, records of 4, two values; 5 counter bytes cleaned from the third, 2 areas, 6 power losses | append-only use of the sector, no rollback, the refinement of DurablePar; only the gesture resets, the counter always has room, a reset cut short is resumed and completes |
| `flash_skipped_store` (FlashStore) | violation | same | in an area of `mesh_save_map` a store may return without anything in flash that a power-on retrieves |
| `factory_reset_count` (FactoryReset) | violation | same | the time table is read with index -1 |
| `misc_store` (MiscStore) | 0.8 M | save distance 2, burst 2, IV indexes 0..2, numbers to 8 | the restart number is unused at the end of a pass; at most one pass's numbers are repeated after a loss inside it; the IV index never jumps ahead |
| `key_store` (KeyStore) | 3.1 M | 2 network and 2 application key indexes, 2 positions each | unique indexes, refresh slots, bindings, what is in flash |
| `key_store_refresh` (KeyStore) | violation | same | a deleted application key survives in the second slot, against the comment at `mesh_node.c` 1235 |
| `scheduler` (MCScheduler) | 0.5 M | day of 2 hours of 6 minutes of 6 seconds; two entries with all commands and power cycles; one entry with every setting; every day a 32-bit count of seconds reaches | entries are acted on exactly when due; the stepwise search agrees with the per-second test; a changed zone is repaired at midnight; the conversion back and the month rule |
| `friend` (MCFriendNode) | 0.1 M | one friend whose cache of 2 fills and runs over, or two friends with one message each at a time; one repetition of the first poll and of the others | a delayed answer is the head of the cache; no message is skipped; the head is fetched or the friendship ends; one friend per request; a friend that heard the last request does not clear it |
| `light` (MCLight) | 0.3 M | levels -4..3, unit 4, a step every 2 ms, times 0 and 6 ms, delays 0 and 1 ms, one scene, two ranges; three saved levels, save after 2 steps | see below |
| `scene_recall_refused` (LightTransition) | violation | two levels, one scene | a refused recall leaves its scene being recalled with no time left, against the comments at `scene.c` 229 and 333 |
| `provisioning` (PbAdv) | 0.6 M | two links, queue of 4, repeats when it is empty | what the provisioner counts as given is stored; the sides stay within a message of each other; a dialogue nobody gives up completes |
| `nodes` (MCNodes) | 0.1 M | receive ring of 2 cells with counters to 4, 7 frames of 2 blocks; queue of 4 with counters to 8; two addresses; voltages to 7; two buttons, clock of 8 | see below |

`light`: the light ends at its target (`SettledAtTarget`), never steps past it (`NeverPast`); a
scene recalled and left alone becomes the current one, and none is still being recalled when no
time is left, but after a lost move or a refused recall (`RecallEnds`); a current scene is the one that shows
(`SceneIsShown`); no change of the setting is forgotten (`SavedWhenIdle`), a light that
restores its state comes back to where it was going (`RestoresTarget`); left alone, both come to rest
(`ComesToRest`).

`nodes`: serial frames are handled in turn and whole while the DMA did not overrun the reader
(`InTurn`), and a ring that is left alone empties (`Drains`); `my_fifo` is a queue (`IsQueue`, a
refinement of FifoQueue); what is sent to the mesh is what the frame asked that took the slot
(`SendsWhatWasAsked`; the committed build therefore sends nothing); the lights that took
a dimmer's last command show where its knob rests (`Follows`); a switch reports a press at most
twice, and nothing before the first (`ReportsPress`).

*Why the bounds are enough.* FlashStore: 4 records per sector are a first, a middle, a last
record and the end mark that must stay blank, and the sector is filled and erased any number
of times; the proofs remove the bound. MiscStore: numbers to 8 hold two saves, two power losses
and an IV update; the proofs remove the bound. FactoryReset: the gesture takes five losses, the
sixth cuts the reset; a counter of 5 bytes is cleaned several times within one gesture.
KeyStore: two of each are needed for "another key has this index" and "the other position";
one key value and the test key suffice since no code compares values. The proofs remove the
bounds of both. Scheduler: the two lists
of `EVERY15` and `EVERY20` keep a step that divides the minute and one that does not share its
multiples (2 and 3 of 6); `Times` starts at the beginning of a day and close to the end of
one; the proofs remove these bounds. Calendar is walked to the last day of a 32-bit count of
seconds. FriendNode: a cache of two fills, runs over and holds an update behind
the head, and a repetition of each kind is left over from one request into the next; two
friends are the previous and the next one. The safety properties
also hold with two repetitions of the later polls and a cache that fills whenever the other friend keeps nothing
(4.0 M states). Larger caches and more repetitions only lengthen the
same loops, and the proofs remove the bounds for all but liveness. LightTransition: a step of 4
units with fractions rounds up, down and to nothing, and the 16 of `Width` wraps the time of a
downward move; the proofs remove these bounds. PbAdv: the second link meets everything the
first left behind (packets on the air, a node that still waits, segments of the same number);
the queue holds one whole message, a public key, with its acknowledgement, so that it also
runs over. The code's queue has 8 places and repeats with up to 2 waiting: the two
invariants also hold at 6 and 2 (2.4 M states). Rings: the counters wrap at twice the
cells, and the seven frames take them round more than once; the proofs remove the bound.

*Deadlock* is not checked in `scheduler` (it stops at its last day), `nodes` (the ring stops after its
last frame) and `provisioning` (a node that has its network is done), and is checked in the
other passing runs.

*Fairness.* FactoryReset: `WF` of `Progress`, every step but
the power loss and the reset command. It says that the main loop keeps being called
while power is on (`main` loops for ever, and interrupts do not block it) and that power comes
back. Power losses are bounded by `MaxCycles`, which is the "if power losses stop" of
`ResetCompletes`. FriendNode: the node's timers and the friend's receive delay expire in the end (the
main loop polls them), and a poll or an answer that is sent again and again is heard in
the end (strong fairness: a radio that loses every one of them delivers nothing). A friend's poll timer
is reset by each poll it hears, so it is only sure to expire when the node no longer polls with
the keys of that friendship. Nothing is assumed of the other timers. Light: a run of the main loop goes on, millisecond after
millisecond, and ends; time passes, the save is called each pass, a store ends and power comes
back; `ComesToRest` speaks of behaviours in which nobody commands the light, or cuts its power,
any more. PbAdv: a packet is sent in the end, the retry is called each pass, and a packet that
would take the hearer on, sent again and again, is heard in the end (`Useful`, strong fairness as
for polls); of the time-outs nothing is assumed, so that `Completes` says: unless something is
given up. Nodes: the interrupt is served, the loop goes on, the echo is sent, the dimmer checks.

### Assumptions of the models

- Erasing a sector and programming one byte of the reset counter are atomic; an interrupted word
  of FlashStore is neither blank, nor one of the two flags, nor the parameter.
- The library flushes the misc record before it draws the first number after a power-on (the
  comment "need to store the sno later" and the flag it is given).
- One pass of the main loop draws at most `Burst <= Delta` sequence numbers.
- Phase 3 of a key refresh replaces each key that has a successor and saves.
- A command with a parameter that its handler refuses changes nothing and is left out. The exceptions are
  modelled: a recall with a refused transition time (`SceneRecallRefused`), and the dimmer's sends that
  fail after the voltage was noted.
- The bridge's interrupt is served before the UART starts the next frame (flash erasing with
  interrupts disabled is left out). What the JSON handler does through pointers that were
  never set is not described but for what it passes on: any command.
- PbAdv: a link id is not used twice (it is the clock); Bit 7 of the transaction number, which
  keeps the two sides' numbers apart, is left out; a peer sends what this code sends.
- One channel of a light moves; the others only touch its scenes.
- FriendNode: a message is handled when it is sent or never; one segmented message is in progress
  at a time; an offer better than the one taken is any later offer (signal strength is free).

### Disagreements found

- *A store that is skipped* (`flash_skipped_store`, `light.c` 159): the record before the cursor is
  compared byte by byte with what is to be stored, not by its flag. When power was lost after the
  parameter was programmed and before `SAVE_FLAG` was, storing the same value again is skipped,
  and the next power-on retrieves the older one.
- *Index 0 of the count* (`factory_reset_count`, `factory_reset.c` 236): a discarded count leaves
  the byte 0, and the table of times is then read one before its start.
- *New key without an old one* (`key_store_refresh`, `mesh_node.c` 1235): deleting an
  application key clears the first slot only.
- *A recall that is refused half way* (`scene_recall_refused`, `scene.c` 229 and 333): the handler sets the target
  scene and clears the current one (324), then ignores that `g_level_set` refuses a transition time with an unknown
  number of steps (`lighting_model.c` 301-303). Nothing moves, the status says success with no time
  remaining, and the scene is "being recalled" until a later command, or another channel, ends it.

The exact quotations are in `PROJECT.json`. More facts worth knowing, which no comment
contradicts: setting an entry in the very second in which others were acted on acts on those
again (`scheduler.c` 139), and a reset started by the NODE_RESET command, unlike one started by the
gesture, is not resumed when power is lost in its middle. A changed time zone leaves the nearest time
of the scheduler stale, and nothing fires, until the next local midnight (`time_model.c` 410;
`RecoversAtMidnight`). Friendship: the age of a clear is compared as a signed number
(`mesh_fn.c` 762), so a friend that missed the node's last request may clear the friendship made
by it; a segment acknowledgement replaces an older one even when that was sent and waits for its
confirmation (`mesh_fn.c` 286), and an update that it finds first keeps its opcode and gets the
acknowledgement's body (`mesh_fn.c` 277-284); a friend's cache that runs over while an answer waits
answers with a newer message; when all first answers are lost the node goes to sleep with
`link_ok` set and later polls without `friend_ship_establish_ok_cb_lpn` ever called
(`mesh_lpn.c` 324, 820).

*Light.* A retransmitted on or off command that comes after another client's is ignored by the
light but saved (`generic_model.c` 223-225), and an on command that takes the default level
does not become the last level: after these two the light comes back to something else (`blur`). A move's
delta is clamped to the range of levels (`lighting_model.c` 417-423); its time wraps for a
downward move (49 days), and an upward one whose delta is far above the distance is given no
time at all: the target is reported and never reached, and a scene being recalled stays so
(`lost`), as after a refused recall. A move ignores the upper end of the range. When the lower end is raised, a transition from
off jumps and may overshoot (`clamped`). A recall loses its scene when another channel ends
early. A quick save is put off by a normal one.

*Provisioning.* A provisioner that misses PRO_COMPLETE times out while the node, after its 4 s, is
in the network: the next node is given the same unicast address, since that only moves on
after PRO_COMPLETE (`app_provison.c` 2371). A node whose message was acknowledged stops repeating, and with
that has no time-out: if its provisioner disappears it stays in the link, deaf to others and without a
beacon, until it is power-cycled. The acknowledgement of PRO_COMPLETE is to be repeated but is sent
once, since the event callback resets the link at once; the node's 4 s make up for it. PRO_FAIL is
wiped out of the node's state the same way. A provisioner that finds the confirmation wrong
closes the link and then goes on to send the data (2809-2817, no return). The comment at 1529
says 20 s; the constant is 30, counted from each new message.

*The nodes' programs.* Bridge: the DMA overruns the reader unnoticed, and 256 waiting frames look like
none; the frame is read up to a zero byte, so that the tail of an older, longer one is
echoed and parsed with it (`app_serial.c` 84); the JSON handler never sets the flag that sends, and
the byte handler's call is commented out (212), so that the committed build sends nothing; in the other
build a brightness command, an unknown one or one to address 0
leaves the slot taken for ever (`interface.c` 50), and the time of the last check is renewed in each
pass, so that a command waits for a pass of 200 ms (58); `app_routes.h` numbers the two light
commands the other way round than `app_serial_cmd.txt`. Dimmer: a brightness above 100 (from 3232 mV)
is refused when it is to be sent, while its voltage is recorded as acted on; so is the voltage of a command that
fails for want of a buffer, whose light keeps the old brightness until the knob moves again; the list of subscriptions ends
at 0xffff while unused places hold 0; the delay its comment gives in us is 200 ms. Switch: the first
button pressed since power-on is the only one that ever works, its later presses count as
long at once, and one long press is reported twice. The project does not link
(`uart_print_data` is missing).

## Proofs

Every safety invariant and every action property that a passing run checks is also a theorem, for
every value of the constants that the named assumptions allow. The assumptions only say that
sentinels are distinct, that index 0 is a key index and the arrays of keys have a place, that a
sector holds a record and its end mark and the counter's sector more than one byte, that `Burst <= Delta`,
that a cache, the repetitions of a poll, a light's levels, its step's unit and its interval are not
empty, that a ring's cells divide the range of its counters, and that the steps of an hour's list
(15 and 20 of 60) divide it. TLC evaluates each of them in a run.

**FlashStore.** `TypeOK` and `AppendsToErased` are not inductive. The invariant is the
conjunction of
`LogShape` (records before the cursor are programmed, records after it are erased, and some flag
is still blank: without it the scan could stop early or run past the end), `StoreProgress` (what the
record at the cursor holds at each `pc`), `SavedIsWhole` and `NewestExists` (the record retrieved,
when there is one, is the last saved one; two may be saved between `StoreSaveFlag` and
`StoreClearLast`). From it follow `AppendsOnly`, `SavedWhole`, `NeverRollsBack` (by cases on the
step: only `SAVE_FLAG` and the erase change `Retrieved`), `SavedStays` (an area outside
`mesh_save_map` has what it was told; it is proved and not run, as the refinement says most of
it) and `Refinement`, where each step maps to a step of DurablePar or a stutter.

**FactoryReset.** What the count says is spread over the sector, the writes still to do and the session
so far. `Story` puts it together for every instant: the sector reads zeros, one byte that counts, and blanks
(`Log`); an even count of 2 m means that the last m sessions were those the table asks for
(`Earned`); in a session the count is on its way to the next odd or even number (`First`, `Second`), or was
discarded (`Lost`, where nothing can be programmed until the next session), or the session is too young to
count (`Fresh`). A reset under way keeps the byte at 10 (`Started`). `OnlyTheGesture`,
`CutIsResumed` and `RoomToCount` follow, for any size of the sector, any number of areas and of power losses.

**KeyStore.** `KeyInv` follows a key through the array in RAM, the record being written and the one in flash,
any two of which may be apart when power is lost: indexes are unique in RAM and in flash
(`Uniques`), a store in progress writes what is in RAM (`Saving`), a command that deletes keys has unbound a key
before it clears it (`Deleting`), and bindings have their key in both places unless power was
lost in the erase window (`Bindings`). `mesh_key_retrieve` moves the keys to the front; that it keeps their
order and loses none is a lemma about positions counted with `Cardinality`.

**MiscStore.** The properties speak about the numbers used so far, the state in RAM and the record
in flash, of which any two can be out of step; the invariant bounds each pair. `IvOrder`: the record
is never ahead of the IV index the node sends with. `StoreIsCurrent`: a store in progress writes
that index and the present number. `RecordIsClose`: while numbers may be drawn, the record holds
that index and a number at most `Delta` plus the current pass's draws behind. `UsedInRam`,
`UsedInRecord`, `UsedInPass`: what was used under an index is below `sno`, or below the record by
`Delta + Burst`; nothing was used under a later index. `NoneUsed`: before the first store
nothing was. The facts about used numbers hold until power is lost in the erase window (`wiped`),
those about the index always. `PassCovered`, `Reuse` and `IvKept` follow.

**FriendNode.** `SlotInv` says what one friend's record keeps by itself: a friendship is the same as
the timeout state and as a cache that is not empty, a record that only offered has sequence number 1 (so that the
first poll, with 0, finds the cache empty and caches the update), a waiting answer is the head.
`PairInv` relates a record with the node's keys to the node: a friendship is with the friend the node
chose, and when the node's sequence number is not the record's, the head was read. That is what
makes `ReadBeforeTaken` hold: only a poll with another number takes the head, and the node changes
its number only when it has it. The lemmas about the ring (`PopSlot`, `PushSlot`, `ToCacheSlot`)
say that nothing cached disturbs the head unless the ring runs over; then one lemma per handler, then
one step per action. The ring's arithmetic is proved for any size, not just powers of 2.
`HeadMovesOn` is liveness and stays with TLC.

**LightTransition.** That a light never steps past its target and is at it when no time is left
needs to know, at every millisecond, how far the steps that are left can still carry it: `Course`, in
units of 1/32768 with the fraction kept from earlier steps. A rising course is one whose steps,
fraction and remaining steps stay below the target (or go to the top, where the range stops them). Lemmas
about the rounding division give it for every way a transition starts. `Recalling` and `CurrentStored`
say where a recalled scene is until it is current, and `TargetEnds` that a target scene without time left is one that a
lost move or a refused recall left. From these follow `EndsAtTarget`,
`RecallBecomesCurrent`, `StepsStayBetween` and `CurrentIsShown`.

**LightSave.** `Stored` (what is stored and not yet returned is what is set) and `Leads` (the saved
setting leads to the target) are what `NoChangeForgotten`, `OnHasLevel` and `ComesBack` lack
to be inductive. `OnHasLevel` (off is never the last level, so that on lights) is proved and not run.

**Scheduler.** `FirstOfDay` is about one entry: the search that goes hour by hour, then minute, then
second, carrying at most once from minute to minute and from hour to hour, finds the first second of
the day at which the three match functions agree, or that there is none. It rests on the minutes of a
list being one step apart up to the end of the hour, which is where the steps must divide it. `UpdateIs` is about all entries: the least of these times, with the entries that share it.
`NearestIsNext` alone is not inductive: it says nothing in the last second of a day or when the zone
was changed, and there the next event acts on what is kept. The invariant adds that the bits kept with a time,
of whichever day, are the entries due then (`BitsAreDue`) and that a node without the time keeps none
(`Unknown`). `NearestTimeIsRight`, `DueEntriesAct` and `MidnightRecovers` follow from it.

**Calendar.** Every year is a number of 400, 100, 4 and single years (`Split`). In that form the days before
it (`StartIs`), the year of a day with its borrowed and added days (`YearOfIs`) and what `get_TAI_sec` adds up
(`TaiIs`) are linear, and the division of each cycle is exact (`Cycles`). The loop over
the months is a recursive function; that its equation has a solution is shown by giving one (the cumulated
days), and its value by the least month at which it would be wrong. The walk through the days keeps
`DateIsCount` (the count is the days before the year and the month, and the day) and `HitsSoFar`
(which days of an entry were selected this month). `UtcIsCalendar` and `MonthlyEntries` have no upper bound: the code's
arithmetic is right beyond the last day a 32-bit time reaches.

**PbAdv.** A side judges a packet by its command, its link and its number alone, so `Inv` says of every packet
still in a queue, and of every message to be repeated, which state its sender is in
(`ProvInv`, `NodeInv`, `NodePacket`); when both are on one link, the node's state is next to the provisioner's and
its acknowledgements carry the number of that state (`Together`). The hard part is an old link:
a node that gave a link up may be opened on it again by a LINK_OPEN still on the air. `InOrder` (no
opening waits behind the invitation in the provisioner's queue) and `Opening` (while a link may be opened, the
node has said nothing on it that belongs later) are what makes that harmless. `Storing` follows the data from the last message to
the flash. `NeverFarApart` and `WhatIsGivenIsStored` hold for any number of links and any queue, the one that
runs over included.

**Nodes.** Counters that wrap at a multiple of the cells: positions less than a ring apart are in
different cells (`OtherCell`). MyFifo: never more than `Num`
counts lie between the counters, which makes the ring a queue (`RingIsQueue`, the refinement of
FifoQueue). SerialRing: `InTurn` speaks of the oldest cell; the invariant is about each cell between
the counters (`Waiting`), the one the DMA writes (`Arriving`) and how far that may be (`NotFull`),
while there was no overrun (`HandledInTurn`). CommandSlot: while the slot is taken it holds the command asked for
(`SlotIsKept`). Switch: reports made and reports due together are at most two for a press
(`AtMostTwo`).

**Only model-checked.** All liveness (`ResetCompletes`, `HeadMovesOn`, `ComesToRest`, `Completes`,
`Drains`, `Follows`): fairness is stated with ENABLED, which TLAPS cannot reason about. The violations are runs only.
The scheduler's theorems are about `Spec`, which is the "commands" part of the run; its "fields"
part, one entry with each setting, shows on small numbers what `FirstOfDay` says of every clock.

## Plan

Done, with their proofs: the stores, the reset, the keys, the scheduler and the calendar, the friendship,
the light, provisioning over advertisements and the nodes' own programs. What is left, most important first:

1. PbAdv: input and output OOB, LINK_CLOSE and PRO_FAIL, and the next address (two nodes given one, see
   above).
2. Reassembly of GATT provisioning and proxy segments, against "what is handed on is what was
   sent": a segment out of order sets `err_flag`, but a last one is still handed on
   (`app_provison.c` 156).
3. Heartbeat. Its subscription period is counted down once per 2^(PeriodLog-1) s while PeriodLog is
   computed anew from what is left, so that a subscription lasts far longer than asked;
   the 16-bit count of messages wraps; a refused HEARTBEAT_SUB_SET has already stored its source
   (`app_heartbeat.c` 122).
4. FastProvision: provisioner and nodes over a lossy channel (WIN32 only).

Proofs: each new module with its invariant; the parts of liveness that are safety (a measure that every
step of `Progress` lowers: the areas and writes left for `ResetCompletes`, the messages left for `Completes`).

FriendNode itself has room to grow: two low power nodes competing for the two slots of a friend
(`MAX_LPN_NUM`; a request takes the first free slot even when a later one still holds this
node, `mesh_fn.c` 661-668), and the contents of the subscription list. LightTransition: the
light's other channels as more than a disturbance.

## Not modelled, and why

Light control, remote provisioning, mesh OTA, the event loop and the soft timers are compiled out of
all firmware builds here. The BLE OTA service, vendor, sensor, property and health models and the command interface handle
one message at a time and keep plain settings. Drivers, boot code, FreeRTOS, HomeKit, `mi_api`,
`nl_api` and the examples are vendored or demos. The network and transport layers are
binaries. Most of what is modelled is under `firmware/vendor/common`, which in spite of its name
is the SDK's own node code and not third-party.

## Running

    tlc -workers 2 -config Flash.cfg MCFlash          # 40 s
    tlc -workers 2 -config MiscStore.cfg MiscStore
    tlc -workers 2 -config KeyStore.cfg KeyStore      # 1 min
    tlc -workers 2 -config Scheduler.cfg MCScheduler  # 2 min
    tlc -workers 2 -config Friend.cfg MCFriendNode    # 2 min
    tlc -workers 2 -config Light.cfg MCLight          # 2 min
    tlc -workers 2 -config PbAdv.cfg PbAdv            # 1.5 min
    tlc -workers 2 -config Nodes.cfg MCNodes
    tlc -config LightRecall.cfg LightTransition       # a violation; also FlashStoreSkip, FactoryResetCount, KeyStoreRefresh
    tlapm Flash_proofs.tla                       # and the other *_proofs
