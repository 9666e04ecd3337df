# QuotaFrame: a TLA+ verification project

QuotaFrame shows the usage limits of AI coding tools on small ESP32 panels. A
desktop program, the Bridge (`bridge/`), collects the numbers and sends them
over Bluetooth LE; the firmware (`firmware/`) shows them, and can be updated
over the same link. This directory models the parts of that system in which
orders of events matter, checks the models with TLC on small instances, and
proves with TLAPS, for every value of the constants, what matters most: of a
device during an update, of the Bridge's session with a panel, of the main loops
of the panels, and of the code that drives their hardware.

    tlc -config OtaDevice.cfg MCOtaDevice.tla         # any run of the tables below
    tlc -config BridgeRequests.cfg MCDeviceSession.tla
    tlc -config Boards.cfg MCBoards.tla
    tlapm SystemProofs.tla                            # any of the modules of section 4

## 1. Inventory

| Component | State | Operations | Interaction |
|---|---|---|---|
| OTA session (`usage_ota/src/session.cpp`) | phase, error, failure count, offset, size, promised digest and version, time stamps | begin, confirm, deny, write, end, abort, link_lost, tick, reject_identity | called by the BLE task and the main loop under a mutex that `end()` lets go of |
| Flash backend (`esp_ota_backend.cpp`) | open handle; two partitions, otadata | begin, write, finish, abort | called by the session; survives power failures |
| Folder Push (`buddy_folder_push.c`) and its sink (`folder_push_sink.cpp`) | a transfer's and a file's counters, twice; the sink's stage | char_begin, file, chunk, file_end, char_end, abort | the BLE task only; the sink calls the session |
| BLE service (`ble_service.cpp`) | host synced, connection, boot confirmation | commands, disconnect, ota_abort, verify_boot, events to the main loop | the BLE task; a queue to the main loop |
| Way of a command (`buddy_input_guard.c`, `strict_json.c`, `time_sync.cpp`, `usage_command.cpp`, `app_events.cpp`) | the line so far, whether the rest of one is dropped; a queue of events | bytes to lines, checks, answers; post and receive | the BLE task posts without waiting; the main loop empties the queue |
| M5StickS3 main loop (`app_main.cpp`) | clock sample, snapshot of the session, restart timer | sample, tick, buttons, restart, verify_boot | reads snapshots, calls the session |
| Panel programs: AMOLED 2.16, ESP-Mosaico, RLCD 4.2, ePaper 3.97, Read Pico | page, settings and their storage, pairing code, update prompts, alerts, screensaver, what is on the glass | one iteration of each main loop; touch callbacks; restarts | BLE events, snapshots of the session, keys or touches; draw on demand |
| Usage on a panel (`usage_core`, `usage_protocol`, `usage_panel_state`) | model of both providers, time of the Bridge, render key | command, turn of the loop, page, link | the loop draws when the key differs |
| Rotation (`orientation.cpp`, `display.c`, `set_rotation()` of two targets) | gravity's streak, wanted and applied rotation, transforms of picture and touch | probe, poll, rotate, roll back | pauses the display's worker; shares it with the camera preview |
| Gestures and camera (`gesture_*.cpp`, Mosaico) | tracker, context word, event queue, status, camera's stages | frames, the worker's turns, the loop's turns | two tasks and two atomics |
| Trend on the card (`board.cpp` of three targets, `read_pico_sd.c`) | three files, history in memory, mounted card, probe task | load, sample, replace; mount, poll, exchange of cards | power cuts; a user with a card |
| Refresh of electronic paper (`display_ui.cpp` and `epaper_port.c`; epdiy) | pending and remembered frame, controller RAM, glass; line queues, bounce buffers | submit, full and partial refresh; feeders, interrupts | worker task; two feeders, peripheral |
| Start of the Read Pico (`read_pico_board.c`, `read_pico.c`, `board.cpp`) | expander's cache, handle, VCOM in force, sensor's power | self-test, recovery of the bus, one device after the other, VCOM from the power unit | a cold start, or a restart that leaves the other chips as they were |
| Buzzer of the Read Pico (`read_pico_buzzer.c`, `pwm_audio.c`) | lock, playing and stop flags, job, ring of samples, LEDC | tones, probes, scores, stop | callers, a job's task, a timer's interrupt |
| Hardware on I2C: rails (`read_pico_board.c`, `sy7636a.c`), power unit (`read_pico_pmu.c`), clock chip (`usage_rtc`), touch keys (`cst836u.c`), battery (`panel_state.cpp`, `power_gate.hpp`) | cached registers, sequence numbers, calendar, filters | power on and off, commands, polls, writes | every transfer may fail |
| Device session (`multi_device.py`) | newest and delivered revision, exclusive lock, background tasks | run, offer, click, run_exclusive, close, supervision | tasks of one asyncio loop |
| Device manager (`device_manager.py`) and BLE transport (`bleak_nus.py`) | the current transport, its client, pending futures, cleanup | connect, send_command, query_status, reset, close | called by every task of a session |
| Firmware sender (`ota.py`, `firmware_install.py`) | binding to a connection, phase of the update | install, cancel | takes the session's exclusive lock |
| Device registry (`ownership.py`, `devices.py`, `adoption.py`) | owned devices on disk and in memory | adopt, forget | creates and removes sessions |
| Usage services (`state.py`, `time_sync.py`, `update.py`, `firmware_update.py`) | freshness, polling, known releases | collect, offer, check | offers snapshots to sessions |
| Sources, pairing, user interface, configuration, web flasher, release tools | little or none over time | files, subprocesses, HTTP, dialogs | |

The hard behaviours:

- **Two tasks, one session.** `OtaSession::end()` verifies the image without its
  mutex while the main loop ticks, confirms and denies from an old snapshot and
  an old clock sample. The sink's `abort_transfer()` asks and acts in two
  critical sections.
- **Three layers count the same bytes.** Protocol, sink and session are reset by
  different events: a disconnect resets only the session.
- **Power failures.** Anywhere between erasing a partition and confirming the
  first start of a new image, restarts and rollbacks included; and between the
  steps that replace the history on a card.
- **Cancellation at every await.** The Bridge has no threads here, but five
  tasks of one session cancel each other: repair, forgetting, the end of
  `run()`, the time limits of an update. Each cancellation can land in a
  cleanup that must not be left out.
- **State read before an await and used after it**: the connection an update or
  a click was checked against, the snapshot a delivery was captured from, the
  transport a failure closes. On the panels: the context a gesture is judged
  by, the view a key is tested against.
- **Drawing on demand.** A panel redraws only when a key says that something
  changed. Electronic paper moreover remembers: a partial refresh is right only
  if the controller's memory holds what is on the glass.
- **Several tasks and interrupts below the picture**: the display's worker
  against a rotation and a camera preview, the paper's worker against new
  frames, two feeders and an interrupt against a peripheral that does not wait;
  the buzzer's interrupt, which reads a ring that its job may free.
- **A queue that drops.** A command that finds the queue to the main loop full is
  answered so; a change of the link that finds it full is lost.
- **A start that finds things as a crash left them**: rails that are up, a slave
  in the middle of a byte, a sensor that measures.
- **Transfers that fail half way**: two transforms that must agree, a clock
  that is stopped while it is set, high voltages with an order, numbered commands
  whose answers come late.
- **Lost links and acknowledgements, failing cleanups**, incompatible panels,
  and retries that never end.

`PROJECT.json` lists every component with its status, and every hazard at its
line with the properties that would catch it going wrong.

## 2. Modules

| Module | Models | Uses |
|---|---|---|
| `OtaSession` | `OtaSession` and `EspOtaBackend`: one action per critical section, three for `end()` | |
| `OtaFolderPush` | the Folder Push commands, the sink, `ota_abort`, disconnects | extends `OtaSession` |
| `OtaDevice` | M5StickS3's main loop, start-up check, bootloader, power failures; the specification and the properties | extends `OtaFolderPush`; instantiates `OtaPromise` |
| `OtaPromise` | abstract: what an update promises | |
| `CommandPath` | the way of a command: bytes, lines, checks and answers, the queue to the main loop | |
| `MCOtaDevice` | images and manifests for TLC | extends `OtaDevice` |
| `DeviceLink` | `DeviceManager` and `BleakNusTransport` as several tasks call them, and the radio | |
| `DeviceSession` | `DeviceSession`, its supervisor, clicks, repair, the firmware installation, forgetting; the specification and the properties | extends `DeviceLink` |
| `MCDeviceSession` | identities of transports for TLC | extends `DeviceSession` |
| `Screensaver` | `ScreensaverController` as operators on a record | |
| `TouchPanel` | AMOLED: main loop against the LVGL task's callbacks, BLE events, updates | uses `Screensaver` |
| `TouchScreen` | AMOLED and Mosaico: what `render()` and `apply_settings()` hide, show, raise and write, brightness fades, camera preview | |
| `UsageView` | usage commands, the usage model, the render key and what is drawn | |
| `RlcdPanel`, `RlcdOutput` | RLCD: main loop and Navigator; frame transfers and tones | |
| `EpaperApp`, `EpaperRefresh` | ePaper 3.97: main loop; refresh worker and controller | |
| `PicoPanel` | Read Pico: main loop and `DisplayUi::render` | |
| `LineFeed` | Read Pico: how a refresh is fed; the times of a scan line | |
| `PicoStart` | Read Pico: the board comes up, after a power cut or a restart | |
| `PicoRails`, `PicoPmu`, `TouchKeys`, `SdCard` | Read Pico: high voltages, power unit and time, touch glass, mounting of the card | |
| `Buzzer` | Read Pico: buzzer and its sample player | |
| `TrendStore` | the history on the card of three boards | |
| `GestureTracker`, `GestureInput` | Mosaico: gestures from detections; the vision worker, the camera and the loop | |
| `Orientation`, `AmoledRotation`, `MosaicoRotation` | debouncing of gravity; rotation on two boards | the latter two use the first |
| `PowerFilter`, `RtcClock` | battery shown and the OTA power gate; the PCF85063A clock | |
| `MCRegisters` | several programs in one run of TLC | |
| `MCPanels`, `MCParts`, `MCBoards`, `MCPartsLive` | situations and properties of these programs | instantiate the modules above |
| `FirmwareProofs` | theorems about a device during an update, the way of a command, gestures and camera | extends `OtaDevice`, instantiates `CommandPath` and `GestureInput` |
| `DeviceSessionProofs` | theorems about the Bridge's session | extends `DeviceSession` |
| `PanelProofs` | theorems about RLCD and AMOLED | extends `RlcdPanel`, instantiates `TouchPanel` |
| `EpaperProofs` | theorems about the ePaper 3.97: worker and loop | extends `EpaperRefresh`, instantiates `EpaperApp` |
| `PicoProofs` | theorems about the Read Pico: rails, start, loop and paper, card, history | extends `PicoRails`, instantiates `PicoStart`, `PicoPanel`, `SdCard` and `TrendStore` |
| `PanelRunProofs`, `PicoRunProofs` | the same results for the programs as the runs put them into situations | extend `MCPanels` and `MCBoards`, instantiate the three modules before once for each kind of situation |
| `SystemProofs` | the properties of the run `panels`, and `HistorySurvives` of `boards`, as they stand | extends the two before |

Operators marked "Mistake" are plausible bugs kept beside the definition they
change. Nothing refers to them; they document what the properties detect
(`PROJECT.json`, "mutants": with the mistake in place of the definition, TLC finds
the property violated).

### 2.1 The device during an update

`phase`, `error`, `failureCount`, `offset`, `size` and `expected` are the fields of
`OtaSession`; `push` and `sink` are the structures of the two protocol layers;
`slots`, `running`, `boot` and `bootState` are the flash, the partition this start
runs from, and otadata. A partition's contents are "the first n bytes of image
i", or a mixture. A manifest is what the sink makes of it: whose firmware, whether
it has six fields, the promised digest, version and size. JSON and base64 are
abstracted to that.

A handler of the BLE task is one action for each critical section of the session
it enters; `ble` says where a handler with several stands. The main loop is one
action for each step between two uses of shared state (`loop`), with the age
of its clock sample (`lag`) and its snapshot (`view`). Time is relative: the model
keeps the age of the stamp a timeout counts from; the code's unsigned difference is
`age - lag`. The bootloader's rollback, `esp_ota_*` and the power supply are external
and modelled by what the code relies on.

### 2.2 The Bridge's session with a panel

A step of `DeviceLink` and `DeviceSession` runs from one suspension point of a
coroutine to the next, which is what asyncio makes atomic. `call[u]` is the method
of the manager that task `u` is in and where it is suspended; `job[u]` is its
place in the session's code. The tasks are the supervisor with `run()` (Runner),
`_sync_time()` (Clock), `_send_screen_command()` (Screen), `install_firmware()`
(Install) and the tray's repair (Repair). A call that has returned shows its
outcome in `pc`, and only its caller moves until it has taken the outcome up:
returning from a coroutine is no suspension.

| Code | Model |
|---|---|
| `DeviceManager._transport`, `_closing`, `_retry`, `cleanup_error` | `transport`, `mclosing`, `retry`, `cleanupError` |
| a transport's client, from `_client_factory` to `_disconnect()` | `client[t]`: linking, up, lost, cleaning, stuck (quarantined) |
| `_send_lock`, `_ack_future`, `_status_future` | the points wire; waiting, unheard; accepted, refused, lost; shutting |
| `asyncio.Task.cancel()` not delivered yet | `doomed`; `interrupted` for `_connect_task` alone |
| `_exclusive_lock`, fair and first come first served | `lockq`: its owner, then the waiters |
| `_exclusive_task`, `_exclusive_active` | `exclusive` |
| `_wake`, `_offered_revision`, `_delivered_revision` | `wake`, `offered`, `delivered` |
| the `finally` clause of `run()` | jobs final1 to final4 |
| `TrayDevices.forget()`, `remove_session()`, `close()` | `owner` |

A free `asyncio.Lock` is taken without a suspension, so `TakesLock` does; a waiter
runs when the lock is handed to it. `asyncio.shield` and the loop in
`BleakNusTransport.close()` make a cleanup shared and uncancellable: a cancelled
caller waits for the end of it and is cancelled then. Two rules keep the model from
orders the event loop cannot produce: a negotiation, which takes many turns, ends
only when no task is ready to run (`Woken`); and a task that waits for another to
be stopped goes on after the lock which that one released has been taken
(`LockJustGranted`). The commands of an update that follow the same
pattern (the manifest's, the firmware's chunks, repeated status queries) are one
command of each kind.

The identities in `Connections` are reused when no variable refers to them. When a
connection begins, four may be in use: the manager's transport, one in a call outside the
exclusive lock, and the ones a click and an update remember. So five are enough, and
`TypeOK` includes that a connection that begins finds one; without an update four are.

### 2.3 The panels

A main loop is one action per iteration where everything it shares with other
tasks is a queue or a snapshot taken once (`RlcdPanel`, `EpaperApp`, `PicoPanel`),
and one action per access where another task may fall between two
(`TouchPanel`: the LVGL callbacks and the latches they set; `GestureInput`: the
context word, the queue and the status). An iteration is composed of operators on the
view, in the order of the code. What is drawn is a record of the facts the
properties tell apart; layout and wording are left out, and so is drawing
except in `TouchScreen`, which is about it.

| Module | State of the model and of the code |
|---|---|
| `TouchPanel` | `ui`: the latches of `DisplayUi`; `loop`: the loop's locals; `saver`: the screensaver; `pc`: the next access; `finger`: LVGL's input; `ota`: the session |
| `RlcdPanel`, `EpaperApp`, `PicoPanel` | `v`/`view`: Navigator and loop state; `stored`: NVS; `frame`, `ui`, `glass`: what was drawn, remembered by the driver, and is visible |
| `EpaperRefresh` | `pending`, `scene`, `full`, `fresh`: what `submit` hands over; `job`, `last`, `partials`, `setup`: the worker's; `ram`, `glass`, `ghosts`: the paper's |
| `LineFeed` | `ctx`: the render context; `queue`, `feeder`, `sem`: the feeders; `lcd`: descriptors, bounce buffers and interrupts |
| `CommandPath` | `buf`, `dropping`: the line buffer; `queue`: `AppEventQueue`; `link`, `shown`: the link and the loop's copy; `sent`, `acks`, `handled`, `torn`, `missed`: the history the properties are about |
| `PicoStart` | `cache`, `port`: `ioe_output` and the FCA9555; `hw`: the handle; `held`: clocks a slave still has to send; `vcom`: what is in force |
| `Buzzer` | callers, lock and flags of `read_pico_buzzer.c`; the job and its task; the ring, the timer and the duty of `pwm_audio.c` |
| `PicoRails` | `cache`: the expander's outputs as remembered; `pins`, `chip`: as they are; `awake`, `rails`, `railsOn`: flags of the two drivers |
| `PicoPmu` | `pmu`: the unit's session, register and clock; `host`, `op`: the driver and its command; `nvs`: the stored offset |
| `SdCard` | `slot`, `card`: what is in the slot and mounted; `state`, `probe`: `probe_state` and its task; `main`: the loop's copy |
| `TrendStore` | `files`: trend.bin, trend.bak, trend.tmp as the number of their newest half hour; `trend`, `bucket`: memory; `pc`: the step of a replacement |
| `AmoledRotation`, `MosaicoRotation` | `desired`, `applied`, `rotation`: what was asked for and done; `image`, `touch`, `panel`: what the hardware has; `worker`, `pause`, `lock`, `edge`: the display's task, its lock and the tearing signal |
| `GestureInput` | `context`, `queue`, `status`: shared; `w`: the worker's copies; `cam`: the camera's stages; `loop`, `screen`: the loop |
| `UsageView` | `model`: `UsageModel`; `key`: the render key; `shown`: what is on the screen; `published`: what the Bridge last sent |

`MCRegisters` lets one run of TLC hold several programs: a behaviour runs one of
them, named by `program`, and its variables are the registers `r1` to `r24`.
`MCPanels`, `MCParts` and `MCBoards` put each program into situations: values of its
constants that make one group of cases happen. A property is the conjunction of
what it says of each program, and never about two programs at once; so the programs are
proved one by one, and `SystemProofs` puts the results together. The
situations of the panels (`AmoledIn`, `RlcdIn`, `EpaperIn`, `PicoIn`), of the history and of
the card (`TrendIn`, `CardIn`) are constants themselves: a configuration gives them
the values defined beside them, a theorem holds for any that satisfy
`PanelsAssumption` or `BoardsAssumption`.

## 3. What is checked

### The device

| Run | Instance | Shows |
|---|---|---|
| `ota_device` | three images (the factory's, a newer one, one of another project), a manifest for each way to be refused, sizes 0 to 2, totals too short and too long | `BackendFollowsPhase`: the flash handle is open exactly while bytes are received or verified, although `end()` lets go of the mutex. `SinkFollowsSession`: a session belongs to the transfer the sink is in. `PushMatchesSink`: both layers' counters agree through refusals and aborts. `NoSequenceGap`: the session's guard against gaps is never met behind the sink. `AlwaysBootable`: at every moment power may fail, the next start finds a complete image of this project, and so does a rollback. `ReadyAgain`: a device at rest accepts the next transfer. `NoEarlyTimeout`: a stale clock sample never ends a fresh update. `PromiseKept`: the device implements `OtaPromise`. `TypeOK`; `IndInv`, the invariant of the proofs |
| `ota_device_live` | an honest sender and an image whose BLE never comes up | `SessionEnds`, `RebootFollows`, `SilentImageRolledBack` |
| `abort_cancels` | violated | `ota_abort` after the image was accepted does not undo the boot choice (section 6) |

Bounds. An image is two bytes long and a manifest one: the smallest sizes with a
chunk that ends a file, one that does not, and one that reaches too far. The
partition holds two bytes, so a manifest for three is too large. The timeouts are 2
and 1 units, a clock sample is at most one unit old (`MaxLag`), the restart delay
and the start-up deadline one unit: every comparison is met below, at and
above its limit. `failure_count` wraps at `CountModulus` (2^32 in the code). No property
of `ota_device` reads the counter, and 1 leaves it out there; that it stays in its range
when it wraps is proved (`TypeCorrect`, for any modulus). Power may fail any
number of times, and any number of updates may follow one another.

### The Bridge

| Run | Instance | Shows |
|---|---|---|
| `bridge_requests` | one snapshot; every wish of the user; any number of faults | `OneClient`: never two BLE clients for a panel. `NoOrphan`: no client without somebody who will close it. `UpdateKeepsItsLink`: an update's commands go to the connection the user confirmed, and no other task is in the manager meanwhile. `ClickStaysOnItsLink`: a click is only ever sent to the connection it was checked against. `ForgottenIsStill`: after `forget()` nothing of the session touches the panel. `TypeOK`, which includes that a transport can always be made |
| `parts`, situation `session` | two snapshots; clicks, repairs, forgetting; any number of faults | `DeliveredIsShown`: a revision counts as delivered only when the panel shows it, or a later one, for both providers |
| `bridge_live` | two faults, two requests | `NewestDelivered`, `RepairInterrupts`, `ForgetFinishes` |
| `bridge_link_loss`, `bridge_forget_leak`, `bridge_repair_stuck` | violated | section 6 |

Bounds. In the safety runs faults are unlimited (`FaultsBounded = FALSE`): every
command may be refused, unheard or timed out, every scan, negotiation and cleanup may
fail, the link may drop at any moment, and a wish may come back as often as
the code admits it. Two snapshots are enough for the race between a delivery and the
offer of a newer one; with every wish there is one, which still covers the
redelivery after each reset. `CHECK_DEADLOCK FALSE`: a forgotten session
really stops.

### The panels

| Run | Programs and situations | Shows |
|---|---|---|
| `panels` | the main loops of AMOLED (five situations), RLCD (three), ePaper (four) and Read Pico (four) | `ScreensAreCurrent`: although each draws on demand, what is on the panel is what its state calls for; on the AMOLED but for a settings page whose closing the panel refused and the overlay of a failed update (section 7); of the RLCD only that the page is one its orientation has. `SettingsAreStored`: whatever closes the settings page, the loop of the AMOLED runs on the stored settings, and so does the panel, unless it refused the brightness: then page and brightness of the preview stay together, and a touch of the page tries again. The RLCD runs on the stored settings or says that they are not saved. `PromptsAreSeen`: a pairing code or an update's prompt is shown, on an awake panel, with the version it would start. `OneTonePerRaise`: the RLCD's alert sounds once. `PaperIsClean`: the Read Pico knows what its paper shows, and cleans it in time. `FinalFrameIsSeen`: a restart waits for its last frame. `TypesOK` |
| `parts` | rotation of AMOLED and Mosaico, the usage a panel shows, the way of a command (two situations), and the Bridge's session | `TransformsAgree`: a touch lands where the picture shows it, in each controller's own coordinates, whichever call of a rotation failed. `DeliveredIsShown` also says that what the panel got is shown, timely and at the Bridge's time; that every whole line is answered once and in order, and no other; that what is accepted reaches the main loop; and that the main loop knows the link, unless the last change of it found the queue full. `PartTypesOK` |
| `boards` | tracker, camera (three situations), trend (two boards), card, output, paper's worker (four), line feed (three), touch screen (five), battery, clock chip, rails (with and without an expander that fails), start of the Read Pico (two), touch glass, power unit (two), buzzer (three) | `GesturesAreMeant`, `GlassIsFrame`, `HistorySurvives`, `HardwareAgrees`, stated below; `BoardTypesOK` |
| `parts_live` | the camera, the RLCD's output, the paper's worker, the line feed, rotation, the buzzer's jobs | `CameraIsReleased`, `FramesArrive`, `TurnsEnd` |

`GesturesAreMeant`: a hand that keeps moving gives one command, which is followed
only on the screen it was made for; a press on the glass gives one key, when it
ends. `GlassIsFrame`: electronic paper shows the last frame once its refreshes
end, within the budget of partial ones, and every full refresh that was asked for
was made; a refresh of the Read Pico drives each line once, or is reported;
the touch panels never show what was not rendered, and a dark one is lit again.
`HistorySurvives`: the trend on the card outlives failed writes, power cuts and
exchanged cards. `HardwareAgrees`: what the programs believe of transfers,
amplifier, camera, rails, clock, battery, power unit and buzzer is so.
The Read Pico's start is dark: no high voltage is on until the first frame asks for
it, and what came up is usable; the buzzer sounds only while a job or a tone holds it. Each is the
conjunction of the properties the component modules state.

Bounds. Timers are counted in the unit of the shortest one, up to the longest that
is compared, so that each comparison is met on both sides. Percentages are
one value on each side of every limit. Events, keys and settings are split over the
situations so that those that interact are together. In two of the AMOLED's situations
(`pairings`, `settings`) the panel may refuse any brightness it does not have: a
preview, the roll-back of one, and the closing by a passkey or from afar. An update may be given up
in the ePaper's `turns` and whenever one comes on the Read Pico. The paper's worker has the gray
demonstration in a situation of its own (`demo`). Queues, frames and
lines: LineFeed has three lines to feed and queues that hold one (63 in the firmware), so
that a queue is full, empty and wraps within a frame; a frame
is started at a line the queues can hold, as in the firmware. A line buffer holds two
bytes and lines have one to four, with and without CR; three lines are enough for one
too long between two that fit, and a queue of one entry is full as soon as the main
loop is late. At the start up to nine clocks are owed by a slave, one more than eight
recover. The buzzer's ring has six samples and a write four, so that writes
wrap; one underrun ends a job (eight in the firmware). Faults of a transfer are
bounded (`Faults`, `Misses`, `Glitches`), at a number that allows one in each phase of an
operation, or in an operation and its repair; power cuts of the trend are not
bounded. `CHECK_DEADLOCK FALSE` in `boards` and `parts`: a forgotten session, a
camera given up and a program at the end of its bounds stop.

### Fairness

`OtaDevice!Fairness`: the scheduler runs the main loop, finishes a handler
under way, and time passes. Nothing is assumed of the sender, of the user or
of the power supply.

`DeviceSession!FairSpec` is weak fairness of `System` as a whole: the event loop
does something as long as something is ready, a command is answered or times
out, a scan, a negotiation and a cleanup end (each has a time limit in
`bleak_nus.py`), and so do the time limits of an update. It does not say which of
several ready steps comes first. The user (`Users`) owes nothing: no offer, no
request, no answer to the update's confirmation. Eventual delivery needs an end
of faults, hence `MaxFaults`: with two, a fault can meet the recovery from another.
`NewestDelivered` excepts what the code gives up by intent: a
forgotten panel, one whose client could not be released ("Restart Bridge"), and one
paused as incompatible.

`MCPartsLive!FairSpec`: each task of FreeRTOS is scheduled (WF), interrupts come
if late, the buzzer's timer included, and a task that asks again and again for a lock or a semaphore others
also take gets it in the end (SF: the LVGL lock, the semaphore of the RLCD's
transfer, a rotation whose calls do not fail for ever). Nothing is assumed of
fingers, hands, gravity, the Bridge or the missing of an interrupt.

## 4. What is proved

Every theorem below holds of every instance of the module's constants that
satisfies the named assumption; TLC checks these assumptions for the instances
it runs (`SessionAssumption`, `FolderPushAssumption` and `DeviceAssumption` of the
device, `LinkAssumption` and `SessionAssumption` of the Bridge, and
`BoardsAssumption`, `PartsAssumption` and `PanelsAssumption` of the MC modules, which are
the `ConstantsOK` of the programs). Of the 40 properties that the runs check, 24 are stated
by a theorem.

### The device: `FirmwareProofs`, first part

| Theorem | Statement |
|---|---|
| `InductiveInvariant` | `Spec => []IndInv` |
| `TypeCorrect`, `BackendConsistent`, `SinkConsistent`, `PushConsistent`, `Bootable`, `Reusable` | `[]` of `TypeOK`, `BackendFollowsPhase`, `SinkFollowsSession`, `PushMatchesSink`, `AlwaysBootable`, `ReadyAgain` |
| `NoGap` | `Spec => []NoSequenceGap` |
| `Patient` | `Spec => NoEarlyTimeout` |
| `PromiseHolds` | `Spec => PromiseKept`: every step of the device is a step of `OtaPromise` or a stutter |

None of the invariants is inductive alone. `IndInv` adds two conjuncts to those the
runs name. `TransferProgress` says which counters are zero and which complete in each
stage of the sink: without it a firmware file could begin with bytes already
counted, and a session's offset would not be the sink's. `BootChoice` says that
the boot partition differs from the running one exactly from the acceptance of an
image to the restart, and that no session can begin in between, because the
sink stays in Completed: without it a second update could erase the partition
that is to be started. One lemma per
handler of the BLE task and per step of the main loop shows that it preserves the
invariant; `StartStep` does so for a start, which forgets RAM and keeps the flash.
For the refinement, `IndInv` supplies the guards of
the abstract actions: a grant needs `trial = "no"`, which `BootChoice` gives, and
an installation needs a granted offer that is the image in the flash, which follows from
`Genuine` and `BackendFollowsPhase`.

### The Bridge: `DeviceSessionProofs`

| Theorem | Statement |
|---|---|
| `SessionInvariant` | `Spec => []SessionInv` |
| `SessionTypes`, `SessionOneClient`, `SessionNoOrphan`, `SessionUpdates`, `SessionClicks` | `[]` of `TypeOK`, `OneClient`, `NoOrphan`, `UpdateKeepsItsLink`, `ClickStaysOnItsLink`: all that `bridge_requests` checks |
| `SessionDelivers`, `SessionForgets` | `[]` of `DeliveredIsShown` and `ForgottenIsStill` |

The proof is in two layers, as the code is. The first part of the module looks at the
manager and its transports alone: `LinkInv` says which calls there may be at a time
(`Solo`), in which state the transport of each is (`DialAlone`, `WaitsClosed`,
`SentIsUp`), and who answers for a client the manager has let go of (`LinkingIsDialed`,
`Detached`). Each step of a call preserves it by itself; only the opening
of a call needs help: no other task may be in a call that can replace the transport
(`Alone`). `OneClient` and `NoOrphan` follow from `LinkInv`. The second part
shows that the session gives that help. `SessionInv` adds which task is where:
the lock's queue holds exactly the tasks between acquire and release
(`Queued`), a task is in a call exactly where its code makes one (`Calls`), and
of such places all but the question before an update need the lock or come after
everybody else has stopped (`Excluding`, `Stopping`, `Owning`). `Bound`, `Chosen`
and `Delivery` then carry the properties: the connection a click and an update are on,
and what of the newest revision has reached the panel. The identities of connections
are reused, and the one fact the code does not need to know, that a reused
one is in nobody's hands, is part of the invariant; `LinkAssumption` asks for more
identities than can be in use.

### The way of a command: `FirmwareProofs`, second part

| Theorem | Statement |
|---|---|
| `PathInvariant` | `Spec => []PathInv` |
| `PathAnswers`, `PathHandles`, `PathShows`, `PathTypes` | `[]` of `WholeLinesAreAnswered`, `AcceptedIsHandled`, `LinkIsShown`, `TypeOK` |

None of the three properties is inductive: an answer depends on what the buffer held
when the LF came. `Arriving` and `Framed` relate the buffer to the line
that is on its way: it is what has arrived of the line, or the line is too long and
dropped, or it begins with the rest of a line the link has cut off, which then is no line
either. With them the step at the LF sees the whole line or a length that is refused. `Latest` and
`Told` do the same for the link: the newest change of the link is shown or
the last of the queue's, and a command in the queue is behind the change that made the link
secure, unless a change found the queue full (`missed`); for that reason `LinkIsShown`
has its condition. The theorems hold for any lines, any length of the
buffer and any depth of the queue, where the run has two bytes and one entry.

### The Read Pico's loop and its paper: `PicoProofs`

| Theorem | Statement |
|---|---|
| `PanelInvariant` | `Spec => []PanelInv` |
| `PanelScene`, `PanelPaper`, `PanelTypes` | `[]` of `SceneIsDrawn`; of `GlassIsFrame`, `GhostsBounded` and `BarsAreClean`; of `TypeOK` |
| `PanelPrompts`, `PanelFinal` | `[][..]_vars` of `PromptsAreSeen` and `FinalFrameIsSeen` |

An iteration is ten handlers one after the other, each of which edits the loop's copy of the
view and may ask for a frame (`force`) or for a thorough one (`baseline`). The proof
gives them one contract, `Follows(v, w)`: what w has changed of the scene, the link, the
warning, the orientation or the banner has set `force`; a bar has not become
shorter unless `baseline` is set, or `gap` notes that the code asks for nothing; and a
demonstration ends with both. Each handler has a lemma that it keeps the contract,
and `FollowsOn` says that contracts compose. `RenderedFacts` then says what a refresh does,
in whichever of its ways it ends: driver and paper agree again (`Drawing`), or the
driver knows that they do not. `Bars` is what `BarsAreClean` lacks to be
inductive: while no thorough refresh is due, the percentage in the view is at least the
bar on the paper, so that the next soft refresh covers the old bar. `Drawn` says that a
frame that is not due is the view's, and `Final` that a restarting frame that was drawn
is followed by nothing but the restart. The
limit of soft refreshes is any positive number (14 in the firmware, two or three in the run).

### The panels' hardware

| Module | Theorems | Why the invariant is needed |
|---|---|---|
| `FirmwareProofs`, third part (`GestureInput`) | `GestureInvariant`, `GestureTypes`; `GestureActs`, `GestureReleased`, `GestureNoRestart` state `ActsOnWhatWasShown`, `OffMeansReleased`, `NoRestartAfterFailure` | the loop changes the screen before it tells the worker, so an event may be made for a screen the context does not describe. `Synced` (the context is brought up to date before an event is taken) and `Apt` (its generation grows whenever it has to) save it |
| `PicoProofs` (`TrendStore`) | `TrendInvariant`, `TrendTypes`; `TrendSurvives`, `TrendIsStored` state `NothingIsForgotten`, `ShownIsStored` | `Guarded`: the backup is removed only when there is a file; `Written`: a file takes its name only from a complete temporary file; `Ordered`: no file is newer than the half hour that is counted. Without them a power cut between two renames could leave nothing |
| `PicoProofs` (`SdCard`) | `CardInvariant`; `CardOneMounter`, `CardShown`, `CardHistory`, `CardTried` state `OneMounter`, `ShownIsMounted`, `HistoryIsTheCards`, `CardIsTried` | `Turns`: who may work on the card is said by `probe_state`; `Mounted`: a card that was out is not the mounted one when it is back |
| `EpaperProofs` (`EpaperRefresh`) | `RefreshInvariant`, `RefreshTypes`; `RefreshShows`, `RefreshGhosts`, `RefreshOwes` state `GlassIsFrame`, `GhostsBounded`, `FullIsNotLost` | a partial refresh moves only pixels in which the image and the controller's RAM differ; `Remembered` says what the worker's memory of the last frame implies of RAM and glass |
| `PicoProofs` (`PicoRails`) | `RailsInvariant`, `RailsTypes`; `RailsInOrder`, `RailsOff`, `RailsDrive` state `VoltagesInOrder`, `OffMeansOff`, `FrameIsDriven` for an expander that answers (`~Expander`); `RailsHeal` states `LastWriteHeals` for any | which bytes the cache, the pins and the converters can hold at each point of the two sequences |
| `PicoProofs` (`PicoStart`) | `StartInvariant`; `StartDark`, `StartBusFreed`, `StartWhole` state `StartsDark`, `BusIsFreed`, `StartIsWhole` | a restart may fall between any two transfers, with the voltages of a frame still on. `Tested`: how far the self-test has taken them down at each of its steps, and that the program's copy of the outputs follows; `Reached`: which devices are up at each place of the start when no transfer was lost, and what a lost one has cost of the attempts at VCOM |

The theorems about the card and the history are put together as `BoardsHistory` below;
the others are conjuncts that `GesturesAreMeant`, `GlassIsFrame` and
`HardwareAgrees` have for these programs. The history is proved of the Read Pico and
the RLCD: the ePaper board removes the backup without looking (section 7).
`RailsInOrder`, `RailsOff` and `RailsDrive` are not true of an expander that fails, for the
reason section 7 gives; the run leaves them out in that situation as well.

### RLCD and AMOLED: `PanelProofs`

| Theorem | Statement |
|---|---|
| `RlcdInvariant` | `Spec => []RlcdInv` |
| `RlcdTypes`, `RlcdPageInRing`, `RlcdUnsavedIsFlagged` | `[]` of `TypeOK`, `PageInRing`, `UnsavedIsFlagged` |
| `RlcdOneTone` | `Spec => [][OneTonePerRaise]_vars` |
| `TouchInvariant` | `Spec => []TouchInv` |
| `TouchTypeOK`, `TouchStatusIsPage`, `TouchAwakeWhenNeeded`, `TouchPreviewIsUndone`, `TouchUpdateIsShown` | `[]` of `TypeOK`, `StatusIsPage`, `AwakeWhenNeeded`, `PreviewIsUndone`, `UpdateIsShown` |
| `TouchScreenIsCurrent` | `[]ScreenIsCurrent`, for any inputs: what is in front is what the state calls for, or a settings page whose closing the panel refused (`ui.refused`), or still the overlay of an update that failed (`loop.count # 0`); section 7 explains both |
| `TouchScreen` | `[]ScreenIsExact` where no update comes and the panel refuses nothing (`"ota"`, `"refuse"` not in `Inputs`): what is in front is exactly what the state calls for |

An iteration of the RLCD is a chain of operators on the view. Each has a lemma that
says what it keeps (`Placed`, the type) and what it leaves alone (`Same`).
`TonesAreAnnounced` is what `OneTonePerRaise` lacks: a provider that had its tone is
announced, and only the end of its being hot takes that back.

The AMOLED's iteration is ten steps, and between any two of them the LVGL task may run a
callback. `TouchInv` therefore has parts for some places only. `Preview`: the panel has the
brightness of the loop's settings, and with the page closed these are the stored ones; or it has
refused the stored one, and page and preview are both still there.
`Drawn`: what is in front is what the render key and the remembered phase of the update
call for, or a redraw is due. `Noted`: from the render on, the remembered phase and offer
are the session's. `Rested`: the loop does not sleep over a redraw. `Awake`: a panel that
is locked has neither code nor update to show. The callbacks change nothing of what is in
front, which is one lemma for all places (`AloneKept`).

### The loop of the ePaper 3.97: `EpaperProofs`, second part

| Theorem | Statement |
|---|---|
| `EpaperInvariant` | `Spec => []EpaperInv` |
| `EpaperTypeOK`, `EpaperSceneIsDrawn` | `[]` of `TypeOK`, `SceneIsDrawn` |
| `EpaperPromptsAreSeen` | `[][PromptsAreSeen]_vars`, if `NoPromptIsMissed`: where the console may send a probe frame, at most one update fails and none is given up |
| `EpaperFinalFrame` | `[][FinalFrameIsSeen]_vars` |

The handlers have a contract as those of the Read Pico have (`Looks`: what changes
the look has set `force`; `Announces`, `Diagnoses`, `Goes` for the prompts, the probes and
the way to the restart). `FrameFollows` says that a frame which is not due is the
view's, `FinalDrawn` that a restart which counts down has drawn its frame. `DemosOnly` and
`Overtaken` are for the prompts: only a probe hides one, and an update whose phase the
loop did not see change has followed one that failed or was given up. The proof of the last
showed that without `NoPromptIsMissed` the property is false (section 7).

### The runs as a whole: `PanelRunProofs`, `PicoRunProofs`, `SystemProofs`

| Theorem | Property of a run |
|---|---|
| `PanelsTypes`, `PanelsScreens`, `PanelsSettings`, `PanelsPaper` | `PanelsSpec => []` of `TypesOK`, `ScreensAreCurrent`, `SettingsAreStored`, `PaperIsClean` |
| `PanelsTone`, `PanelsPrompts`, `PanelsFinalFrame` | `PanelsSpec =>` `OneTonePerRaise`, `PromptsAreSeen`, `FinalFrameIsSeen` |
| `BoardsHistory` | `BoardsSpec => HistorySurvives` |

These are the properties of `panels`, all of them, and one of `boards`, for any
situations the constants name. A behaviour of a run is one of one program in one situation,
whose name never changes (`PanelsStay`). For each situation the module with
the program's proofs is instantiated with the constants and the registers of the run.
`...Same` shows that its initial condition, next-state relation and
properties are those of the program the run takes; `...Begins` and `...Continues` that
a behaviour of the run in that situation is one of the instance; `...Holds` then
carries the theorems over, and `...Parts` puts them in the terms of the run's properties.
`SystemProofs` joins the programs.

### What stays with TLC

All liveness (nine properties), because TLAPS does not prove formulas with ENABLED.
And seven properties of the MC modules that range over several programs, of which
some conjuncts are not proved:

| Property | Proved | Not proved |
|---|---|---|
| `PartTypesOK`, `BoardTypesOK` | the types of the programs with a proof module | the rest |
| `DeliveredIsShown` | of the Bridge's session and of the way of a command | `UsageView` |
| `TransformsAgree` | | the two rotations |
| `GesturesAreMeant` | `ActsOnWhatWasShown` | `GestureTracker`, `TouchKeys` |
| `GlassIsFrame` | of the ePaper's worker | `LineFeed`, `TouchScreen` |
| `HardwareAgrees` | camera, rails, start | `RlcdOutput`, `PowerFilter`, `RtcClock`, `PicoPmu`, `Buzzer`, `TouchScreen`'s preview |

The properties of `LineFeed` are about how a recursive function fills a line and need
induction over data. The others are not out of the prover's reach; section 8 has them.

## 5. Not modelled

The components marked `not_modelled` or `partly` in `PROJECT.json` say why. In short:
drawing except the touch panels' layering, the start of the other boards, fonts, vendored drivers,
dialogs, the web flasher and the build
tools have no behaviour over time that the system's correctness rests on, or only
that of the hardware. JSON, base64 and SHA-256 are abstracted to their results, and so are
the Bridge's lines; those of the device are modelled in `CommandPath`, with JSON as
a defect a line may have. The Bridge's model covers one panel: sessions share only the offers and the
quarantine, which holds an address.

Limits worth knowing. `CommandPath` models the device's event queue to the main
loop, which may be full. The models of the main loops take their events from the host
directly and lose none. They meet an update that fails or is given up before it is accepted;
an `ota_abort` after that is modelled in `OtaDevice` (`abort_cancels`), not in the loops.
The buzzer's lock is made at the first call (`lock_once()`); the model starts after
it, although two first calls at once would make two. In the Bridge's model a late acknowledgement does not
exist, because a command that timed out has closed its transport. The
cancellation of the user is possible until the exclusive lock is taken, and
stands for the time limits after that; the code refuses it after the last chunk,
where only the time limits remain. Whether a time synchronisation is due is left
open. The back-off's length is not modelled, only that there is a wait. Of the Read
Pico's power unit the numbered commands and the time are modelled; the reading of VCOM, the
events it reports, the battery and power-off are not. A restart of the ESP is assumed
to take longer than an answer of the unit, and in the situation in which answers come
late (`slow`) the unit is not restarted. A card is assumed to be out for longer than
the loop's poll of one second.

## 6. Findings

| Run | What it shows |
|---|---|
| `abort_cancels` | `session.hpp:99` says that `abort()` cancels any active update. After `finish()` has written otadata the session is still active (Rebooting), but `abort()` only forgets the update in RAM; the next start installs it |
| `bridge_link_loss` | `transports/base.py:15` and `device_manager.py:174` promise `TransportReset` when the link is lost. `install_firmware()` queries outside the exclusive lock; if the link drops under a send and a query, the second failure calls `close()` on the None the first has left (`device_manager.py:189` and `:210`) and ends `run()` with an AttributeError |
| `bridge_forget_leak` | `remove_session()` "detaches and closes". Cancelling the supervisor while the `finally` clause of `run()` awaits a stopped task skips `transport.close()`, and `close()` finds the runner done: the BLE client stays connected. The window is a few turns of the event loop |
| `bridge_repair_stuck` | "Recovery operations may interrupt negotiation" (`multi_device.py:144`). A repair that starts in the very turn in which the lock is handed to the waiting session finds no `_connect_task`, and waits behind a negotiation that may never end, with `exclusive_active` set. `RepairInterrupts` holds: once there is a negotiation to interrupt, the repair ends |

The last three were reproduced with the Bridge's own classes and a scripted transport.

## 7. Other disagreements met while modelling

No run is kept for these. A situation or a condition of a property leaves each of
them out, as the comment at the property says, or the model shows it and no
property forbids it.

Update and Bridge side:

- After an accepted `char_end`, `ota_abort` leaves the sink in Completed, because no
  transfer is active (`ble_service.cpp:234`, `buddy_folder_push.c:167`), and every
  transfer is refused until a restart; `protocol/README.md:123` introduces the
  command to clean up Folder Push.
- An `ota_abort` with a version the panel does not know is answered with sequence 0,
  because the version is looked at before the sequence number.
- Functions nothing calls are not modelled: `read_pico_deinit()`, `epd_deinit()`,
  `cst836u_deinit()`, `sc7a20h_deinit()` and the census functions.

AMOLED 2.16:

- `touch_allowed()` is rendered only when something else changes, and the end of
  the guard changes nothing in the render key: a panel woken by touch, locked and
  unlocked remotely within 300 ms keeps touch disabled (`app_main.cpp:502`).
- `long_press_event()` asks only whether input is enabled 800 ms after the press,
  when the guard has ended: the touch that wakes the panel opens Settings when
  held (`display_ui.cpp:1119`; `screensaver_state.hpp:23` says it is consumed).
- The confirmation latch carries no offer: a press on one offer starts another
  that replaced it since the last render (`app_main.cpp:263`).
- The turn in which the three-second window of a failure ends does not redraw, and the
  overlay stays until something else changes (`app_main.cpp:514`).
- A touch setter that fails is rolled back once, and a roll-back that fails too is
  only logged (`display_ui.cpp:539`); a failed read of the accelerometer does not break
  the streak (`app_main.cpp:459`, against `orientation.cpp:76`).
- `apply_settings()` returns before it closes the page when the panel refuses the brightness
  (`display_ui.cpp:1086`). The loop rolls a choice back (`app_main.cpp:320`), but ignores the
  result where a passkey, an update or a remote command closes the page (`:294`, `:353`,
  `:359`): the loop runs on the stored settings, while the panel keeps the previewed brightness and
  `render()` keeps the settings page in front (`display_ui.cpp:1618`), over the page or clock the
  state calls for, until a touch of it or another remote command gets through. `ui.refused`
  marks it in `TouchPanel`; `ScreenIsCurrent` and `PreviewIsUndone` say what holds meanwhile.
- A brightness command refused after a fade was cancelled leaves the glass
  in mid-fade (`display_ui.cpp:1079`, `:1536`). "LAST nS AGO" (`display_ui.cpp:1453`) is
  not in the render key. The low-battery flag of the OTA gate has no hysteresis.

ESP-Mosaico:

- The time in which a hand jumps about counts as rest (`gesture_tracker.cpp:121`), and
  a wave clears a release that is still owed (`gesture_tracker.cpp:191`, against
  `gesture_tracker.hpp:35`).

Waveshare RLCD 4.2 and ePaper 3.97:

- While the banner of a failed update hides an alert, KEY dismisses it
  (`panel_logic.cpp:144`); a key pressed during a pairing code or an update does not
  restart the page cycle (`app_main.cpp:178`); a publication without a short window
  re-arms a dismissed alert (`app_main.cpp:150`).
- ePaper removes `trend.bak` before it is known that `trend.bin` exists
  (`board.cpp:250`, against the log line at `:253`). After an update longer than the idle
  time the timeout opens Clock in the iteration that starts the banner
  (`app_main.cpp:268`), and a second failure with the same error starts none
  (`app_main.cpp:106`).
- The gray demonstration refreshes a window in part and does not count it
  (`display_ui.cpp:219`), so that a long one exceeds the budget of partial refreshes.
  `GhostsBounded` allows that while the demonstration lasts; a frame of another mode
  is then driven in full.
- The ePaper loop compares only the phases of an update (`app_main.cpp:120`). An update
  that fails, or is given up, and one that follows between two snapshots look like no change: a
  probe frame sent from the console stays over the new prompt. The proof of
  `EpaperPromptsAreSeen` met this; TLC finds it with the probe `frame` and two failures, or
  with `Aborts`.
  `NoPromptIsMissed` (`EpaperProofs`) and `PanelsAssumption` leave it out.

Read Pico:

- A missing short window, or a key that leaves a demonstration, asks for no thorough
  refresh (`app_main.cpp:169`); the model notes it in `gap`, until a thorough refresh
  comes. Taps and keys are tested against this iteration's view,
  not against what the paper shows. An update whose rails never come up never
  restarts (`display_ui.cpp:728`).
- `render_lcd.c:223` asserts against a race that the comment at `:212` excludes; one or two
  coalesced end-of-frame interrupts tear a frame without a report; a prefill
  beyond the queues would wait for ever, which the three values in use do not.
- After a failed `set_vcom_en(true)` the bit stays in the cached output, and the next commit
  raises VCOM without its enable (`read_pico_board.c:334`, `sy7636a.c:338`); a
  frame counts although XOE was not written or power-good was lost (`display_ui.cpp:852`).
- A finger that lifts and returns between two polls makes one long press.
- `Board::poll` ignores that a remount has not finished (`board.cpp:69`): a card that is
  back in the meantime stays invalid; a probe task that could not be created is not
  tried again.
- After a failed HOST_READY the power unit is given up until a restart; its
  answers are matched by number only (`read_pico_pmu.c:215`, `:266`). When the unit took the
  time and NVS did not take the offset, the local time is wrong after a restart.
- At a cold start CFG0 is written before OUT0. The expander's outputs come up as ones, so
  SY_EN and VCOM_EN are driven high for a few transfers, although
  `read_pico_board.c:246` says that they are low. `PicoStart` has the property from the
  end of the self-test on.
- A power-down of the motion sensor that was carried out but not acknowledged leaves the
  driver's `powered` set, and the sensor off.
- The buzzer: a tone that follows a 1-bit probe is silent, because `play_1bit()` leaves
  `s_ledc_ready` set. `pwm_audio_write()` reads the free space before it waits, so a ring
  that was full drops the rest of the write and reports it written, and a fade-out may be
  lost; a write that fails after a part of it is written again from its start; an underrun
  keeps the last duty. A job that was accepted ends without a sound if a tone holds the
  lock for more than 50 ms, and after a `pwm_audio_init()` that failed half way
  every later job fails. The panel's program does not use the buzzer yet.
- A calendar write that broke off is shown as valid, and a stop command that was carried
  out but not acknowledged leaves the clock chip stopped (`rtc_clock.cpp:82`).

## 8. Plan

1. **Proofs**: `TouchKeys`, `RlcdOutput`, `RtcClock` and the two rotations have
   small state and invariants close to their properties; `PicoPmu` needs that a number
   in use is answered at most once; `GestureTracker` that the stages of a wave are in
   order. With these, `GesturesAreMeant` and `TransformsAgree` would be put together as
   `HistorySurvives` is.
2. **`NotificationDecoder`**: lines, `_on_notification()` and the matching of
   acknowledgements by command and number. **`OtaSender`** composed with `OtaDevice`:
   the sender reports success only if the new image runs and has confirmed itself.
   **`DeviceRegistry`**: the ownership file with crashes between the steps.
