----------------------------- MODULE OtaDevice ------------------------------
(***************************************************************************)
(* The device during a firmware update: the BLE task of OtaFolderPush, the *)
(* application's main loop (targets/m5sticks3/main/app_main.cpp), the      *)
(* start-up check (BleService::verify_boot) and the bootloader's rollback. *)
(*                                                                         *)
(* The main loop samples the clock, ticks the session, takes a snapshot,   *)
(* and acts on buttons, on the reboot delay and on the start-up deadline   *)
(* with that sample and that snapshot, while the BLE task goes on between  *)
(* any two of these steps.  Power may fail at any moment.                  *)
(***************************************************************************)
EXTENDS OtaFolderPush

CONSTANTS
    Manifests,       \* manifests a sender may send
    RebootDelay,     \* 500 ms, in clock units
    StartupDeadline, \* 10 s, in clock units
    SilentImages,    \* images whose BLE never comes up
    Factory          \* the image in place before any update

ASSUME DeviceAssumption ==
    /\ Manifests \subseteq
         [identity : {"ours", "project", "target"}, sixFields : BOOLEAN,
          sha : Images, version : Versions, size : Nat, wellFormed : BOOLEAN]
    /\ RebootDelay \in Nat \ {0}
    /\ StartupDeadline \in Nat \ {0}
    /\ SilentImages \subseteq Images
    /\ Factory \in OurImages \ SilentImages

VARIABLES
    loop,            \* the main loop's next step
    lag,             \* age of its clock sample now_ms
    view,            \* ota_view.phase
    rebootArmed,     \* reboot_at_ms # 0
    rebootAge,       \* age of the sample that armed it
    bleReady,        \* host synced, and advertising or connected
    bootValid,       \* BleService::boot_valid_
    startupAge       \* time since BleService::start(), until bootValid

loopVars == <<loop, lag, view, rebootArmed, rebootAge>>
bootVars == <<bleReady, bootValid, startupAge>>
vars     == <<otaVars, transferVars, loopVars, bootVars>>

LoopSteps == {"sample", "tick", "view", "front", "front_view", "side", "side_view",
              "reboot", "verify"}

Intact(s) == slots[s].image \in Images /\ slots[s].bytes = SizeOf[slots[s].image]

Init ==
    /\ phase = "Idle" /\ error = "None" /\ failureCount = 0
    /\ offset = 0 /\ size = 0 /\ expected = NoOffer /\ age = 0
    /\ backendActive = FALSE /\ active = FALSE
    /\ slots = [s \in Slots |-> IF s = "ota_0"
                                THEN [image |-> Factory, bytes |-> SizeOf[Factory]]
                                ELSE [image |-> Nothing, bytes |-> 0]]
    /\ running = "ota_0" /\ boot = "ota_0" /\ bootState = "valid"
    /\ powerOk = FALSE
    /\ ble = "idle" /\ push = PushClosed /\ sink = SinkReset
    /\ loop = "sample" /\ lag = 0 /\ view = "Idle"
    /\ rebootArmed = FALSE /\ rebootAge = 0
    /\ bleReady = FALSE /\ bootValid = FALSE /\ startupAge = 0

\* A start forgets RAM.  The bootloader rolls back an image that was started
\* once and never confirmed, and marks a new one as started.
Start ==
    /\ phase' = "Idle" /\ error' = "None" /\ failureCount' = 0
    /\ offset' = 0 /\ size' = 0 /\ expected' = NoOffer /\ age' = 0
    /\ backendActive' = FALSE /\ active' = FALSE
    /\ running' = IF bootState = "pending" THEN Other(boot) ELSE boot
    /\ boot' = running'
    /\ bootState' = IF bootState = "new" THEN "pending" ELSE "valid"
    /\ powerOk' = FALSE
    /\ ble' = "idle" /\ push' = PushClosed /\ sink' = SinkReset
    /\ loop' = "sample" /\ lag' = 0 /\ view' = "Idle"
    /\ rebootArmed' = FALSE /\ rebootAge' = 0
    /\ bleReady' = FALSE /\ bootValid' = FALSE /\ startupAge' = 0
    /\ UNCHANGED slots

-----------------------------------------------------------------------------
(* The BLE task.  Commands arrive once BLE is up.                          *)

Command ==
    \/ \E total \in Totals : CharBegin(total)
    \/ \E path \in {"manifest.json", "firmware.bin"}, len \in FileSizes :
          BeginManifest(path, len) \/ BeginFirmware(path, len) \/ FileRefused(path, len)
    \/ \E len \in ChunkLens :
          ManifestChunk(len) \/ FirmwareChunkLost(len) \/ ChunkRefused(len)
    \/ \E from \in Sources, len \in ChunkLens : FirmwareChunk(from, len)
    \/ \E m \in Manifests : AcceptManifest(m) \/ RefuseManifest(m)
    \/ EndFirmware \/ EndFileShort
    \/ CharEndShort \/ CharEndRefused \/ CharEndStarted
    \/ OtaAbort
    \/ Disconnect

\* The rest of a handler under way.
Handler == Finish \/ CharEndAccepted \/ CharEndFailed \/ AbortCheck \/ AbortCall

Ble ==
    /\ (bleReady /\ Command) \/ Handler
    /\ UNCHANGED <<powerOk, loopVars, bootVars>>

-----------------------------------------------------------------------------
(* The main loop.                                                          *)

LoopAt(step, next) == loop = step /\ loop' = next

\* now_ms is sampled and the power reading published.
LoopSample ==
    /\ LoopAt("sample", "tick")
    /\ lag' = 0
    /\ powerOk' \in BOOLEAN
    /\ UNCHANGED <<sessionVars, storageVars, view, rebootArmed, rebootAge>>

LoopTick ==
    /\ LoopAt("tick", "view")
    /\ TickExpired(lag) \/ (~Expired(lag) /\ OtaSame)
    /\ UNCHANGED <<powerOk, lag, view, rebootArmed, rebootAge>>

\* ota_view = ota.snapshot(), after tick() and again after each button.
LoopView ==
    /\ \/ LoopAt("view", "front")
       \/ LoopAt("front_view", "side")
       \/ LoopAt("side_view", "reboot")
    /\ view' = phase
    /\ OtaSame
    /\ UNCHANGED <<powerOk, lag, rebootArmed, rebootAge>>

LoopNoClick ==
    /\ LoopAt("front", "side") \/ LoopAt("side", "reboot")
    /\ OtaSame
    /\ UNCHANGED <<powerOk, lag, view, rebootArmed, rebootAge>>

\* BtnA confirms if the snapshot showed Confirming; confirm() looks again.
LoopConfirm ==
    /\ LoopAt("front", "front_view")
    /\ view = "Confirming"
    /\ \/ Confirmed(lag) \/ ConfirmLowPower \/ ConfirmStorageFailed
       \/ phase # "Confirming" /\ OtaSame
    /\ UNCHANGED <<powerOk, lag, view, rebootArmed, rebootAge>>

LoopDeny ==
    /\ LoopAt("side", "side_view")
    /\ view = "Confirming"
    /\ Denied \/ (phase # "Confirming" /\ OtaSame)
    /\ UNCHANGED <<powerOk, lag, view, rebootArmed, rebootAge>>

RebootDue == rebootArmed /\ rebootAge - lag >= RebootDelay

\* Mistake: each pass in Rebooting starts the delay again.
LoopRebootRearming ==
    /\ LoopAt("reboot", "verify")
    /\ ~RebootDue
    /\ rebootArmed' = (rebootArmed \/ view = "Rebooting")
    /\ rebootAge' = IF view = "Rebooting" THEN lag ELSE rebootAge
    /\ OtaSame
    /\ UNCHANGED <<powerOk, lag, view>>

LoopReboot ==
    /\ LoopAt("reboot", "verify")
    /\ ~RebootDue
    /\ rebootArmed' = (rebootArmed \/ view = "Rebooting")
    /\ rebootAge' = IF view = "Rebooting" /\ ~rebootArmed THEN lag ELSE rebootAge
    /\ OtaSame
    /\ UNCHANGED <<powerOk, lag, view>>

LoopRestart == loop = "reboot" /\ RebootDue /\ Start

\* Mistake: the deadline is never looked at.
StartupNeverOverdue == FALSE
StartupOverdue == startupAge >= StartupDeadline

\* verify_boot(): the application confirms itself once BLE is up, ...
LoopVerify ==
    /\ LoopAt("verify", "sample")
    /\ \/ /\ bootValid \/ (~bleReady /\ ~StartupOverdue)
          /\ UNCHANGED <<bootValid, bootState>>
       \/ /\ ~bootValid /\ bleReady
          /\ bootValid' = TRUE
          /\ bootState' = IF bootState = "pending" THEN "valid" ELSE bootState
    /\ UNCHANGED <<sessionVars, active, slots, running, boot>>
    /\ UNCHANGED <<powerOk, lag, view, rebootArmed, rebootAge, bleReady, startupAge>>

\* ... and restarts if BLE is late or its confirmation cannot be stored.
LoopVerifyFailed ==
    /\ loop = "verify"
    /\ ~bootValid
    /\ IF bleReady THEN bootState = "pending" ELSE StartupOverdue
    /\ Start

LoopStep ==
    \/ LoopSample \/ LoopTick \/ LoopView \/ LoopNoClick \/ LoopConfirm
    \/ LoopDeny \/ LoopReboot

MainLoop ==
    \/ LoopStep /\ UNCHANGED <<ble, transferVars, bootVars>>
    \/ LoopVerify /\ UNCHANGED <<ble, transferVars>>
    \/ LoopRestart
    \/ LoopVerifyFailed

-----------------------------------------------------------------------------
(* The surroundings.                                                       *)

\* Time passes; the main loop never falls further behind than MaxLag.
Older(a, cap) == IF a < cap THEN a + 1 ELSE a

Clock ==
    /\ lag < MaxLag
    /\ lag' = lag + 1
    /\ AgeOneUnit
    /\ rebootAge' = IF rebootArmed THEN Older(rebootAge, RebootDelay + MaxLag) ELSE rebootAge
    /\ startupAge' = IF bootValid THEN 0 ELSE Older(startupAge, StartupDeadline)
    /\ UNCHANGED <<powerOk, ble, transferVars, loop, view, rebootArmed, bleReady, bootValid>>

BleUp ==
    /\ ~bleReady
    /\ slots[running].image \notin SilentImages
    /\ bleReady' = TRUE
    /\ UNCHANGED <<otaVars, transferVars, loopVars, bootValid, startupAge>>

PowerLoss == Start

Next == Ble \/ MainLoop \/ Clock \/ BleUp \/ PowerLoss

Spec == Init /\ [][Next]_vars

\* The scheduler runs the main loop and the handler under way, and time passes.
\* Nothing is assumed of the sender, of the buttons or of the power supply.
Fairness ==
    /\ WF_vars(MainLoop)
    /\ WF_vars(Ble /\ ~BleIdle)
    /\ WF_vars(Clock)

FairSpec == Spec /\ Fairness

-----------------------------------------------------------------------------
(* Invariants.                                                             *)

\* Every variable has its type; size fits the partition and no time stamp
\* is older than the model distinguishes.
TypeOK ==
    /\ phase \in Phases /\ error \in Errors
    /\ failureCount \in 0 .. CountModulus - 1
    /\ size \in 0 .. Capacity /\ offset \in Nat
    /\ expected \in Promises \cup {NoOffer}
    /\ age \in Nat
    /\ backendActive \in BOOLEAN /\ active \in BOOLEAN
    /\ slots \in [Slots -> Contents]
    /\ running \in Slots /\ boot \in Slots
    /\ bootState \in {"valid", "new", "pending"}
    /\ powerOk \in BOOLEAN
    /\ ble \in {"idle", "finish", "accepted", "refused", "abort_check", "abort_call"}
    /\ push \in PushType /\ sink \in SinkType
    /\ loop \in LoopSteps /\ lag \in 0 .. MaxLag /\ view \in Phases
    /\ rebootArmed \in BOOLEAN /\ rebootAge \in Nat
    /\ bleReady \in BOOLEAN /\ bootValid \in BOOLEAN
    /\ startupAge \in 0 .. StartupDeadline

\* The flash handle is open exactly while an update is being received or
\* verified, and verification is under way exactly while the BLE task is
\* inside end(), although end() lets go of the mutex and the main loop may
\* tick, confirm and deny meanwhile.
BackendFollowsPhase ==
    /\ backendActive <=> phase \in {"Receiving", "Verifying"}
    /\ active <=> phase = "Receiving" \/ ble = "finish"
    /\ phase = "Verifying" <=> ble \in {"finish", "accepted", "refused"}

\* A session in progress belongs to the transfer the sink is in: the sink
\* holds the size the session was begun with, and its count of firmware bytes
\* is the session's offset and the number of bytes in flash.
SinkFollowsSession ==
    /\ phase \in {"Confirming", "Receiving", "Verifying"} =>
         /\ sink.stage \in {"AwaitFirmware", "FirmwareFile", "FirmwareComplete"}
         /\ sink.firmware_expected = size
         /\ sink.firmware_written = offset
    /\ phase = "Confirming" => sink.stage = "AwaitFirmware"
    /\ phase = "Verifying" => sink.stage = "FirmwareComplete"
    /\ phase = "Receiving" => slots[Update].bytes = offset
    /\ phase = "Rebooting" => sink.stage = "Completed"

\* The protocol layer and the sink each keep counters of the same transfer;
\* whatever is refused or aborted on the way, they agree.
PushMatchesSink ==
    /\ push.transfer_active <=> sink.stage \notin {"Idle", "Completed"}
    /\ push.file_active <=> sink.stage \in {"ManifestFile", "FirmwareFile"}
    /\ push.transfer_active =>
         /\ push.total_expected = sink.transfer_expected
         /\ push.total_written = sink.manifest_size + sink.firmware_written
         /\ push.total_written <= push.total_expected
    /\ sink.stage = "ManifestFile" =>
         /\ push.file_expected = sink.manifest_expected
         /\ push.file_written = sink.manifest_size
    /\ sink.stage = "FirmwareFile" =>
         /\ push.file_expected = sink.firmware_expected
         /\ push.file_written = sink.firmware_written

\* OtaSession::write() guards against gaps and replays, but the sink hands it
\* its own count, so no order of commands, timeouts and disconnects, and no
\* stale transfer, ever meets that guard.
NoSequenceGap == error # "SeqGap"

\* Whenever power fails, the partition the bootloader will start holds a
\* complete image of this project; and so does the other one as long as a
\* rollback may need it.
AlwaysBootable ==
    /\ slots[boot].image \in OurImages /\ Intact(boot)
    /\ bootState # "valid" =>
         slots[Other(boot)].image \in OurImages /\ Intact(Other(boot))

\* A device that is at rest and has no update waiting for the restart is
\* ready for the next transfer: no path through refusals, aborts, timeouts
\* and disconnects leaves the sink half open.
ReadyAgain ==
    BleIdle /\ ~push.transfer_active /\ phase = "Idle" /\ boot = running
        => sink.stage = "Idle"

\* How far a transfer has come: in each stage of the sink, which counters are
\* still zero, which are complete, and how they add up to the declared total.
TransferProgress ==
    /\ sink.stage = "AwaitManifest" =>
         /\ sink.transfer_expected > 0
         /\ sink.manifest_size = 0 /\ sink.firmware_written = 0
    /\ sink.stage = "ManifestFile" =>
         /\ sink.manifest_expected > 0
         /\ sink.manifest_size <= sink.manifest_expected /\ sink.firmware_written = 0
    /\ sink.stage \in {"AwaitFirmware", "FirmwareFile", "FirmwareComplete"} =>
         /\ sink.manifest_size = sink.manifest_expected /\ sink.firmware_expected > 0
         /\ sink.transfer_expected = sink.manifest_expected + sink.firmware_expected
         /\ sink.firmware_written <= sink.firmware_expected
    /\ sink.stage = "AwaitFirmware" => sink.firmware_written = 0
    /\ sink.stage = "FirmwareComplete" => sink.firmware_written = sink.firmware_expected
    /\ ble \in {"abort_check", "abort_call"} => push.transfer_active
    /\ phase \in {"Confirming", "Receiving", "Verifying"} => expected \in Promises

\* The next start runs another partition only after an update was accepted,
\* and from then on no session can begin: the sink stays in Completed.
BootChoice ==
    /\ boot # running <=> bootState = "new"
    /\ bootState = "new" => ble = "accepted" \/ sink.stage = "Completed"
    /\ sink.stage = "Completed" =>
         bootState = "new" /\ ble = "idle" /\ phase \in {"Idle", "Rebooting"}
    /\ ble = "accepted" => bootState = "new"
    /\ phase = "Receiving" \/ ble = "finish" => bootState = "valid"

\* The inductive invariant of the device.
Consistent ==
    /\ BackendFollowsPhase /\ SinkFollowsSession /\ PushMatchesSink
    /\ TransferProgress /\ BootChoice /\ AlwaysBootable

IndInv == TypeOK /\ Consistent

-----------------------------------------------------------------------------
(* Action properties.                                                      *)

\* The main loop's tick() gives up an update only when its time stamp really
\* is that old, however stale the loop's clock sample and however recently
\* the BLE task renewed the stamp.
NoEarlyTimeout ==
    [][loop = "tick" /\ loop' = "view" /\ phase' # phase => age >= Timeout(phase)]_vars

\* "Cancels any active update and returns to Idle" (session.hpp:99): once
\* ota_abort has been carried out, the next start runs what runs now.
AbortCancels == [][OtaAbort => boot' = running']_vars

-----------------------------------------------------------------------------
(* Liveness.                                                               *)

\* A silent sender cannot keep the device busy: every offer and every
\* reception comes to an end.
SessionEnds ==
    /\ phase = "Confirming" ~> phase # "Confirming"
    /\ phase = "Receiving" ~> phase # "Receiving"

\* An update that was accepted is followed by a restart, unless it is aborted.
RebootFollows == phase = "Rebooting" ~> phase # "Rebooting"

\* A new image whose BLE does not come up is not kept.
SilentImageRolledBack ==
    slots[running].image \in SilentImages ~> slots[running].image \notin SilentImages

-----------------------------------------------------------------------------
(* The device implements OtaPromise.                                       *)

Promise == INSTANCE OtaPromise WITH
    NoImage  <- NoOffer,
    offer    <- IF phase \in {"Confirming", "Receiving", "Verifying"}
                THEN expected.sha ELSE NoOffer,
    granted  <- phase \in {"Receiving", "Verifying"},
    next     <- slots[boot].image,
    fallback <- IF bootState = "valid" THEN NoOffer ELSE slots[Other(boot)].image,
    trial    <- CASE bootState = "valid" -> "no"
                  [] bootState = "new" -> "scheduled"
                  [] bootState = "pending" -> "started"

\* Only a granted and genuine image is ever chosen for the next start, and a
\* start that does not prove itself is undone.
PromiseKept == Promise!PromiseSpec
=============================================================================
