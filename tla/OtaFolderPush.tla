--------------------------- MODULE OtaFolderPush ----------------------------
(***************************************************************************)
(* The commands of the BLE task that carry an update: the Folder Push      *)
(* state machine (esp_desktop_buddy_folder_push/src/buddy_folder_push.c),  *)
(* the two-file sink behind it (usage_ota/src/folder_push_sink.cpp), and   *)
(* ota_abort and disconnects (usage_ble/src/ble_service.cpp).              *)
(*                                                                         *)
(* `push' and `sink' belong to the BLE task alone, so a handler is one     *)
(* action for each mutex section of the session it passes through.  `ble'  *)
(* says where a handler with several sections stands:                      *)
(*   finish, accepted, refused    inside OtaSession::end()                 *)
(*   abort_check, abort_call      inside the sink's abort_transfer()       *)
(* Requests answered with an error and no change of state do not appear.   *)
(***************************************************************************)
EXTENDS OtaSession

CONSTANTS
    Totals,        \* totals a char_begin may declare
    FileSizes,     \* sizes a file command may declare
    ChunkLens,     \* decoded lengths a chunk may have
    Sources,       \* images, or Mixed, whose bytes a chunk may carry
    ManifestCap    \* manifest_.size(), one more than a manifest's length limit

ASSUME FolderPushAssumption ==
    /\ Sources \subseteq Images \cup {Mixed}
    /\ Totals \subseteq Nat /\ FileSizes \subseteq Nat /\ ChunkLens \subseteq Nat
    /\ ManifestCap \in Nat

VARIABLES
    push,          \* esp_desktop_buddy_folder_push_t
    sink           \* OtaFolderPushSink

transferVars == <<push, sink>>

Stages == {"Idle", "AwaitManifest", "ManifestFile", "AwaitFirmware",
           "FirmwareFile", "FirmwareComplete", "Completed"}

PushType == [transfer_active : BOOLEAN, file_active : BOOLEAN,
             total_expected : Nat, total_written : Nat,
             file_expected : Nat, file_written : Nat]
SinkType == [stage : Stages, transfer_expected : Nat,
             manifest_expected : Nat, manifest_size : Nat,
             firmware_expected : Nat, firmware_written : Nat]

PushClosed == [transfer_active |-> FALSE, file_active |-> FALSE,
               total_expected |-> 0, total_written |-> 0,
               file_expected |-> 0, file_written |-> 0]
SinkReset  == [stage |-> "Idle", transfer_expected |-> 0,
               manifest_expected |-> 0, manifest_size |-> 0,
               firmware_expected |-> 0, firmware_written |-> 0]

FileOpened(p, len) == [p EXCEPT !.file_active = TRUE, !.file_expected = len, !.file_written = 0]
FileClosed(p) == [p EXCEPT !.file_active = FALSE, !.file_expected = 0, !.file_written = 0]

\* Mistake: total_written is forgotten.
CountedFileOnly(p, len) == [p EXCEPT !.file_written = @ + len]
Counted(p, len) == [p EXCEPT !.file_written = @ + len, !.total_written = @ + len]

BleIdle   == ble = "idle"
BleDone   == ble' = "idle"
OtaSame   == UNCHANGED <<sessionVars, storageVars>>

\* The failing handler replies and calls esp_desktop_buddy_folder_push_abort(),
\* whose transfer is active here.
Fail == ble' = "abort_check" /\ UNCHANGED transferVars

-----------------------------------------------------------------------------
(* char_begin                                                              *)

\* Mistake: an empty transfer is let in.
AnyTotal(total) == TRUE
TotalValid(total) == total # 0

CharBegin(total) ==
    /\ BleIdle /\ ~push.transfer_active
    /\ TotalValid(total)
    /\ sink.stage = "Idle" /\ phase = "Idle"
    /\ push' = [PushClosed EXCEPT !.transfer_active = TRUE, !.total_expected = total]
    /\ sink' = [SinkReset EXCEPT !.stage = "AwaitManifest", !.transfer_expected = total]
    /\ OtaSame /\ BleDone

-----------------------------------------------------------------------------
(* file                                                                    *)

FileReady == BleIdle /\ push.transfer_active /\ ~push.file_active

ManifestAnnounced(path, len) ==
    /\ sink.stage = "AwaitManifest"
    /\ path = "manifest.json" /\ len # 0 /\ len < ManifestCap

FirmwareAuthorized(path, len) ==
    /\ sink.stage = "AwaitFirmware"
    /\ path = "firmware.bin" /\ len # 0
    /\ phase = "Receiving" /\ len = sink.firmware_expected

BeginManifest(path, len) ==
    /\ FileReady /\ ManifestAnnounced(path, len)
    /\ push' = FileOpened(push, len)
    /\ sink' = [sink EXCEPT !.stage = "ManifestFile", !.manifest_expected = len, !.manifest_size = 0]
    /\ OtaSame /\ BleDone

BeginFirmware(path, len) ==
    /\ FileReady /\ FirmwareAuthorized(path, len)
    /\ push' = FileOpened(push, len)
    /\ sink' = [sink EXCEPT !.stage = "FirmwareFile", !.firmware_written = 0]
    /\ OtaSame /\ BleDone

FileRefused(path, len) ==
    /\ FileReady
    /\ ~ManifestAnnounced(path, len) /\ ~FirmwareAuthorized(path, len)
    /\ Fail /\ OtaSame

-----------------------------------------------------------------------------
(* chunk: `from' is the image whose bytes the chunk carries.               *)

InFile    == BleIdle /\ push.transfer_active /\ push.file_active
Fits(len) == /\ len <= push.file_expected - push.file_written
             /\ len <= push.total_expected - push.total_written

ManifestFits(len) ==
    /\ sink.stage = "ManifestFile" /\ len # 0
    /\ len <= sink.manifest_expected - sink.manifest_size
    /\ len < ManifestCap - sink.manifest_size

FirmwareFits(len) ==
    /\ sink.stage = "FirmwareFile" /\ len # 0
    /\ len <= sink.firmware_expected - sink.firmware_written

ManifestChunk(len) ==
    /\ InFile /\ Fits(len) /\ ManifestFits(len)
    /\ push' = Counted(push, len)
    /\ sink' = [sink EXCEPT !.manifest_size = @ + len]
    /\ OtaSame /\ BleDone

\* Mistake: firmware_written_ stays behind.
FirmwareNotCounted(s, len) == s
FirmwareCounted(s, len) == [s EXCEPT !.firmware_written = @ + len]

FirmwareChunk(from, len) ==
    /\ InFile /\ Fits(len) /\ FirmwareFits(len)
    /\ Written(sink.firmware_written, from, len)
    /\ push' = Counted(push, len)
    /\ sink' = FirmwareCounted(sink, len)
    /\ BleDone

\* The flash refuses the bytes, or (never, says NoSequenceGap) the sink's
\* counter and the session's offset disagree.
FirmwareChunkLost(len) ==
    /\ InFile /\ Fits(len) /\ FirmwareFits(len)
    /\ WriteFailed(sink.firmware_written, len) \/ WriteGap(sink.firmware_written, len)
    /\ Fail

\* Too many bytes, none at all, or no session left to write to.
ChunkRefused(len) ==
    /\ InFile
    /\ \/ ~Fits(len)
       \/ ~ManifestFits(len) /\ ~FirmwareFits(len)
       \/ FirmwareFits(len) /\ phase # "Receiving"
    /\ Fail /\ OtaSame

-----------------------------------------------------------------------------
(* file_end                                                                *)

FileComplete == push.file_expected = push.file_written

\* Mistake: the declared total is not bound to the image.
AnySize(m) == TRUE

\* A manifest as the sink reads it: whose firmware it is for, whether it has
\* exactly the six fields, and what it offers.  Its size and its own length
\* make up the total that char_begin declared.
SizeFits(m) == sink.transfer_expected = sink.manifest_expected + m.size

ManifestValid(m) == m.identity = "ours" /\ m.sixFields /\ m.size # 0 /\ SizeFits(m)

ManifestRead == InFile /\ FileComplete /\ sink.stage = "ManifestFile"
                       /\ sink.manifest_size = sink.manifest_expected

AcceptManifest(m) ==
    /\ ManifestRead /\ ManifestValid(m)
    /\ BeginAccepted(m)
    /\ push' = FileClosed(push)
    /\ sink' = [sink EXCEPT !.stage = "AwaitFirmware", !.firmware_expected = m.size]
    /\ BleDone

RefuseManifest(m) ==
    /\ ManifestRead
    /\ \/ ManifestValid(m) /\ BeginRefused(m)
       \/ m.identity = "project" /\ RejectIdentity(FALSE)
       \/ m.identity = "target" /\ RejectIdentity(TRUE)
       \/ ~ManifestValid(m) /\ m.identity = "ours" /\ OtaSame
    /\ Fail

EndFirmware ==
    /\ InFile /\ FileComplete
    /\ sink.stage = "FirmwareFile" /\ sink.firmware_written = sink.firmware_expected
    /\ push' = FileClosed(push)
    /\ sink' = [sink EXCEPT !.stage = "FirmwareComplete"]
    /\ OtaSame /\ BleDone

EndFileShort ==
    /\ InFile /\ ~FileComplete
    /\ Fail /\ OtaSame

-----------------------------------------------------------------------------
(* char_end                                                                *)

TransferComplete == FileReady /\ push.total_written = push.total_expected

CharEndShort ==
    /\ FileReady /\ ~TransferComplete
    /\ Fail /\ OtaSame

\* The session is gone, or short of bytes: end() fails at once.  A sink that
\* has not got both files refuses without forgetting its stage.
CharEndRefused ==
    /\ TransferComplete
    /\ IF sink.stage = "FirmwareComplete"
       THEN /\ (phase # "Receiving" /\ OtaSame) \/ EndShort
            /\ sink' = SinkReset
       ELSE OtaSame /\ UNCHANGED sink
    /\ push' = PushClosed
    /\ BleDone

CharEndStarted ==
    /\ TransferComplete
    /\ sink.stage = "FirmwareComplete"
    /\ EndStarted
    /\ ble' = "finish"
    /\ UNCHANGED transferVars

Finish == (FinishAccepted \/ FinishRefused) /\ UNCHANGED transferVars

CharEndAccepted ==
    /\ EndAccepted
    /\ push' = PushClosed
    /\ sink' = [sink EXCEPT !.stage = "Completed"]
    /\ BleDone

CharEndFailed ==
    /\ EndRefused
    /\ push' = PushClosed
    /\ sink' = SinkReset
    /\ BleDone

-----------------------------------------------------------------------------
(* Abandoning a transfer.                                                  *)

\* Mistake: a session is aborted only once firmware bytes flow.
SinkOwnsFlash == phase # "Idle" /\ sink.stage = "FirmwareFile"
SinkOwnsSession == phase # "Idle" /\ sink.stage \notin {"Idle", "Completed"}

\* abort_transfer() asks whether the session is busy in one critical section
\* and aborts it in the next.
AbortCheck ==
    /\ ble = "abort_check"
    /\ IF SinkOwnsSession
       THEN ble' = "abort_call" /\ UNCHANGED transferVars
       ELSE BleDone /\ push' = PushClosed /\ sink' = SinkReset
    /\ OtaSame

AbortCall ==
    /\ ble = "abort_call"
    /\ Aborted
    /\ push' = PushClosed
    /\ sink' = SinkReset
    /\ BleDone

\* Mistake: ota_abort resets the sink whatever became of the update.
OtaAbortForgetting ==
    /\ BleIdle
    /\ Aborted
    /\ push' = PushClosed /\ sink' = SinkReset
    /\ BleDone

\* ota_abort aborts the session, then deletes and recreates Folder Push, which
\* abandons its transfer only if one is active.
OtaAbort ==
    /\ BleIdle
    /\ Aborted
    /\ ble' = IF push.transfer_active THEN "abort_check" ELSE "idle"
    /\ UNCHANGED transferVars

\* A disconnect resets the session, and only the session.
Disconnect ==
    /\ BleIdle
    /\ LinkLost
    /\ BleDone
    /\ UNCHANGED transferVars
=============================================================================
