-------------------------- MODULE FirmwareProofs ---------------------------
(***************************************************************************)
(* Proofs about the firmware: a device during an update (OtaDevice), the   *)
(* way of a command (CommandPath), and gestures and the camera             *)
(* (GestureInput), in this order.                                          *)
(*                                                                         *)
(* OtaDevice, for all images, sizes, timeouts and inputs: one lemma per    *)
(* action shows that it preserves IndInv, first the types, then the        *)
(* relations between session, flash, sink and protocol layer.  The         *)
(* theorems of the part follow from them.                                  *)
(***************************************************************************)
EXTENDS OtaDevice, SequenceTheorems, TLAPS

USE SessionAssumption, FolderPushAssumption, DeviceAssumption
USE DEF BleIdle, BleDone, OtaSame, Fail, InFile, FileReady, FileComplete,
        sessionVars, storageVars, transferVars, otaVars, loopVars, bootVars

\* What a step of the BLE task leaves to the main loop.
Frame == UNCHANGED <<powerOk, loopVars, bootVars>>

-----------------------------------------------------------------------------
(* Types of the operators the actions are built from.                      *)

\* A remainder is smaller than the modulus: failure_count wraps.
LEMMA RemainderType ==
    ASSUME NEW a \in Nat, NEW b \in Nat \ {0} PROVE a % b \in 0 .. b - 1
  OBVIOUS

\* A count of bytes added to both counters of the protocol layer.
LEMMA CountedType ==
    ASSUME NEW p \in PushType, NEW len \in Nat PROVE Counted(p, len) \in PushType
  <1> DEFINE file  == p.file_written + len
             total == p.total_written + len
  <1>1. file \in Nat /\ total \in Nat
    BY DEF PushType
  <1>2. Counted(p, len) = [p EXCEPT !.file_written = file, !.total_written = total]
    BY DEF Counted
  <1> HIDE DEF file, total
  <1> QED
    BY <1>1, <1>2 DEF PushType

\* Opening and closing a file keep the protocol layer's type.
LEMMA FileType ==
    ASSUME NEW p \in PushType, NEW len \in Nat
    PROVE  FileOpened(p, len) \in PushType /\ FileClosed(p) \in PushType
  BY DEF FileOpened, FileClosed, PushType

\* The closed transfer has the types of its layers.
LEMMA ClosedType == PushClosed \in PushType /\ SinkReset \in SinkType
  BY DEF PushClosed, SinkReset, PushType, SinkType, Stages

\* Writing a chunk leaves a partition's content well typed.
LEMMA ExtendedType ==
    ASSUME NEW c \in Contents, NEW from \in Images \cup {Mixed}, NEW len \in Nat
    PROVE  Extended(c, from, len) \in Contents
  BY DEF Contents, Extended

\* reset_locked() leaves the session well typed, whatever the error.
LEMMA ClearedType ==
    ASSUME TypeOK, NEW e \in Errors, SessionCleared(e)
    PROVE  /\ phase' \in Phases /\ error' \in Errors
           /\ failureCount' \in 0 .. CountModulus - 1
           /\ size' \in 0 .. Capacity /\ offset' \in Nat
           /\ expected' \in Promises \cup {NoOffer} /\ age' \in Nat
           /\ backendActive' \in BOOLEAN
  <1>1. failureCount' \in 0 .. CountModulus - 1
    BY RemainderType DEF TypeOK, SessionCleared
  <1>2. phase' \in Phases /\ error' \in Errors
    BY DEF SessionCleared, Phases
  <1>3. size' \in 0 .. Capacity /\ offset' \in Nat /\ age' \in Nat
    BY DEF SessionCleared
  <1>4. expected' \in Promises \cup {NoOffer} /\ backendActive' \in BOOLEAN
    BY DEF SessionCleared
  <1> QED
    BY <1>1, <1>2, <1>3, <1>4

\* Reset(e) also leaves storage well typed, and closes the handle if the
\* session had opened it.
LEMMA ResetType ==
    ASSUME TypeOK, NEW e \in Errors, Reset(e)
    PROVE  /\ phase' \in Phases /\ error' \in Errors
           /\ failureCount' \in 0 .. CountModulus - 1
           /\ size' \in 0 .. Capacity /\ offset' \in Nat
           /\ expected' \in Promises \cup {NoOffer} /\ age' \in Nat
           /\ backendActive' \in BOOLEAN /\ active' \in BOOLEAN
           /\ UNCHANGED <<slots, running, boot, bootState>>
  <1>1. SessionCleared(e)
    BY DEF Reset
  <1>2. active' \in BOOLEAN /\ UNCHANGED <<slots, running, boot, bootState>>
    BY DEF Reset, BackendAborted, TypeOK
  <1> QED
    BY <1>1, <1>2, ClearedType

-----------------------------------------------------------------------------
(* The BLE task.                                                           *)

\* A handler that fails with the session untouched only moves to the abort.
LEMMA FailStep ==
    ASSUME IndInv, BleIdle, push.transfer_active, Fail, OtaSame, Frame
    PROVE  IndInv'
  <1>1. TypeOK'
    BY DEF IndInv, TypeOK, Frame
  <1>2. Consistent'
    BY DEF IndInv, TypeOK, Frame, Consistent, BackendFollowsPhase, SinkFollowsSession,
           PushMatchesSink, TransferProgress, BootChoice, AlwaysBootable, Intact, Other, Update
  <1> QED
    BY <1>1, <1>2 DEF IndInv

\* char_begin opens a transfer on both sides with all counters at zero.
LEMMA CharBeginStep ==
    ASSUME IndInv, NEW total \in Totals, CharBegin(total), Frame
    PROVE  IndInv'
  <1>1. push' \in PushType /\ sink' \in SinkType
    BY ClosedType DEF CharBegin, PushType, PushClosed, SinkType, SinkReset, Stages
  <1>2. TypeOK'
    BY <1>1 DEF IndInv, TypeOK, CharBegin, Frame
  <1>3. Consistent'
    BY DEF IndInv, TypeOK, CharBegin, TotalValid, PushClosed, SinkReset, Frame,
           Consistent, BackendFollowsPhase, SinkFollowsSession, PushMatchesSink,
           TransferProgress, BootChoice, AlwaysBootable, Intact, Other, Update
  <1> QED
    BY <1>2, <1>3 DEF IndInv

\* Opening the manifest starts its counters in both layers.
LEMMA BeginManifestStep ==
    ASSUME IndInv, NEW path, NEW len \in FileSizes, BeginManifest(path, len), Frame
    PROVE  IndInv'
  <1>1. push' \in PushType
    BY FileType DEF IndInv, TypeOK, BeginManifest
  <1>2. sink' \in SinkType
    BY DEF IndInv, TypeOK, SinkType, Stages, BeginManifest
  <1>3. TypeOK'
    BY <1>1, <1>2 DEF IndInv, TypeOK, BeginManifest, Frame
  <1>4. Consistent'
    BY DEF IndInv, TypeOK, BeginManifest, ManifestAnnounced, FileOpened, Frame,
           Consistent, BackendFollowsPhase, SinkFollowsSession, PushMatchesSink,
           TransferProgress, BootChoice, AlwaysBootable, Intact, Other, Update
  <1> QED
    BY <1>3, <1>4 DEF IndInv

\* Opening the firmware file starts its counters; the session is receiving.
LEMMA BeginFirmwareStep ==
    ASSUME IndInv, NEW path, NEW len \in FileSizes, BeginFirmware(path, len), Frame
    PROVE  IndInv'
  <1>1. push' \in PushType
    BY FileType DEF IndInv, TypeOK, BeginFirmware
  <1>2. sink' \in SinkType
    BY DEF IndInv, TypeOK, SinkType, Stages, BeginFirmware
  <1>3. TypeOK'
    BY <1>1, <1>2 DEF IndInv, TypeOK, BeginFirmware, Frame
  <1>4. Consistent'
    BY DEF IndInv, TypeOK, BeginFirmware, FirmwareAuthorized, FileOpened, Frame,
           Consistent, BackendFollowsPhase, SinkFollowsSession, PushMatchesSink,
           TransferProgress, BootChoice, AlwaysBootable, Intact, Other, Update
  <1> QED
    BY <1>3, <1>4 DEF IndInv

\* A manifest chunk moves both layers' counters by the same length.
LEMMA ManifestChunkStep ==
    ASSUME IndInv, NEW len \in ChunkLens, ManifestChunk(len), Frame
    PROVE  IndInv'
  <1>1. push' \in PushType
    BY CountedType DEF IndInv, TypeOK, ManifestChunk
  <1>2. sink' \in SinkType
    BY DEF IndInv, TypeOK, SinkType, Stages, ManifestChunk
  <1>3. TypeOK'
    BY <1>1, <1>2 DEF IndInv, TypeOK, ManifestChunk, Frame
  <1>4. Consistent'
    BY DEF IndInv, TypeOK, ManifestChunk, ManifestFits, Fits, Counted, Frame, PushType, SinkType,
           Consistent, BackendFollowsPhase, SinkFollowsSession, PushMatchesSink,
           TransferProgress, BootChoice, AlwaysBootable, Intact, Other, Update
  <1> QED
    BY <1>3, <1>4 DEF IndInv

\* A firmware chunk moves the session's offset, the flash and both layers' counters.
LEMMA FirmwareChunkStep ==
    ASSUME IndInv, NEW from \in Sources, NEW len \in ChunkLens, FirmwareChunk(from, len), Frame
    PROVE  IndInv'
  <1>1. slots' \in [Slots -> Contents]
    BY ExtendedType DEF IndInv, TypeOK, FirmwareChunk, Written, BackendWritten
  <1>2. push' \in PushType
    BY CountedType DEF IndInv, TypeOK, FirmwareChunk
  <1>3. sink' \in SinkType
    BY DEF IndInv, TypeOK, SinkType, Stages, FirmwareChunk, FirmwareCounted
  <1>4. TypeOK'
    BY <1>1, <1>2, <1>3 DEF IndInv, TypeOK, FirmwareChunk, Written, BackendWritten, Frame
  <1>5. Consistent'
    BY DEF IndInv, TypeOK, FirmwareChunk, Fits, FirmwareFits, Written, InOrder, BackendWritten,
           Extended, Counted, FirmwareCounted, Contents, Slots, Frame, PushType, SinkType,
           Consistent, BackendFollowsPhase, SinkFollowsSession, PushMatchesSink,
           TransferProgress, BootChoice, AlwaysBootable, Intact, Other, Update
  <1> QED
    BY <1>4, <1>5 DEF IndInv

\* Bytes the flash or the session refuses reset the session; the sink's abort
\* follows in the same handler.
LEMMA FirmwareChunkLostStep ==
    ASSUME IndInv, NEW len \in ChunkLens, FirmwareChunkLost(len), Frame
    PROVE  IndInv'
  <1>1. PICK e \in {"BadImage", "SeqGap"} : Reset(e)
    BY DEF FirmwareChunkLost, WriteFailed, WriteGap
  <1>2. TypeOK'
    BY <1>1, ResetType DEF IndInv, TypeOK, FirmwareChunkLost, Frame, Errors
  <1>3. Consistent'
    BY <1>1 DEF IndInv, TypeOK, FirmwareChunkLost, WriteFailed, WriteGap, Reset,
           SessionCleared, BackendAborted, Frame,
           Consistent, BackendFollowsPhase, SinkFollowsSession, PushMatchesSink,
           TransferProgress, BootChoice, AlwaysBootable, Intact, Other, Update
  <1> QED
    BY <1>2, <1>3 DEF IndInv

\* An accepted manifest begins a session of the size and image it promises.
LEMMA AcceptManifestStep ==
    ASSUME IndInv, NEW m \in Manifests, AcceptManifest(m), Frame
    PROVE  IndInv'
  <1>1. PromiseOf(m) \in Promises /\ m.size \in 0 .. Capacity
    BY DEF AcceptManifest, BeginAccepted, OfferError, PromiseOf, Promises
  <1>2. push' \in PushType
    BY FileType DEF IndInv, TypeOK, AcceptManifest
  <1>3. sink' \in SinkType
    BY <1>1 DEF IndInv, TypeOK, SinkType, Stages, AcceptManifest
  <1>4. TypeOK'
    BY <1>1, <1>2, <1>3
       DEF IndInv, TypeOK, AcceptManifest, BeginAccepted, Frame, Phases, Errors
  <1>5. Consistent'
    BY <1>1 DEF IndInv, TypeOK, AcceptManifest, ManifestRead, ManifestValid, SizeFits,
           BeginAccepted, FileClosed, SinkType, PushType, Frame,
           Consistent, BackendFollowsPhase, SinkFollowsSession, PushMatchesSink,
           TransferProgress, BootChoice, AlwaysBootable, Intact, Other, Update
  <1> QED
    BY <1>4, <1>5 DEF IndInv

\* A refused manifest leaves the session Idle, with or without an error.
LEMMA RefuseManifestStep ==
    ASSUME IndInv, NEW m \in Manifests, RefuseManifest(m), Frame
    PROVE  IndInv'
  <1>1. CASE OtaSame
    BY <1>1, FailStep DEF RefuseManifest, ManifestRead
  <1>2. CASE ~OtaSame
    <2>1. PICK e \in Errors : phase = "Idle" /\ Reset(e)
      BY <1>2 DEF RefuseManifest, BeginRefused, OfferError, RejectIdentity, Errors
    <2>2. TypeOK'
      BY <2>1, ResetType DEF IndInv, TypeOK, RefuseManifest, Frame
    <2>3. Consistent'
      BY <2>1 DEF IndInv, TypeOK, RefuseManifest, ManifestRead, Reset, SessionCleared,
             BackendAborted, Frame,
           Consistent, BackendFollowsPhase, SinkFollowsSession, PushMatchesSink,
           TransferProgress, BootChoice, AlwaysBootable, Intact, Other, Update
    <2> QED
      BY <2>2, <2>3 DEF IndInv
  <1> QED
    BY <1>1, <1>2

\* file_end on the firmware keeps the complete counters and changes the stage.
LEMMA EndFirmwareStep ==
    ASSUME IndInv, EndFirmware, Frame
    PROVE  IndInv'
  <1>1. push' \in PushType
    BY FileType DEF IndInv, TypeOK, EndFirmware
  <1>2. sink' \in SinkType
    BY DEF IndInv, TypeOK, SinkType, Stages, EndFirmware
  <1>3. TypeOK'
    BY <1>1, <1>2 DEF IndInv, TypeOK, EndFirmware, Frame
  <1>4. Consistent'
    BY DEF IndInv, TypeOK, EndFirmware, FileClosed, SinkType, PushType, Frame,
           Consistent, BackendFollowsPhase, SinkFollowsSession, PushMatchesSink,
           TransferProgress, BootChoice, AlwaysBootable, Intact, Other, Update
  <1> QED
    BY <1>3, <1>4 DEF IndInv

\* Every session in progress has its sink before FirmwareComplete or in it, so
\* a char_end that is refused leaves no session behind.
LEMMA CharEndRefusedStep ==
    ASSUME IndInv, CharEndRefused, Frame
    PROVE  IndInv'
  <1>1. push' \in PushType /\ sink' \in SinkType
    BY ClosedType DEF IndInv, TypeOK, CharEndRefused
  <1>2. CASE OtaSame
    <2>1. TypeOK'
      BY <1>1, <1>2 DEF IndInv, TypeOK, CharEndRefused, Frame
    <2>2. Consistent'
      BY <1>2 DEF IndInv, TypeOK, CharEndRefused, TransferComplete, EndShort, PushClosed,
             SinkReset, SinkType, PushType, Stages, Frame,
           Consistent, BackendFollowsPhase, SinkFollowsSession, PushMatchesSink,
           TransferProgress, BootChoice, AlwaysBootable, Intact, Other, Update
    <2> QED
      BY <2>1, <2>2 DEF IndInv
  <1>3. CASE EndShort
    <2>1. TypeOK'
      BY <1>1, <1>3, ResetType DEF IndInv, TypeOK, CharEndRefused, EndShort, Errors, Frame
    <2>2. Consistent'
      BY <1>3 DEF IndInv, TypeOK, CharEndRefused, TransferComplete, EndShort, PushClosed,
             SinkReset, Reset, SessionCleared, BackendAborted, SinkType, PushType, Frame,
           Consistent, BackendFollowsPhase, SinkFollowsSession, PushMatchesSink,
           TransferProgress, BootChoice, AlwaysBootable, Intact, Other, Update
    <2> QED
      BY <2>1, <2>2 DEF IndInv
  <1> QED
    BY <1>2, <1>3 DEF CharEndRefused

\* char_end enters Verifying with every counter complete.
LEMMA CharEndStartedStep ==
    ASSUME IndInv, CharEndStarted, Frame
    PROVE  IndInv'
  <1>1. TypeOK'
    BY DEF IndInv, TypeOK, CharEndStarted, EndStarted, Frame, Phases
  <1>2. Consistent'
    BY DEF IndInv, TypeOK, CharEndStarted, EndStarted, TransferComplete, Frame,
           Consistent, BackendFollowsPhase, SinkFollowsSession, PushMatchesSink,
           TransferProgress, BootChoice, AlwaysBootable, Intact, Other, Update
  <1> QED
    BY <1>1, <1>2 DEF IndInv

\* The image the next start runs is chosen only after it was compared with the
\* promise, and the running image stays to fall back to.
LEMMA FinishStep ==
    ASSUME IndInv, Finish, Frame
    PROVE  IndInv'
  <1>1. TypeOK'
    BY ZenonT(40) DEF IndInv, TypeOK, Finish, FinishAccepted, FinishRefused, Frame, Update, Other, Slots
  <1>2. Consistent'
    BY DEF IndInv, TypeOK, Finish, FinishAccepted, FinishRefused, Genuine, Slots, Frame,
           Consistent, BackendFollowsPhase, SinkFollowsSession, PushMatchesSink,
           TransferProgress, BootChoice, AlwaysBootable, Intact, Other, Update
  <1> QED
    BY <1>1, <1>2 DEF IndInv

\* An accepted image leaves the sink in Completed and the session in Rebooting.
LEMMA CharEndAcceptedStep ==
    ASSUME IndInv, CharEndAccepted, Frame
    PROVE  IndInv'
  <1>1. push' \in PushType /\ sink' \in SinkType
    BY ClosedType DEF IndInv, TypeOK, CharEndAccepted, SinkType, Stages
  <1>2. TypeOK'
    BY <1>1, ZenonT(40) DEF IndInv, TypeOK, CharEndAccepted, EndAccepted, Frame, Phases, Errors
  <1>3. Consistent'
    BY DEF IndInv, TypeOK, CharEndAccepted, EndAccepted, PushClosed, SinkType, PushType, Frame,
           Consistent, BackendFollowsPhase, SinkFollowsSession, PushMatchesSink,
           TransferProgress, BootChoice, AlwaysBootable, Intact, Other, Update
  <1> QED
    BY <1>2, <1>3 DEF IndInv

\* A refused image clears the session, the transfer and the sink.
LEMMA CharEndFailedStep ==
    ASSUME IndInv, CharEndFailed, Frame
    PROVE  IndInv'
  <1>1. push' \in PushType /\ sink' \in SinkType
    BY ClosedType DEF CharEndFailed
  <1>2. TypeOK'
    BY <1>1, ClearedType DEF IndInv, TypeOK, CharEndFailed, EndRefused, Errors, Frame
  <1>3. Consistent'
    BY DEF IndInv, TypeOK, CharEndFailed, EndRefused, SessionCleared, PushClosed, SinkReset, Frame,
           Consistent, BackendFollowsPhase, SinkFollowsSession, PushMatchesSink,
           TransferProgress, BootChoice, AlwaysBootable, Intact, Other, Update
  <1> QED
    BY <1>2, <1>3 DEF IndInv

\* abort_transfer() may find the session Idle: then there is nothing to abort,
\* and nobody can begin one before the sink is reset.
LEMMA AbortCheckStep ==
    ASSUME IndInv, AbortCheck, Frame
    PROVE  IndInv'
  <1>1. push' \in PushType /\ sink' \in SinkType
    BY ClosedType DEF IndInv, TypeOK, AbortCheck
  <1>2. TypeOK'
    BY <1>1 DEF IndInv, TypeOK, AbortCheck, Frame
  <1>3. Consistent'
    BY DEF IndInv, TypeOK, AbortCheck, SinkOwnsSession, PushClosed, SinkReset, Phases,
           Frame,
           Consistent, BackendFollowsPhase, SinkFollowsSession, PushMatchesSink,
           TransferProgress, BootChoice, AlwaysBootable, Intact, Other, Update
  <1> QED
    BY <1>2, <1>3 DEF IndInv

\* The second section of abort_transfer() clears session, transfer and sink.
LEMMA AbortCallStep ==
    ASSUME IndInv, AbortCall, Frame
    PROVE  IndInv'
  <1>1. push' \in PushType /\ sink' \in SinkType
    BY ClosedType DEF AbortCall
  <1>2. TypeOK'
    BY <1>1, ResetType DEF IndInv, TypeOK, AbortCall, Aborted, Errors, Frame
  <1>3. Consistent'
    BY DEF IndInv, TypeOK, AbortCall, Aborted, Reset, SessionCleared, BackendAborted,
           PushClosed, SinkReset, Frame,
           Consistent, BackendFollowsPhase, SinkFollowsSession, PushMatchesSink,
           TransferProgress, BootChoice, AlwaysBootable, Intact, Other, Update
  <1> QED
    BY <1>2, <1>3 DEF IndInv

\* ota_abort resets the session first; after an accepted update the sink keeps
\* its stage Completed, which is what keeps the chosen partition from being
\* erased by another update.
LEMMA OtaAbortStep ==
    ASSUME IndInv, OtaAbort, Frame
    PROVE  IndInv'
  <1>1. TypeOK'
    BY ResetType DEF IndInv, TypeOK, OtaAbort, Aborted, Errors, Frame
  <1>2. Consistent'
    BY DEF IndInv, TypeOK, OtaAbort, Aborted, Reset, SessionCleared, BackendAborted, Frame,
           Consistent, BackendFollowsPhase, SinkFollowsSession, PushMatchesSink,
           TransferProgress, BootChoice, AlwaysBootable, Intact, Other, Update
  <1> QED
    BY <1>1, <1>2 DEF IndInv

\* A disconnect clears the session; the open transfer keeps its own counters.
LEMMA DisconnectStep ==
    ASSUME IndInv, Disconnect, Frame
    PROVE  IndInv'
  <1>1. TypeOK'
    BY ResetType DEF IndInv, TypeOK, Disconnect, LinkLost, Errors, Frame
  <1>2. Consistent'
    BY DEF IndInv, TypeOK, Disconnect, LinkLost, Reset, SessionCleared, BackendAborted, Timed, Frame,
           Consistent, BackendFollowsPhase, SinkFollowsSession, PushMatchesSink,
           TransferProgress, BootChoice, AlwaysBootable, Intact, Other, Update
  <1> QED
    BY <1>1, <1>2 DEF IndInv

\* Every step of the BLE task preserves the invariant.
LEMMA BleStep ==
    ASSUME IndInv, Ble
    PROVE  IndInv'
  <1>1. Frame
    BY DEF Ble, Frame
  <1>2. CASE Command
    BY <1>1, <1>2, CharBeginStep, BeginManifestStep, BeginFirmwareStep, FailStep,
       ManifestChunkStep, FirmwareChunkLostStep, FirmwareChunkStep, AcceptManifestStep,
       RefuseManifestStep, EndFirmwareStep, CharEndRefusedStep, CharEndStartedStep,
       OtaAbortStep, DisconnectStep
       DEF Command, FileRefused, ChunkRefused, EndFileShort, CharEndShort
  <1>3. CASE Handler
    BY <1>1, <1>3, FinishStep, CharEndAcceptedStep, CharEndFailedStep, AbortCheckStep,
       AbortCallStep DEF Handler
  <1> QED
    BY <1>2, <1>3 DEF Ble

-----------------------------------------------------------------------------
(* Starts, the main loop, and the surroundings.                            *)

\* Whenever power returns, the partition that runs is whole: the one chosen,
\* or the one to fall back to.
LEMMA StartStep ==
    ASSUME IndInv, Start
    PROVE  IndInv'
  <1>1. running' \in Slots /\ boot' \in Slots /\ bootState' \in {"valid", "new", "pending"}
    BY DEF IndInv, TypeOK, Start, Slots, Other
  <1>2. push' \in PushType /\ sink' \in SinkType
    BY ClosedType DEF Start
  <1>3. failureCount' \in 0 .. CountModulus - 1 /\ size' \in 0 .. Capacity
    BY DEF Start
  <1>4. lag' \in 0 .. MaxLag /\ startupAge' \in 0 .. StartupDeadline
    BY DEF Start
  <1>5. slots' \in [Slots -> Contents]
    BY DEF IndInv, TypeOK, Start
  <1>6. TypeOK'
    BY <1>1, <1>2, <1>3, <1>4, <1>5 DEF Start, TypeOK, Phases, Errors, LoopSteps
  <1>7. Consistent'
    BY DEF IndInv, TypeOK, Start, PushClosed, SinkReset, Slots,
           Consistent, BackendFollowsPhase, SinkFollowsSession, PushMatchesSink,
           TransferProgress, BootChoice, AlwaysBootable, Intact, Other, Update
  <1> QED
    BY <1>6, <1>7 DEF IndInv

\* A step of the main loop that leaves session and flash alone.
LEMMA ViewStep ==
    ASSUME IndInv, OtaSame, UNCHANGED <<ble, transferVars>>, TypeOK'
    PROVE  IndInv'
  BY DEF IndInv, TypeOK,
           Consistent, BackendFollowsPhase, SinkFollowsSession, PushMatchesSink,
           TransferProgress, BootChoice, AlwaysBootable, Intact, Other, Update

\* A session reset by the main loop, in a phase the BLE task has not taken over.
LEMMA LoopResetStep ==
    ASSUME IndInv, UNCHANGED <<ble, transferVars, bootVars>>,
           NEW e \in Errors, phase \in {"Confirming", "Receiving"}, Reset(e),
           powerOk' \in BOOLEAN, loop' \in LoopSteps, UNCHANGED <<lag, view, rebootArmed, rebootAge>>
    PROVE  IndInv'
  <1>1. TypeOK'
    BY ResetType DEF IndInv, TypeOK
  <1>2. Consistent'
    BY DEF IndInv, TypeOK, Reset, SessionCleared, BackendAborted,
           Consistent, BackendFollowsPhase, SinkFollowsSession, PushMatchesSink,
           TransferProgress, BootChoice, AlwaysBootable, Intact, Other, Update
  <1> QED
    BY <1>1, <1>2 DEF IndInv

\* tick() clears an expired session and touches nothing else.
LEMMA LoopTickStep ==
    ASSUME IndInv, LoopTick, UNCHANGED <<ble, transferVars, bootVars>>
    PROVE  IndInv'
  <1>1. loop' \in LoopSteps
    BY DEF LoopTick, LoopAt, LoopSteps
  <1>2. CASE OtaSame
    <2>1. TypeOK'
      BY <1>1, <1>2 DEF IndInv, TypeOK, LoopTick
    <2> QED
      BY <1>2, <2>1, ViewStep
  <1>3. CASE TickExpired(lag)
    BY <1>1, <1>3, LoopResetStep
       DEF TickExpired, Expired, Timed, Errors, LoopTick, IndInv, TypeOK
  <1> QED
    BY <1>2, <1>3 DEF LoopTick

\* A confirmation opens the flash for an offer; the running image is the one
\* the next start would run, so the partition erased is not needed.
LEMMA LoopConfirmStep ==
    ASSUME IndInv, LoopConfirm, UNCHANGED <<ble, transferVars, bootVars>>
    PROVE  IndInv'
  <1>1. loop' \in LoopSteps
    BY DEF LoopConfirm, LoopAt, LoopSteps
  <1>2. CASE OtaSame
    <2>1. TypeOK'
      BY <1>1, <1>2 DEF IndInv, TypeOK, LoopConfirm
    <2> QED
      BY <1>2, <2>1, ViewStep
  <1>3. CASE ConfirmLowPower
    BY <1>1, <1>3, LoopResetStep DEF ConfirmLowPower, Errors, LoopConfirm, IndInv, TypeOK
  <1>4. CASE Confirmed(lag)
    <2>1. slots' \in [Slots -> Contents]
      BY <1>4 DEF IndInv, TypeOK, Confirmed, BackendBegun, EraseUpdate, Contents
    <2>2. TypeOK'
      BY <1>1, <1>4, <2>1 DEF IndInv, TypeOK, LoopConfirm, Confirmed, BackendBegun, Phases
    <2>3. Consistent'
      BY <1>4 DEF IndInv, TypeOK, LoopConfirm, Confirmed, BackendBegun, EraseUpdate, Slots,
           Consistent, BackendFollowsPhase, SinkFollowsSession, PushMatchesSink,
           TransferProgress, BootChoice, AlwaysBootable, Intact, Other, Update
    <2> QED
      BY <2>2, <2>3 DEF IndInv
  <1>5. CASE ConfirmStorageFailed
    <2>1. slots' \in [Slots -> Contents]
      BY <1>5 DEF IndInv, TypeOK, ConfirmStorageFailed, BackendBeginFailed, EraseUpdate, Contents
    <2>2. TypeOK'
      BY <1>1, <1>5, <2>1, ClearedType
         DEF IndInv, TypeOK, LoopConfirm, ConfirmStorageFailed, BackendBeginFailed, Errors
    <2>3. Consistent'
      BY <1>5 DEF IndInv, TypeOK, LoopConfirm, ConfirmStorageFailed, BackendBeginFailed,
             SessionCleared, EraseUpdate, Slots,
           Consistent, BackendFollowsPhase, SinkFollowsSession, PushMatchesSink,
           TransferProgress, BootChoice, AlwaysBootable, Intact, Other, Update
    <2> QED
      BY <2>2, <2>3 DEF IndInv
  <1> QED
    BY <1>2, <1>3, <1>4, <1>5 DEF LoopConfirm

\* deny() clears a session that is still confirming.
LEMMA LoopDenyStep ==
    ASSUME IndInv, LoopDeny, UNCHANGED <<ble, transferVars, bootVars>>
    PROVE  IndInv'
  <1>1. loop' \in LoopSteps
    BY DEF LoopDeny, LoopAt, LoopSteps
  <1>2. CASE OtaSame
    <2>1. TypeOK'
      BY <1>1, <1>2 DEF IndInv, TypeOK, LoopDeny
    <2> QED
      BY <1>2, <2>1, ViewStep
  <1>3. CASE Denied
    BY <1>1, <1>3, LoopResetStep DEF Denied, Errors, LoopDeny, IndInv, TypeOK
  <1> QED
    BY <1>2, <1>3 DEF LoopDeny

\* The start-up check confirms a started image; no update can be under way
\* while the running image is on trial.
LEMMA LoopVerifyStep ==
    ASSUME IndInv, LoopVerify, UNCHANGED <<ble, transferVars>>
    PROVE  IndInv'
  <1>1. bootState' \in {"valid", "new", "pending"} /\ loop' \in LoopSteps
    BY DEF IndInv, TypeOK, LoopVerify, LoopAt, LoopSteps
  <1>2. bootValid' \in BOOLEAN
    BY Zenon DEF IndInv, TypeOK, LoopVerify
  <1>3. TypeOK'
    BY <1>1, <1>2 DEF IndInv, TypeOK, LoopVerify
  <1>4. Consistent'
    BY DEF IndInv, TypeOK, LoopVerify,
           Consistent, BackendFollowsPhase, SinkFollowsSession, PushMatchesSink,
           TransferProgress, BootChoice, AlwaysBootable, Intact, Other, Update
  <1> QED
    BY <1>3, <1>4 DEF IndInv

\* Every step of the main loop preserves the invariant.
LEMMA MainLoopStep ==
    ASSUME IndInv, MainLoop
    PROVE  IndInv'
  <1>1. CASE LoopStep /\ UNCHANGED <<ble, transferVars, bootVars>>
    <2>1. CASE LoopSample \/ LoopView \/ LoopNoClick \/ LoopReboot
      <3>1. OtaSame
        BY <2>1 DEF LoopSample, LoopView, LoopNoClick, LoopReboot
      <3>2. powerOk' \in BOOLEAN /\ loop' \in LoopSteps /\ lag' \in 0 .. MaxLag
        BY <2>1 DEF IndInv, TypeOK, LoopSample, LoopView, LoopNoClick, LoopReboot, LoopAt, LoopSteps
      <3>3. view' \in Phases /\ rebootAge' \in Nat
        BY <2>1 DEF IndInv, TypeOK, LoopSample, LoopView, LoopNoClick, LoopReboot
      <3>4. rebootArmed' \in BOOLEAN
        BY <2>1, Zenon DEF IndInv, TypeOK, LoopSample, LoopView, LoopNoClick, LoopReboot
      <3>5. TypeOK'
        BY <1>1, <3>1, <3>2, <3>3, <3>4 DEF IndInv, TypeOK
      <3> QED
        BY <1>1, <3>1, <3>5, ViewStep
    <2>2. CASE LoopTick \/ LoopConfirm \/ LoopDeny
      BY <1>1, <2>2, LoopTickStep, LoopConfirmStep, LoopDenyStep
    <2> QED
      BY <1>1, <2>1, <2>2 DEF LoopStep
  <1>2. CASE LoopVerify /\ UNCHANGED <<ble, transferVars>>
    BY <1>2, LoopVerifyStep
  <1>3. CASE LoopRestart \/ LoopVerifyFailed
    BY <1>3, StartStep DEF LoopRestart, LoopVerifyFailed
  <1> QED
    BY <1>1, <1>2, <1>3 DEF MainLoop

\* Time stamps grow older, and nothing else changes.
LEMMA ClockStep ==
    ASSUME IndInv, Clock
    PROVE  IndInv'
  <1>1. age' \in Nat /\ rebootAge' \in Nat /\ startupAge' \in 0 .. StartupDeadline
    BY DEF IndInv, TypeOK, Clock, AgeOneUnit, Older
  <1>2. TypeOK'
    BY <1>1 DEF IndInv, TypeOK, Clock, AgeOneUnit
  <1>3. Consistent'
    BY DEF IndInv, TypeOK, Clock, AgeOneUnit,
           Consistent, BackendFollowsPhase, SinkFollowsSession, PushMatchesSink,
           TransferProgress, BootChoice, AlwaysBootable, Intact, Other, Update
  <1> QED
    BY <1>2, <1>3 DEF IndInv

\* BLE coming up changes nothing an update depends on.
LEMMA BleUpStep ==
    ASSUME IndInv, BleUp
    PROVE  IndInv'
  <1>1. TypeOK'
    BY DEF IndInv, TypeOK, BleUp
  <1>2. Consistent'
    BY DEF IndInv, BleUp,
           Consistent, BackendFollowsPhase, SinkFollowsSession, PushMatchesSink,
           TransferProgress, BootChoice, AlwaysBootable, Intact, Other, Update
  <1> QED
    BY <1>1, <1>2 DEF IndInv

-----------------------------------------------------------------------------
(* The invariants.                                                         *)

\* The factory image is in place and everything is at rest.
LEMMA InitInvariant == Init => IndInv
  <1> SUFFICES ASSUME Init PROVE IndInv
    OBVIOUS
  <1>1. slots \in [Slots -> Contents]
    BY DEF Init, Contents, Slots
  <1>2. running \in Slots /\ boot \in Slots
    BY DEF Init, Slots
  <1>3. failureCount \in 0 .. CountModulus - 1 /\ size \in 0 .. Capacity
    BY DEF Init
  <1>4. lag \in 0 .. MaxLag /\ startupAge \in 0 .. StartupDeadline
    BY DEF Init
  <1>5. push \in PushType /\ sink \in SinkType
    BY ClosedType DEF Init
  <1>6. TypeOK
    BY <1>1, <1>2, <1>3, <1>4, <1>5 DEF Init, TypeOK, Phases, Errors, LoopSteps
  <1>7. Consistent
    BY DEF Init, PushClosed, SinkReset, Slots,
           Consistent, BackendFollowsPhase, SinkFollowsSession, PushMatchesSink,
           TransferProgress, BootChoice, AlwaysBootable, Intact, Other, Update
  <1> QED
    BY <1>6, <1>7 DEF IndInv

\* One step of the device, or none, preserves the invariant.
LEMMA NextInvariant == IndInv /\ [Next]_vars => IndInv'
  <1> SUFFICES ASSUME IndInv, [Next]_vars PROVE IndInv'
    OBVIOUS
  <1>1. CASE Next
    BY <1>1, BleStep, MainLoopStep, ClockStep, BleUpStep, StartStep DEF Next, PowerLoss
  <1>2. CASE UNCHANGED vars
    <2>1. TypeOK'
      BY <1>2 DEF IndInv, TypeOK, vars
    <2> QED
      BY <1>2, <2>1, ViewStep DEF vars
  <1> QED
    BY <1>1, <1>2

\* Session, flash, sink and protocol layer stay consistent in every behaviour
\* of the device: all other invariants are parts or consequences of this one.
THEOREM InductiveInvariant == Spec => []IndInv
  BY InitInvariant, NextInvariant, PTL DEF Spec

\* Every variable keeps its type: failure_count wraps, and size never exceeds
\* the partition.
THEOREM TypeCorrect == Spec => []TypeOK
  BY InductiveInvariant, PTL DEF IndInv

\* Whenever power fails, what the bootloader starts next is a complete image of
\* this project, and so is the image a rollback would return to.
THEOREM Bootable == Spec => []AlwaysBootable
  BY InductiveInvariant, PTL DEF IndInv, Consistent

\* The flash handle is open exactly in Receiving and inside end(), although
\* end() verifies the image without the mutex.
THEOREM BackendConsistent == Spec => []BackendFollowsPhase
  BY InductiveInvariant, PTL DEF IndInv, Consistent

\* The sink's counters are the session's.
THEOREM SinkConsistent == Spec => []SinkFollowsSession
  BY InductiveInvariant, PTL DEF IndInv, Consistent

\* The protocol layer's counters are the sink's.
THEOREM PushConsistent == Spec => []PushMatchesSink
  BY InductiveInvariant, PTL DEF IndInv, Consistent

\* At rest and with no update waiting for the restart, the sink is open for the
\* next transfer.
THEOREM Reusable == Spec => []ReadyAgain
  <1>1. IndInv => ReadyAgain
    BY DEF IndInv, Consistent, ReadyAgain, PushMatchesSink, BootChoice, BleIdle
  <1> QED
    BY <1>1, InductiveInvariant, PTL

\* The sink passes its own count to OtaSession::write(), and the session's
\* offset is that count: the sequence check never fails.
LEMMA NoSequenceGapStep == NoSequenceGap /\ IndInv /\ [Next]_vars => NoSequenceGap'
  <1> SUFFICES ASSUME NoSequenceGap, IndInv, [Next]_vars PROVE error' # "SeqGap"
    BY DEF NoSequenceGap
  <1>1. CASE Ble
    <2>1. CASE \E len \in ChunkLens : FirmwareChunkLost(len)
      <3>1. PICK len \in ChunkLens : FirmwareChunkLost(len)
        BY <2>1
      <3>2. ~WriteGap(sink.firmware_written, len)
        BY <3>1 DEF FirmwareChunkLost, FirmwareFits, WriteGap, InOrder, IndInv, Consistent,
               SinkFollowsSession
      <3> QED
        BY <3>1, <3>2 DEF FirmwareChunkLost, WriteFailed, Reset, SessionCleared
    <2>2. CASE Command /\ ~\E len \in ChunkLens : FirmwareChunkLost(len)
      BY <2>2 DEF NoSequenceGap, Command, CharBegin, BeginManifest, BeginFirmware, FileRefused,
             ManifestChunk, ChunkRefused, FirmwareChunk, Written, AcceptManifest,
             BeginAccepted, RefuseManifest, BeginRefused, OfferError, RejectIdentity,
             EndFirmware, EndFileShort, CharEndShort, CharEndRefused, EndShort,
             CharEndStarted, EndStarted, OtaAbort, Aborted, Disconnect, LinkLost, Reset,
             SessionCleared
    <2>3. CASE Handler
      BY <2>3 DEF NoSequenceGap, Handler, Finish, FinishAccepted, FinishRefused, CharEndAccepted,
             EndAccepted, CharEndFailed, EndRefused, AbortCheck, AbortCall, Aborted, Reset,
             SessionCleared
    <2> QED
      BY <1>1, <2>1, <2>2, <2>3 DEF Ble
  <1>2. CASE MainLoop
    BY <1>2 DEF NoSequenceGap, MainLoop, LoopStep, LoopSample, LoopTick, TickExpired, LoopView,
           LoopNoClick, LoopConfirm, Confirmed, ConfirmLowPower, ConfirmStorageFailed,
           LoopDeny, Denied, LoopReboot, LoopVerify, LoopRestart, LoopVerifyFailed, Start,
           Reset, SessionCleared
  <1>3. CASE Clock \/ BleUp \/ PowerLoss \/ UNCHANGED vars
    BY <1>3 DEF NoSequenceGap, Clock, AgeOneUnit, BleUp, PowerLoss, Start, vars
  <1> QED
    BY <1>1, <1>2, <1>3 DEF Next

\* OtaSession::write()'s sequence check never fails behind the Folder Push sink.
THEOREM NoGap == Spec => []NoSequenceGap
  <1>1. Init => NoSequenceGap
    BY DEF Init, NoSequenceGap
  <1> QED
    BY <1>1, NoSequenceGapStep, InductiveInvariant, PTL DEF Spec

\* tick() compares with a sample that may be older than the time stamp; since
\* it looks at the sign, staleness delays a timeout and never hastens it.
THEOREM Patient == Spec => NoEarlyTimeout
  <1> DEFINE Step == loop = "tick" /\ loop' = "view" /\ phase' # phase => age >= Timeout(phase)
  <1>1. IndInv /\ [Next]_vars => [Step]_vars
    <2> SUFFICES ASSUME IndInv, Next, loop = "tick", loop' = "view", phase' # phase
                 PROVE  age >= Timeout(phase)
      OBVIOUS
    <2>1. LoopTick
      BY DEF Next, Ble, MainLoop, LoopStep, LoopSample, LoopView, LoopNoClick, LoopConfirm,
             LoopDeny, LoopReboot, LoopAt, LoopVerify, LoopRestart, LoopVerifyFailed, Clock,
             BleUp, PowerLoss, Start
    <2>2. age - lag >= Timeout(phase) /\ lag \in Nat /\ age \in Nat
      BY <2>1 DEF LoopTick, TickExpired, Expired, IndInv, TypeOK
    <2>3. Timeout(phase) \in Nat
      BY DEF Timeout
    <2> QED
      BY <2>2, <2>3
  <1> QED
    BY <1>1, InductiveInvariant, PTL DEF Spec, NoEarlyTimeout

-----------------------------------------------------------------------------
(* The device implements OtaPromise: each step is one of its steps, or none. *)

USE DEF Promise!promiseVars

\* The flash writes of an update touch only the partition that is not the one
\* the next start runs, and not the one to fall back to.
SameStart == UNCHANGED <<slots[boot].image, boot, bootState>> /\
             (bootState # "valid" => UNCHANGED slots[Other(boot)].image)

\* A reset session withdraws its offer.
LEMMA ResetWithdraws ==
    ASSUME IndInv, SameStart, phase' \in {"Idle", "Rebooting"}
    PROVE  Promise!Withdraw
  BY DEF SameStart, Promise!Withdraw

\* A step that moves neither the phase nor the choice of the next image.
LEMMA QuietStep ==
    ASSUME IndInv, SameStart, UNCHANGED <<phase, expected>>
    PROVE  UNCHANGED Promise!promiseVars
  BY DEF SameStart

\* Accepting a manifest is OtaPromise's Offer.
LEMMA AcceptOffers ==
    ASSUME IndInv, NEW m \in Manifests, AcceptManifest(m)
    PROVE  Promise!Offer
  BY DEF AcceptManifest, BeginAccepted, PromiseOf, Promise!Offer

\* EspOtaBackend::finish() accepting the image is OtaPromise's Install.
LEMMA FinishInstalls ==
    ASSUME IndInv, FinishAccepted
    PROVE  Promise!Install
  BY DEF FinishAccepted, Genuine, Update, Other, Slots, Promise!Install, IndInv, TypeOK,
         Consistent, BackendFollowsPhase, BootChoice

\* A button press that opens the flash is OtaPromise's Grant.
LEMMA ConfirmGrants ==
    ASSUME IndInv, IndInv', LoopConfirm, Confirmed(lag)
    PROVE  Promise!Grant
  <1>1. bootState = "valid" /\ boot = running /\ boot \in Slots
    BY DEF IndInv, TypeOK, Consistent, BootChoice, Confirmed, BackendBegun
  <1>2. slots'[boot] = slots[boot]
    BY <1>1 DEF Confirmed, BackendBegun, EraseUpdate, Update, Other, Slots, IndInv, TypeOK
  <1>3. expected.sha \in Images
    BY DEF IndInv, TypeOK, Consistent, TransferProgress, Confirmed, Promises
  <1> QED
    BY <1>1, <1>2, <1>3 DEF Confirmed, BackendBegun, Promise!Grant

\* Every start of the device is OtaPromise's Start.
LEMMA StartStarts ==
    ASSUME IndInv, Start
    PROVE  Promise!Start
  BY DEF Start, Promise!Start, IndInv, TypeOK, Other, Slots

\* verify_boot() confirming the application is OtaPromise's Prove, or no change.
LEMMA VerifyProves ==
    ASSUME IndInv, LoopVerify
    PROVE  Promise!Prove \/ UNCHANGED Promise!promiseVars
  <1>1. CASE UNCHANGED bootState
    BY <1>1 DEF LoopVerify
  <1>2. CASE bootState = "pending" /\ bootState' = "valid"
    BY <1>2 DEF LoopVerify, Promise!Prove
  <1> QED
    BY <1>1, <1>2 DEF LoopVerify

\* Every step of the BLE task maps to a step of OtaPromise or to none.
LEMMA BlePromise ==
    ASSUME IndInv, IndInv', Ble
    PROVE  [Promise!PromiseNext]_(Promise!promiseVars)
  <1>1. CASE \E m \in Manifests : AcceptManifest(m)
    BY <1>1, AcceptOffers DEF Promise!PromiseNext
  <1>2. CASE \E from \in Sources, len \in ChunkLens : FirmwareChunk(from, len)
    <2>1. boot = running /\ bootState = "valid"
      BY <1>2 DEF IndInv, TypeOK, Consistent, BootChoice, FirmwareChunk, Written
    <2>2. slots'[boot] = slots[boot] /\ UNCHANGED <<boot, bootState, phase, expected>>
      BY <1>2, <2>1 DEF FirmwareChunk, Written, BackendWritten, Update, Other, Slots, IndInv, TypeOK
    <2> QED
      BY <2>1, <2>2, QuietStep DEF SameStart
  <1>3. CASE FinishAccepted
    BY <1>3, FinishInstalls DEF Promise!PromiseNext
  <1>4. CASE CharEndAccepted
    <2>1. SameStart /\ phase' = "Rebooting"
      BY <1>4 DEF CharEndAccepted, EndAccepted, SameStart
    <2> QED
      BY <2>1, ResetWithdraws DEF Promise!PromiseNext
  <1>5. CASE CharEndStarted
    <2>1. SameStart /\ phase = "Receiving" /\ phase' = "Verifying" /\ UNCHANGED expected
      BY <1>5 DEF CharEndStarted, EndStarted, SameStart
    <2> QED
      BY <2>1 DEF SameStart
  <1>6. ASSUME NEW e, Reset(e) \/ (SessionCleared(e) /\ UNCHANGED storageVars)
        PROVE  Promise!Withdraw
    BY <1>6, ResetWithdraws DEF Reset, BackendAborted, SessionCleared, SameStart
  <1>7. CASE OtaSame
    <2>1. SameStart /\ UNCHANGED <<phase, expected>>
      BY <1>7 DEF SameStart
    <2> QED
      BY <2>1, QuietStep
  <1>8. CASE FinishRefused
    <2>1. SameStart /\ UNCHANGED <<phase, expected>>
      BY <1>8 DEF FinishRefused, SameStart
    <2> QED
      BY <2>1, QuietStep
  <1>9. CASE CharEndFailed \/ AbortCall \/ AbortCheck
    BY <1>6, <1>7, <1>9 DEF CharEndFailed, EndRefused, AbortCall, Aborted, AbortCheck,
       Promise!PromiseNext
  <1>10. CASE Command /\ ~(\E m \in Manifests : AcceptManifest(m))
                      /\ ~(\E from \in Sources, len \in ChunkLens : FirmwareChunk(from, len))
                      /\ ~CharEndStarted
    <2>1. OtaSame \/ \E e \in Errors : Reset(e)
      BY <1>10, ZenonT(40) DEF Command, CharBegin, BeginManifest, BeginFirmware, FileRefused, ManifestChunk,
         FirmwareChunkLost, WriteFailed, WriteGap, ChunkRefused, RefuseManifest,
         BeginRefused, OfferError, RejectIdentity, EndFirmware, EndFileShort, CharEndShort,
         CharEndRefused, EndShort, OtaAbort, Aborted, Disconnect, LinkLost, Errors
    <2> QED
      BY <1>6, <1>7, <2>1 DEF Promise!PromiseNext
  <1> QED
    BY <1>1, <1>2, <1>3, <1>4, <1>5, <1>8, <1>9, <1>10 DEF Ble, Handler, Finish

\* Every step of the main loop maps to a step of OtaPromise or to none.
LEMMA MainLoopPromise ==
    ASSUME IndInv, IndInv', MainLoop
    PROVE  [Promise!PromiseNext]_(Promise!promiseVars)
  <1>1. CASE OtaSame
    <2>1. SameStart /\ UNCHANGED <<phase, expected>>
      BY <1>1 DEF SameStart
    <2> QED
      BY <2>1, QuietStep
  <1>2. ASSUME NEW e, Reset(e)
        PROVE  Promise!Withdraw
    BY <1>2, ResetWithdraws DEF Reset, BackendAborted, SessionCleared, SameStart
  <1>3. CASE LoopConfirm /\ Confirmed(lag)
    BY <1>3, ConfirmGrants DEF Promise!PromiseNext
  <1>4. CASE ConfirmStorageFailed
    <2>1. phase' = "Idle" /\ UNCHANGED <<boot, bootState>>
      BY <1>4 DEF ConfirmStorageFailed, BackendBeginFailed, SessionCleared
    <2>2. CASE UNCHANGED slots
      BY <2>1, <2>2, ResetWithdraws DEF SameStart, Promise!PromiseNext
    <2>3. CASE bootState # "pending" /\ EraseUpdate
      <3>1. bootState = "valid" /\ boot = running /\ boot \in Slots
        BY <1>4, <2>3 DEF ConfirmStorageFailed, IndInv, TypeOK, Consistent, BootChoice,
           BackendFollowsPhase, SinkFollowsSession
      <3>2. slots'[boot] = slots[boot]
        BY <2>3, <3>1 DEF EraseUpdate, Update, Other, Slots, IndInv, TypeOK
      <3> QED
        BY <2>1, <3>1, <3>2, ResetWithdraws DEF SameStart, Promise!PromiseNext
    <2> QED
      BY <1>4, <2>2, <2>3 DEF ConfirmStorageFailed, BackendBeginFailed
  <1>5. CASE LoopVerify
    BY <1>5, VerifyProves DEF Promise!PromiseNext
  <1>6. CASE LoopRestart \/ LoopVerifyFailed
    BY <1>6, StartStarts DEF LoopRestart, LoopVerifyFailed, Promise!PromiseNext
  <1>7. CASE LoopStep /\ ~(LoopConfirm /\ Confirmed(lag)) /\ ~ConfirmStorageFailed
    <2>1. OtaSame \/ \E e \in Errors : Reset(e)
      BY <1>7 DEF LoopStep, LoopSample, LoopTick, TickExpired, LoopView, LoopNoClick, LoopConfirm,
         ConfirmLowPower, LoopDeny, Denied, LoopReboot, Errors
    <2> QED
      BY <1>1, <1>2, <2>1 DEF Promise!PromiseNext
  <1> QED
    BY <1>3, <1>4, <1>5, <1>6, <1>7 DEF MainLoop

\* The device implements OtaPromise: the image of the next start changes only to
\* one that was offered, granted on the device and compared with the offer, and
\* a start that does not prove itself is undone.
THEOREM PromiseHolds == Spec => PromiseKept
  <1>1. Init => Promise!PromiseInit
    BY DEF Init, Promise!PromiseInit, Slots
  <1>2. IndInv /\ IndInv' /\ [Next]_vars => [Promise!PromiseNext]_(Promise!promiseVars)
    <2> SUFFICES ASSUME IndInv, IndInv', [Next]_vars
                 PROVE  [Promise!PromiseNext]_(Promise!promiseVars)
      OBVIOUS
    <2>1. CASE Clock \/ BleUp \/ UNCHANGED vars
      <3>1. SameStart /\ UNCHANGED <<phase, expected>>
        BY <2>1 DEF Clock, AgeOneUnit, BleUp, vars, SameStart
      <3> QED
        BY <3>1, QuietStep
    <2>2. CASE PowerLoss
      BY <2>2, StartStarts DEF PowerLoss, Promise!PromiseNext
    <2> QED
      BY <2>1, <2>2, BlePromise, MainLoopPromise DEF Next
  <1> QED
    BY <1>1, <1>2, InductiveInvariant, PTL DEF Spec, PromiseKept, Promise!PromiseSpec

HIDE SessionAssumption
HIDE FolderPushAssumption
HIDE DeviceAssumption
HIDE DEF BleIdle, BleDone, OtaSame, Fail, InFile, FileReady, FileComplete,
         sessionVars, storageVars, transferVars, otaVars, loopVars, bootVars

(***************************************************************************)
(* The command path: its properties hold for every set of lines, every     *)
(* length of a line and every depth of the queue.                          *)
(*                                                                         *)
(* PathInv says what the buffer holds of the line that arrives (Framed),   *)
(* which lines have been answered (Answered), and what the queue says of   *)
(* the link (Latest, Told).                                                *)
(***************************************************************************)
CONSTANTS Lines, LineMax, Depth, Enabled, MaxSends, MaxChanges
VARIABLES sent, pos, buf, dropping, acks, queue, handled, link, shown, busy, changes, torn, missed

Path == INSTANCE CommandPath

States == {"down", "pairing", "secure"}
PathErrors == {"none", "queue_full", "invalid_request", "unsupported", "ota_busy"}
Acks == [line : Nat, ok : BOOLEAN, error : PathErrors]
Events == [type : {"command"}, line : Nat] \cup [type : {"link"}, state : States]
Taken == [line : Nat, during : States]
Buffers == [len : 0..LineMax + 1, of : SUBSET Nat, cr : BOOLEAN]

Typed ==
    /\ sent \in Seq(Lines) /\ Len(sent) <= MaxSends /\ torn \in SUBSET (1..Len(sent))
    /\ pos \in Nat /\ buf \in Buffers /\ dropping \in BOOLEAN
    /\ acks \in Seq(Acks) /\ queue \in Seq(Events) /\ Len(queue) <= Depth
    /\ handled \in Seq(Taken)
    /\ link \in States /\ shown \in States /\ busy \in BOOLEAN
    /\ changes \in 0..MaxChanges /\ missed \in 0..2

\* A line arrives only over a link that is secure, and not beyond its end.
\* What is in the buffer is from lines that were sent.
Arriving ==
    /\ Path!Current > 0 => pos <= Path!Length(sent[Path!Current])
    /\ ~Path!Idle => link = "secure"
    /\ buf.of \subseteq DOMAIN sent /\ (buf.len = 0 <=> buf.of = {}) /\ (buf.len = 0 => ~buf.cr)

\* The buffer holds the line that arrives, as far as it has arrived, or the line
\* is too long and is dropped.  Of a line that was cut off something is left,
\* so that what follows it is no line, or nothing is.
Framed ==
    /\ Path!Idle /\ Path!Current \notin torn => buf = Path!Empty /\ ~dropping
    /\ ~Path!Idle /\ Path!Current \notin torn =>
          IF dropping THEN pos > LineMax /\ sent[Path!Current].size > LineMax
          ELSE /\ buf.len = pos /\ buf.cr = (pos > sent[Path!Current].size)
               /\ buf.of = (IF pos = 0 THEN {} ELSE {Path!Current})
    /\ ~Path!Idle /\ Path!Current \in torn /\ ~dropping =>
          (\E n \in buf.of : n # Path!Current) /\ (pos > 0 => Path!Current \in buf.of)
    /\ Path!Current \notin torn /\ ~Path!Idle /\ ~dropping /\ pos > LineMax =>
          sent[Path!Current].size = LineMax /\ sent[Path!Current].cr

\* An answer is one to a line that has arrived.
Answered ==
    /\ \A i \in DOMAIN acks : acks[i].line \in Path!Arrived
    /\ Path!WholeLinesAreAnswered

Links == {i \in DOMAIN queue : queue[i].type = "link"}

\* The last change of the link is in the queue, or shown, unless it was lost.
Latest ==
    missed # 2 =>
        \/ Links = {} /\ shown = link
        \/ \E i \in Links : queue[i].state = link /\ \A j \in Links : j <= i

\* A command in the queue comes after the change that made the link secure.
Told ==
    missed = 0 =>
        \A i \in Path!Queued :
            \/ shown = "secure" /\ \A j \in Links : i < j
            \/ \E k \in Links : /\ k < i /\ queue[k].state = "secure"
                                /\ \A j \in Links : j <= k \/ i < j

PathInv == Typed /\ Arriving /\ Framed /\ Answered /\ Path!AcceptedIsHandled /\ Latest /\ Told /\ Path!LinkIsShown

(***************************************************************************)
(* Lines and what becomes of one at its end.                               *)
(***************************************************************************)
LEMMA LineFacts ==
    ASSUME Path!ConstantsOK, NEW l \in Lines
    PROVE  /\ l.size \in Nat \ {0} /\ l.cr \in BOOLEAN /\ l.kind \in Path!Kinds
           /\ Path!Length(l) \in Nat /\ Path!Length(l) >= 2 /\ Path!Length(l) = l.size + (IF l.cr THEN 2 ELSE 1)
  BY DEF Path!ConstantsOK, Path!Line, Path!Length

LEMMA CurrentLine ==
    ASSUME Path!ConstantsOK, Typed, ~Path!Idle
    PROVE  /\ Path!Current \in Nat \ {0} /\ Path!Current \in DOMAIN sent /\ sent[Path!Current] \in Lines
           /\ pos # Path!Length(sent[Path!Current])
  BY DEF Typed, Path!Idle, Path!Current

\* A line of which every byte arrived is answered, if it fits and is JSON.
LEMMA EndOfLine ==
    ASSUME Path!ConstantsOK, PathInv, ~Path!Idle, ~dropping, pos + 1 = Path!Length(sent[Path!Current])
    PROVE  /\ Path!Parses(buf) <=> Path!Current \notin torn /\ sent[Path!Current].defect # "json"
           /\ Path!Parses(buf) => buf.of = {Path!Current}
           /\ Path!Current \notin torn => sent[Path!Current].size <= LineMax
           /\ Path!Current \in torn \/ buf.len # (IF buf.cr THEN 1 ELSE 0)
  <1> DEFINE l == sent[Path!Current]
  <1>1. /\ Path!Current \in Nat \ {0} /\ Path!Current \in DOMAIN sent /\ l \in Lines
        /\ LineMax \in Nat \ {0}
    BY CurrentLine DEF PathInv, Path!ConstantsOK
  <1>2. /\ l.size \in Nat \ {0} /\ l.cr \in BOOLEAN /\ pos \in Nat
        /\ pos = l.size + (IF l.cr THEN 1 ELSE 0) /\ pos > 0
    <2>1. /\ l.size \in Nat \ {0} /\ l.cr \in BOOLEAN /\ pos \in Nat
          /\ pos + 1 = l.size + (IF l.cr THEN 2 ELSE 1)
      BY <1>1, LineFacts DEF PathInv, Typed
    <2> QED
      BY <2>1
  <1>3. CASE Path!Current \in torn
    <2>1. Path!Current \in buf.of /\ \E n \in buf.of : n # Path!Current
      BY <1>2, <1>3 DEF PathInv, Framed
    <2>2. ~Path!Parses(buf)
      BY <2>1 DEF Path!Parses
    <2> QED
      BY <1>3, <2>2
  <1>4. CASE Path!Current \notin torn
    <2>1. buf.len = pos /\ buf.cr = (pos > l.size) /\ buf.of = {Path!Current}
      BY <1>2, <1>4 DEF PathInv, Framed
    <2>2. buf.cr = l.cr /\ buf.len - (IF buf.cr THEN 1 ELSE 0) = l.size
      BY <1>2, <2>1
    <2>3. Path!Parses(buf) <=> l.defect # "json"
      BY <2>1, <2>2 DEF Path!Parses
    <2>4. l.size <= LineMax
      <3>1. CASE pos > LineMax
        BY <3>1, <1>1, <1>4 DEF PathInv, Framed
      <3>2. CASE ~(pos > LineMax)
        BY <3>2, <1>1, <1>2
      <3> QED
        BY <3>1, <3>2
    <2>5. buf.len # (IF buf.cr THEN 1 ELSE 0)
      BY <1>2, <2>2
    <2> QED
      BY <1>4, <2>1, <2>3, <2>4, <2>5
  <1> QED
    BY <1>3, <1>4

\* What a line does to the answers and to the queue when it ends.
Ended ==
    \/ UNCHANGED <<acks, queue>>
    \/ \E a \in Acks :
          /\ a.line = Path!Current /\ acks' = Append(acks, a)
          /\ IF a.ok /\ sent[Path!Current].kind # "status"
             THEN ~Path!Full /\ queue' = Append(queue, [type |-> "command", line |-> Path!Current])
             ELSE queue' = queue

\* A line is refused, or what it asks for is queued and it is accepted.
LEMMA RouteEnds ==
    ASSUME Path!ConstantsOK, Typed, ~Path!Idle, Path!Route(Path!Current)
    PROVE  Ended /\ acks' # acks
  <1> DEFINE l == sent[Path!Current]
             n == Path!Current
  <1>1. n \in Nat /\ l.kind \in Path!Kinds /\ acks \in Seq(Acks)
    BY CurrentLine, LineFacts DEF Typed
  <1>2. ASSUME NEW a \in Acks, acks' = Append(acks, a)
        PROVE  acks' # acks
    BY <1>1, <1>2
  <1>3. ASSUME NEW e \in PathErrors, Path!Refused(n, e)
        PROVE  Ended /\ acks' # acks
    <2>1. Path!Answer(n, FALSE, e) \in Acks /\ Path!Answer(n, FALSE, e).line = Path!Current /\ ~Path!Answer(n, FALSE, e).ok
      BY <1>1 DEF Path!Answer, Acks, PathErrors
    <2> QED
      BY <1>2, <1>3, <2>1 DEF Path!Refused, Ended
  <1>4. ASSUME l.kind # "status", Path!Sends(n)
        PROVE  Ended /\ acks' # acks
    <2>1. CASE Path!Full
      BY <1>3, <1>4, <2>1 DEF Path!Sends, PathErrors
    <2>2. CASE ~Path!Full
      <3>1. Path!Answer(n, TRUE, "none") \in Acks /\ Path!Answer(n, TRUE, "none").line = Path!Current /\ Path!Answer(n, TRUE, "none").ok
        BY <1>1 DEF Path!Answer, Acks, PathErrors
      <3> QED
        BY <1>2, <1>4, <2>2, <3>1 DEF Path!Sends, Ended
    <2> QED
      BY <2>1, <2>2
  <1>5. CASE l.kind = "usage"
    <2>1. Path!RouteUsage(n, Path!Valid(l))
      BY <1>5 DEF Path!Route
    <2> QED
      BY <2>1, <1>3, <1>4, <1>5 DEF Path!RouteUsage, PathErrors
  <1>6. CASE l.kind = "time_sync"
    <2>1. Path!RouteTimeSync(n, Path!Valid(l))
      BY <1>6 DEF Path!Route
    <2> QED
      BY <2>1, <1>3, <1>4, <1>6 DEF Path!RouteTimeSync, PathErrors
  <1>7. CASE l.kind \in {"screen_toggle", "screen_page"}
    <2>1. Path!RouteScreen(n, Path!Valid(l))
      BY <1>7 DEF Path!Route
    <2> QED
      BY <2>1, <1>3, <1>4, <1>7 DEF Path!RouteScreen, PathErrors
  <1>8. CASE l.kind = "status"
    <2>1. Path!Status(n)
      BY <1>8 DEF Path!Route
    <2>2. Path!Answer(n, TRUE, "none") \in Acks /\ Path!Answer(n, TRUE, "none").line = Path!Current
      BY <1>1 DEF Path!Answer, Acks, PathErrors
    <2> QED
      BY <2>1, <2>2, <1>2, <1>8 DEF Path!Status, Ended
  <1> QED
    BY <1>1, <1>5, <1>6, <1>7, <1>8 DEF Path!Kinds

LEMMA FeedEnds ==
    ASSUME Path!ConstantsOK, PathInv, Path!Feed
    PROVE  /\ Ended
           /\ pos' = Path!Length(sent[Path!Current]) =>
                 (acks' # acks <=> /\ Path!Current \notin torn /\ sent[Path!Current].defect # "json"
                                   /\ sent[Path!Current].size <= LineMax)
           /\ pos' # Path!Length(sent[Path!Current]) => UNCHANGED acks
  <1> DEFINE l == sent[Path!Current]
  <1> USE DEF PathInv
  <1>1. /\ ~Path!Idle /\ pos' = pos + 1 /\ Path!Current \in Nat \ {0} /\ l \in Lines
        /\ pos \in Nat /\ Path!Length(l) \in Nat /\ dropping \in BOOLEAN
    BY CurrentLine, LineFacts DEF Path!Feed, Typed
  <1>2. CASE pos' # Path!Length(l)
    BY <1>1, <1>2 DEF Path!Feed, Ended
  <1>3. CASE pos' = Path!Length(l) /\ dropping
    <2>1. UNCHANGED <<acks, queue>>
      BY <1>1, <1>3 DEF Path!Feed
    <2>2. Path!Current \in torn \/ ~(l.size <= LineMax)
      BY <1>1, <1>3, LineFacts DEF Framed, Path!ConstantsOK
    <2> QED
      BY <1>3, <2>1, <2>2 DEF Ended
  <1>4. CASE pos' = Path!Length(l) /\ ~dropping
    <2>1. /\ Path!Parses(buf) <=> Path!Current \notin torn /\ l.defect # "json"
          /\ Path!Parses(buf) => buf.of = {Path!Current}
          /\ Path!Current \notin torn => l.size <= LineMax
          /\ Path!Current \in torn \/ buf.len # (IF buf.cr THEN 1 ELSE 0)
      BY <1>1, <1>4, EndOfLine
    <2>2. CASE ~Path!Parses(buf)
      BY <1>1, <1>4, <2>1, <2>2 DEF Path!Feed, Path!Process, Ended
    <2>3. CASE Path!Parses(buf)
      <3>1. Path!Process /\ (CHOOSE m \in buf.of : TRUE) = Path!Current
        BY <1>1, <1>4, <2>1, <2>3 DEF Path!Feed
      <3>2. CASE l.defect = "type"
        <4>1. Path!Refused(Path!Current, "invalid_request")
          BY <2>3, <3>1, <3>2 DEF Path!Process
        <4>2. Path!Answer(Path!Current, FALSE, "invalid_request") \in Acks
          BY <1>1 DEF Path!Answer, Acks, PathErrors
        <4>3. acks \in Seq(Acks)
          BY DEF Typed
        <4> QED
          BY <1>4, <2>1, <2>3, <4>1, <4>2, <4>3 DEF Path!Refused, Ended, Path!Answer
      <3>3. CASE l.defect # "type"
        <4>1. Path!Route(Path!Current)
          BY <2>3, <3>1, <3>3 DEF Path!Process
        <4> QED
          BY <1>1, <1>4, <2>1, <2>3, <4>1, RouteEnds
      <3> QED
        BY <3>2, <3>3
    <2> QED
      BY <2>2, <2>3
  <1> QED
    BY <1>1, <1>2, <1>3, <1>4

\* Steps that touch neither answers nor commands.
LEMMA SameCommands ==
    ASSUME Path!AcceptedIsHandled, UNCHANGED <<handled, queue, acks>>, Path!Accepted' = Path!Accepted
    PROVE  Path!AcceptedIsHandled'
  <1>1. handled' = handled /\ queue' = queue /\ acks' = acks
    OBVIOUS
  <1>2. Path!Queued' = Path!Queued
    BY <1>1 DEF Path!Queued
  <1>3. {acks'[i].line : i \in Path!Accepted'} = {acks[i].line : i \in Path!Accepted}
    BY <1>1
  <1>4. {queue'[i].line : i \in Path!Queued'} = {queue[i].line : i \in Path!Queued}
    BY <1>1, <1>2
  <1>5. {handled'[i].line : i \in DOMAIN handled'} = {handled[i].line : i \in DOMAIN handled}
    BY <1>1
  <1> QED
    BY <1>1, <1>2, <1>3, <1>4, <1>5 DEF Path!AcceptedIsHandled

(***************************************************************************)
(* A byte arrives.                                                         *)
(***************************************************************************)

\* The types, also of what is appended.
LEMMA FeedTyped ==
    ASSUME Path!ConstantsOK, PathInv, Path!Feed
    PROVE  Typed' /\ Arriving'
  <1> USE DEF PathInv
  <1>1. /\ ~Path!Idle /\ pos' = pos + 1 /\ Path!Current \in Nat \ {0} /\ Path!Current \in DOMAIN sent /\ sent[Path!Current] \in Lines
        /\ LineMax \in Nat \ {0} /\ Depth \in Nat \ {0}
    BY CurrentLine DEF Path!Feed, Path!ConstantsOK
  <1>2. UNCHANGED <<sent, torn, handled, link, shown, busy, changes, missed>> /\ link = "secure"
    BY DEF Path!Feed
  <1>3. acks' \in Seq(Acks) /\ queue' \in Seq(Events) /\ Len(queue') <= Depth
    <2>1. CASE UNCHANGED <<acks, queue>>
      BY <2>1 DEF Typed
    <2>2. CASE ~UNCHANGED <<acks, queue>>
      <3>1. PICK a \in Acks : /\ acks' = Append(acks, a)
                              /\ \/ ~Path!Full /\ queue' = Append(queue, [type |-> "command", line |-> Path!Current])
                                 \/ queue' = queue
        BY <2>2, FeedEnds DEF Ended
      <3>2. [type |-> "command", line |-> Path!Current] \in Events
        BY <1>1 DEF Events
      <3>3. acks' \in Seq(Acks)
        BY <3>1 DEF Typed
      <3>4. queue \in Seq(Events) /\ Len(queue) \in Nat /\ Len(queue) <= Depth
        BY DEF Typed
      <3>5. CASE queue' = queue
        BY <3>3, <3>4, <3>5
      <3>6. CASE ~Path!Full /\ queue' = Append(queue, [type |-> "command", line |-> Path!Current])
        <4>1. queue' \in Seq(Events) /\ Len(queue') = Len(queue) + 1
          BY <3>2, <3>4, <3>6
        <4> QED
          BY <1>1, <3>3, <3>4, <3>6, <4>1 DEF Path!Full
      <3> QED
        BY <3>1, <3>5, <3>6
    <2> QED
      BY <2>1, <2>2
  <1>4. /\ buf' \in Buffers /\ dropping' \in BOOLEAN
        /\ buf'.of \subseteq DOMAIN sent /\ (buf'.len = 0 <=> buf'.of = {}) /\ (buf'.len = 0 => ~buf'.cr)
        /\ pos' <= Path!Length(sent[Path!Current])
    <2> DEFINE l == sent[Path!Current]
               cr == l.cr /\ pos = l.size
    <2>1. /\ buf \in Buffers /\ dropping \in BOOLEAN /\ pos \in Nat /\ Path!Length(l) \in Nat /\ l.cr \in BOOLEAN
          /\ pos <= Path!Length(l) /\ pos # Path!Length(l) /\ buf.of \subseteq DOMAIN sent
          /\ (buf.len = 0 <=> buf.of = {}) /\ (buf.len = 0 => ~buf.cr)
      BY <1>1, CurrentLine, LineFacts, SMTT(30) DEF Typed, Arriving
    <2>2. pos' <= Path!Length(l)
      BY <1>1, <2>1
    <2>3. Path!Empty \in Buffers /\ Path!Empty.of = {} /\ Path!Empty.len = 0 /\ ~Path!Empty.cr
      BY <1>1 DEF Path!Empty, Buffers
    <2>4. CASE pos' = Path!Length(l)
      <3>1. buf' = Path!Empty /\ dropping' = FALSE
        BY <1>1, <2>1, <2>4 DEF Path!Feed, Path!NoMore
      <3> QED
        BY <2>2, <2>3, <3>1
    <2>5. CASE pos' < Path!Length(l) /\ dropping
      <3>0. pos' # Path!Length(l)
        BY <1>1, <2>1, <2>5
      <3>1. buf' = buf /\ dropping' = dropping
        BY <2>5, <3>0, Zenon DEF Path!Feed
      <3> QED
        BY <2>1, <2>2, <3>1
    <2>6. CASE pos' < Path!Length(l) /\ ~dropping /\ ~Path!Fits(cr)
      <3>1. buf' = Path!Empty /\ dropping' = TRUE
        BY <1>1, <2>1, <2>6 DEF Path!Feed
      <3> QED
        BY <2>2, <2>3, <3>1
    <2>7. CASE pos' < Path!Length(l) /\ ~dropping /\ Path!Fits(cr)
      <3>1. buf' = [len |-> buf.len + 1, of |-> buf.of \cup {Path!Current}, cr |-> cr] /\ dropping' = dropping
        BY <2>1, <2>7 DEF Path!Feed
      <3>2. buf.len + 1 \in 0..LineMax + 1 /\ buf.len + 1 # 0
        BY <1>1, <2>1, <2>7 DEF Path!Fits, Buffers
      <3>3. buf' \in Buffers
        BY <1>1, <2>1, <3>1, <3>2 DEF Buffers
      <3> QED
        BY <1>1, <2>1, <2>2, <3>1, <3>2, <3>3
    <2> QED
      BY <1>1, <2>1, <2>2, <2>4, <2>5, <2>6, <2>7
  <1>5. pos' \in Nat
    BY <1>1 DEF Typed
  <1> QED
    BY <1>1, <1>2, <1>3, <1>4, <1>5 DEF Typed, Arriving, Path!Current, Path!Idle

LEMMA FeedFramed ==
    ASSUME Path!ConstantsOK, PathInv, Path!Feed
    PROVE  Framed'
  <1> USE DEF PathInv
  <1> DEFINE l == sent[Path!Current]
             cr == l.cr /\ pos = l.size
  <1>1. /\ ~Path!Idle /\ pos' = pos + 1 /\ Path!Current' = Path!Current /\ sent' = sent /\ torn' = torn
        /\ Path!Current \in Nat \ {0} /\ l \in Lines
        /\ LineMax \in Nat \ {0} /\ pos \in Nat /\ dropping \in BOOLEAN
        /\ (Path!Idle' <=> pos' = Path!Length(l))
    BY CurrentLine DEF Path!Feed, Path!ConstantsOK, Typed, Path!Current, Path!Idle
  <1>2. /\ l.size \in Nat \ {0} /\ l.cr \in BOOLEAN /\ Path!Length(l) = l.size + (IF l.cr THEN 2 ELSE 1)
        /\ Path!Length(l) \in Nat /\ pos' <= Path!Length(l)
    BY <1>1, LineFacts, CurrentLine DEF Typed, Arriving
  <1>3. CASE pos' = Path!Length(l)
    <2>1. buf' = Path!Empty /\ dropping' = FALSE
      BY <1>1, <1>2, <1>3 DEF Path!Feed, Path!NoMore
    <2> QED
      BY <1>1, <1>3, <2>1 DEF Framed
  <1>4. CASE pos' < Path!Length(l) /\ dropping
    <2>0. pos' # Path!Length(l)
      BY <1>1, <1>2, <1>4
    <2>1. buf' = buf /\ dropping' = dropping
      BY <1>4, <2>0, Zenon DEF Path!Feed
    <2> QED
      BY <1>1, <1>2, <1>4, <2>1 DEF Framed
  <1>5. CASE pos' < Path!Length(l) /\ ~dropping /\ ~Path!Fits(cr)
    <2>1. dropping' = TRUE
      BY <1>1, <1>2, <1>5 DEF Path!Feed
    <2>2. Path!Current \notin torn => pos' > LineMax /\ l.size > LineMax
      <3> SUFFICES ASSUME Path!Current \notin torn PROVE pos' > LineMax /\ l.size > LineMax
        OBVIOUS
      <3>1. buf.len = pos
        BY <1>1, <1>5 DEF Framed
      <3>2. pos > LineMax => l.size = LineMax /\ l.cr
        BY <1>1, <1>5 DEF Framed
      <3>3. ~(pos < LineMax) /\ ~(pos = LineMax /\ l.cr /\ pos = l.size)
        BY <1>5, <3>1 DEF Path!Fits
      <3> QED
        BY <1>1, <1>2, <1>5, <3>2, <3>3
    <2> QED
      BY <1>1, <1>5, <2>1, <2>2 DEF Framed
  <1>6. CASE pos' < Path!Length(l) /\ ~dropping /\ Path!Fits(cr)
    <2>1. buf' = [len |-> buf.len + 1, of |-> buf.of \cup {Path!Current}, cr |-> cr] /\ dropping' = dropping
      BY <1>1, <1>2, <1>6 DEF Path!Feed
    <2>2. Path!Current \in torn => (\E n \in buf'.of : n # Path!Current) /\ Path!Current \in buf'.of
      BY <1>1, <1>6, <2>1 DEF Framed
    <2>3. Path!Current \notin torn => /\ buf'.len = pos' /\ buf'.cr = (pos' > l.size) /\ buf'.of = {Path!Current}
                                      /\ pos' > LineMax => l.size = LineMax /\ l.cr
      <3> SUFFICES ASSUME Path!Current \notin torn
                   PROVE  /\ buf'.len = pos' /\ buf'.cr = (pos' > l.size) /\ buf'.of = {Path!Current}
                          /\ pos' > LineMax => l.size = LineMax /\ l.cr
        OBVIOUS
      <3>1. buf.len = pos /\ buf.of = (IF pos = 0 THEN {} ELSE {Path!Current})
        BY <1>1, <1>6 DEF Framed
      <3>2. buf'.len = pos' /\ buf'.of = {Path!Current}
        BY <1>1, <2>1, <3>1
      <3>3. cr = (pos' > l.size)
        BY <1>1, <1>2, <1>6
      <3>4. pos' > LineMax => l.size = LineMax /\ l.cr
        BY <1>1, <1>2, <1>6, <3>1 DEF Path!Fits
      <3> QED
        BY <2>1, <3>2, <3>3, <3>4
    <2> QED
      BY <1>1, <1>2, <1>6, <2>1, <2>2, <2>3 DEF Framed
  <1> QED
    BY <1>1, <1>2, <1>3, <1>4, <1>5, <1>6

\* Who has been answered, and what is accepted and queued.
LEMMA FeedAnswered ==
    ASSUME Path!ConstantsOK, PathInv, Path!Feed
    PROVE  Answered'
  <1> USE DEF PathInv
  <1>1. /\ ~Path!Idle /\ Path!Current' = Path!Current /\ sent' = sent /\ torn' = torn
        /\ Path!Current \in Nat \ {0} /\ Path!Current = Len(sent) /\ acks \in Seq(Acks)
        /\ (Path!Idle' <=> pos' = Path!Length(sent[Path!Current]))
    BY CurrentLine DEF Path!Feed, Typed, Path!Current, Path!Idle
  <1>2. Path!Arrived = 1..Path!Current - 1 /\ Path!Arrived' = (IF Path!Idle' THEN 1..Path!Current ELSE 1..Path!Current - 1)
    <2>1. sent \in Seq(Lines)
      BY DEF Typed
    <2>2. DOMAIN sent = 1..Path!Current
      BY <1>1, <2>1
    <2> QED
      BY <1>1, <2>2 DEF Path!Arrived
  <1>3. Path!AcksOf(Path!Current) = {}
    BY <1>1, <1>2 DEF Answered, Path!AcksOf
  <1>4. CASE acks' = acks
    <2>1. \A n : Path!AcksOf(n)' = Path!AcksOf(n)
      BY <1>4 DEF Path!AcksOf
    <2>2. ASSUME NEW n \in Path!Arrived'
          PROVE  IF n \notin torn /\ sent[n].size <= LineMax /\ sent[n].defect # "json"
                 THEN \E i \in DOMAIN acks : Path!AcksOf(n) = {i} ELSE Path!AcksOf(n) = {}
      <3>1. CASE n \in Path!Arrived
        BY <3>1 DEF Answered, Path!WholeLinesAreAnswered
      <3>2. CASE n \notin Path!Arrived
        <4>1. n = Path!Current /\ pos' = Path!Length(sent[Path!Current])
          BY <1>1, <1>2, <2>2, <3>2
        <4> QED
          BY <1>3, <1>4, <4>1, FeedEnds
      <3> QED
        BY <3>1, <3>2
    <2>3. \A i \in DOMAIN acks : acks[i].line \in Path!Arrived'
      BY <1>1, <1>2 DEF Answered
    <2> QED
      BY <1>1, <1>4, <2>1, <2>2, <2>3 DEF Answered, Path!WholeLinesAreAnswered
  <1>5. CASE acks' # acks
    <2>1. PICK a \in Acks : a.line = Path!Current /\ acks' = Append(acks, a)
      BY <1>5, FeedEnds DEF Ended
    <2>2. /\ pos' = Path!Length(sent[Path!Current]) /\ Path!Arrived' = 1..Path!Current
          /\ Path!Current \notin torn /\ sent[Path!Current].defect # "json" /\ sent[Path!Current].size <= LineMax
      BY <1>1, <1>2, <1>5, FeedEnds
    <2>3. /\ DOMAIN acks' = 1..Len(acks) + 1 /\ DOMAIN acks = 1..Len(acks) /\ Len(acks) \in Nat
          /\ acks'[Len(acks) + 1].line = Path!Current
          /\ \A i \in 1..Len(acks) : acks'[i] = acks[i]
      BY <1>1, <2>1
    <2>4. ASSUME NEW n \in 1..Path!Current - 1
          PROVE  {i \in DOMAIN acks' : acks'[i].line = n} = {i \in DOMAIN acks : acks[i].line = n}
      BY <1>1, <2>3
    <2>5. {i \in DOMAIN acks' : acks'[i].line = Path!Current} = {Len(acks) + 1}
      BY <1>3, <2>3 DEF Path!AcksOf
    <2>6. \A i \in DOMAIN acks' : acks'[i].line \in Path!Arrived'
      <3>1. \A i \in DOMAIN acks : acks[i].line \in 1..Path!Current - 1
        BY <1>2 DEF Answered
      <3> QED
        BY <1>1, <2>2, <2>3, <3>1
    <2>7. ASSUME NEW n \in Path!Arrived'
          PROVE  IF n \notin torn /\ sent[n].size <= LineMax /\ sent[n].defect # "json"
                 THEN \E i \in DOMAIN acks' : Path!AcksOf(n)' = {i} ELSE Path!AcksOf(n)' = {}
      <3>1. CASE n = Path!Current
        BY <2>2, <2>3, <2>5, <3>1 DEF Path!AcksOf
      <3>2. CASE n # Path!Current
        <4>1. n \in Path!Arrived /\ n \in 1..Path!Current - 1
          BY <1>1, <1>2, <2>2, <2>7, <3>2
        <4>2. IF n \notin torn /\ sent[n].size <= LineMax /\ sent[n].defect # "json"
              THEN \E i \in DOMAIN acks : Path!AcksOf(n) = {i} ELSE Path!AcksOf(n) = {}
          BY <4>1 DEF Answered, Path!WholeLinesAreAnswered
        <4> QED
          BY <2>3, <2>4, <4>1, <4>2 DEF Path!AcksOf
      <3> QED
        BY <3>1, <3>2
    <2> QED
      BY <1>1, <2>6, <2>7 DEF Answered, Path!WholeLinesAreAnswered
  <1> QED
    BY <1>4, <1>5

LEMMA FeedHandled ==
    ASSUME Path!ConstantsOK, PathInv, Path!Feed
    PROVE  Path!AcceptedIsHandled'
  <1> USE DEF PathInv
  <1>1. /\ ~Path!Idle /\ Path!Current' = Path!Current /\ sent' = sent /\ handled' = handled
        /\ Path!Current \in Nat \ {0} /\ Path!Current = Len(sent) /\ acks \in Seq(Acks) /\ queue \in Seq(Events)
        /\ handled \in Seq(Taken)
    BY CurrentLine DEF Path!Feed, Typed, Path!Current, Path!Idle
  <1>2. \A i \in DOMAIN acks : acks[i].line < Path!Current
    <2>1. sent \in Seq(Lines)
      BY DEF Typed
    <2>2. \A n \in Path!Arrived : n < Path!Current
      BY <1>1, <2>1 DEF Path!Arrived
    <2> QED
      BY <2>2 DEF Answered
  <1>3. CASE UNCHANGED <<acks, queue>>
    <2>1. Path!Accepted' = Path!Accepted /\ Path!Queued' = Path!Queued
      BY <1>1, <1>3 DEF Path!Accepted, Path!Queued
    <2>2. acks' = acks /\ queue' = queue
      BY <1>3
    <2>3. {acks'[i].line : i \in Path!Accepted'} = {acks[i].line : i \in Path!Accepted}
      BY <2>1, <2>2
    <2> QED
      BY <1>1, <2>1, <2>2, <2>3 DEF Path!AcceptedIsHandled
  <1>4. CASE ~UNCHANGED <<acks, queue>>
    <2>1. PICK a \in Acks :
              /\ a.line = Path!Current /\ acks' = Append(acks, a)
              /\ IF a.ok /\ sent[Path!Current].kind # "status"
                 THEN queue' = Append(queue, [type |-> "command", line |-> Path!Current])
                 ELSE queue' = queue
      BY <1>4, FeedEnds DEF Ended
    <2>2. /\ DOMAIN acks' = 1..Len(acks) + 1 /\ DOMAIN acks = 1..Len(acks) /\ Len(acks) \in Nat
          /\ acks'[Len(acks) + 1] = a
          /\ \A i \in 1..Len(acks) : acks'[i] = acks[i]
      BY <1>1, <2>1
    <2>3. CASE ~(a.ok /\ sent[Path!Current].kind # "status")
      <3>1. Path!Accepted' = Path!Accepted /\ \A i \in Path!Accepted : acks'[i] = acks[i]
        BY <1>1, <2>1, <2>2, <2>3 DEF Path!Accepted
      <3>2. queue' = queue
        BY <2>1, <2>3
      <3>3. {acks'[i].line : i \in Path!Accepted'} = {acks[i].line : i \in Path!Accepted} /\ Path!Queued' = Path!Queued
        BY <3>1, <3>2 DEF Path!Queued
      <3> QED
        BY <1>1, <3>2, <3>3 DEF Path!AcceptedIsHandled
    <2>4. CASE a.ok /\ sent[Path!Current].kind # "status"
      <3>1. /\ Path!Accepted' = Path!Accepted \cup {Len(acks) + 1} /\ acks'[Len(acks) + 1].line = Path!Current
            /\ \A i \in Path!Accepted : acks'[i] = acks[i]
        BY <1>1, <2>1, <2>2, <2>4 DEF Path!Accepted
      <3>2. queue' = Append(queue, [type |-> "command", line |-> Path!Current])
        BY <2>1, <2>4
      <3>3. /\ Path!Queued' = Path!Queued \cup {Len(queue) + 1} /\ queue'[Len(queue) + 1].line = Path!Current
            /\ \A i \in Path!Queued : queue'[i] = queue[i] /\ i \in 1..Len(queue)
            /\ Len(queue) \in Nat
        BY <1>1, <3>2 DEF Path!Queued
      <3>4. {acks'[i].line : i \in Path!Accepted'} = {acks[i].line : i \in Path!Accepted} \cup {Path!Current}
        BY <3>1
      <3>5. {queue'[i].line : i \in Path!Queued'} = {queue[i].line : i \in Path!Queued} \cup {Path!Current}
        BY <3>3
      <3>6. /\ \A i \in DOMAIN handled : handled[i].line < Path!Current
            /\ \A i \in Path!Queued : queue[i].line < Path!Current
        <4>1. \A i \in Path!Accepted : acks[i].line < Path!Current
          BY <1>2 DEF Path!Accepted
        <4> QED
          BY <4>1 DEF Path!AcceptedIsHandled
      <3>7. \A i, j \in Path!Queued' : i < j => queue'[i].line < queue'[j].line
        BY <3>3, <3>6 DEF Path!AcceptedIsHandled
      <3>8. \A i \in DOMAIN handled, j \in Path!Queued' : handled[i].line < queue'[j].line
        BY <3>3, <3>6 DEF Path!AcceptedIsHandled
      <3> QED
        BY <1>1, <3>4, <3>5, <3>7, <3>8 DEF Path!AcceptedIsHandled
    <2> QED
      BY <2>3, <2>4
  <1> QED
    BY <1>3, <1>4

\* The link and what the queue says of it: a command joins it while the link
\* is secure.
LEMMA FeedTold ==
    ASSUME Path!ConstantsOK, PathInv, Path!Feed
    PROVE  Latest' /\ Told' /\ Path!LinkIsShown'
  <1> USE DEF PathInv
  <1>1. /\ UNCHANGED <<handled, link, shown, missed>> /\ link = "secure"
        /\ queue \in Seq(Events) /\ missed \in 0..2
    BY DEF Path!Feed, Typed
  <1>2. CASE queue' = queue
    <2>1. Links' = Links /\ Path!Queued' = Path!Queued
      BY <1>2 DEF Links, Path!Queued
    <2>2. Latest'
      BY <1>1, <1>2, <2>1 DEF Latest
    <2>3. Told'
      BY <1>1, <1>2, <2>1 DEF Told
    <2> QED
      BY <1>1, <1>2, <2>2, <2>3 DEF Path!LinkIsShown
  <1>3. CASE queue' # queue
    <2>1. queue' = Append(queue, [type |-> "command", line |-> Path!Current])
      BY <1>3, FeedEnds DEF Ended
    <2> DEFINE n == Len(queue) + 1
    <2>2. /\ Links' = Links /\ Path!Queued' = Path!Queued \cup {n} /\ n \notin Path!Queued
          /\ Links \subseteq 1..n - 1 /\ Path!Queued \subseteq 1..n - 1 /\ n \in Nat
          /\ \A i \in 1..n - 1 : queue'[i] = queue[i]
      BY <1>1, <2>1 DEF Links, Path!Queued
    <2>3. Latest'
      BY <1>1, <2>2 DEF Latest
    <2>4. Told'
      <3> SUFFICES ASSUME missed = 0, NEW i \in Path!Queued'
                   PROVE  \/ shown = "secure" /\ \A j \in Links : i < j
                          \/ \E k \in Links : /\ k < i /\ queue'[k].state = "secure"
                                              /\ \A j \in Links : j <= k \/ i < j
        BY <1>1, <2>2 DEF Told
      <3>1. CASE i \in Path!Queued
        BY <2>2, <3>1 DEF Told
      <3>2. CASE i = n
        <4>1. CASE Links = {} /\ shown = link
          BY <1>1, <3>2, <4>1
        <4>2. CASE \E k \in Links : queue[k].state = link /\ \A j \in Links : j <= k
          <5>1. PICK k \in Links : queue[k].state = link /\ \A j \in Links : j <= k
            BY <4>2
          <5>2. k < i /\ queue'[k].state = "secure" /\ \A j \in Links : j <= k
            BY <1>1, <2>2, <3>2, <5>1
          <5> QED
            BY <5>2
        <4> QED
          BY <4>1, <4>2 DEF Latest
      <3> QED
        BY <2>2, <3>1, <3>2
    <2>5. queue' # << >>
      BY <1>1, <2>1
    <2> QED
      BY <1>1, <2>3, <2>4, <2>5 DEF Path!LinkIsShown
  <1> QED
    BY <1>2, <1>3

LEMMA FeedOk ==
    ASSUME Path!ConstantsOK, PathInv, Path!Feed
    PROVE  PathInv'
  BY FeedTyped, FeedFramed, FeedAnswered, FeedHandled, FeedTold DEF PathInv

(***************************************************************************)
(* A line is begun.                                                        *)
(***************************************************************************)
LEMMA SendOk ==
    ASSUME Path!ConstantsOK, PathInv, Path!Send
    PROVE  PathInv'
  <1> USE DEF PathInv
  <1>1. PICK l \in Lines : sent' = Append(sent, l)
    BY DEF Path!Send
  <1>2. /\ Path!Idle /\ link = "secure" /\ pos' = 0 /\ sent \in Seq(Lines) /\ Path!Current \in Nat
        /\ UNCHANGED <<buf, dropping, acks, queue, handled, link, shown, busy, changes, missed>>
        /\ torn \subseteq 1..Path!Current /\ Path!Current < MaxSends
    BY DEF Path!Send, Typed, Path!Current
  <1>3. /\ Path!Current' = Path!Current + 1 /\ DOMAIN sent' = 1..Path!Current + 1 /\ DOMAIN sent = 1..Path!Current
        /\ sent'[Path!Current + 1] = l /\ \A n \in 1..Path!Current : sent'[n] = sent[n]
        /\ sent' \in Seq(Lines) /\ Len(sent') = Path!Current + 1
    BY <1>1, <1>2 DEF Path!Current
  <1>4. ~Path!Idle' /\ Path!Length(l) \in Nat /\ Path!Length(l) >= 2
    BY <1>1, <1>2, <1>3, LineFacts DEF Path!Idle, Path!Length
  <1>5. torn' = (IF Path!Current \in torn /\ (buf.len > 0 \/ dropping) THEN torn \cup {Path!Current + 1} ELSE torn)
    BY DEF Path!Send
  <1>6. /\ buf \in Buffers /\ dropping \in BOOLEAN /\ buf.len \in 0..LineMax + 1 /\ buf.of \subseteq 1..Path!Current
        /\ (buf.len = 0 <=> buf.of = {}) /\ (buf.len = 0 => ~buf.cr) /\ buf.cr \in BOOLEAN
        /\ LineMax \in Nat \ {0} /\ MaxSends \in Nat
    BY <1>3 DEF Typed, Arriving, Buffers, Path!ConstantsOK
  <1>7. Typed'
    <2>1. torn' \subseteq 1..Path!Current + 1
      BY <1>2, <1>5
    <2>2. Len(sent') <= MaxSends
      BY <1>2, <1>3, <1>6
    <2> QED
      BY <1>2, <1>3, <2>1, <2>2 DEF Typed
  <1>8. Arriving'
    BY <1>2, <1>3, <1>4, <1>6 DEF Arriving, Path!Length
  <1>9. Framed'
    <2>1. CASE Path!Current + 1 \in torn'
      <3>1. Path!Current \in torn /\ (buf.len > 0 \/ dropping)
        BY <1>2, <1>5, <2>1
      <3>2. ~dropping => \E n \in buf.of : n # Path!Current + 1
        <4> SUFFICES ASSUME ~dropping PROVE \E n \in buf.of : n # Path!Current + 1
          OBVIOUS
        <4>1. buf.of # {}
          BY <1>6, <3>1
        <4> QED
          BY <1>2, <1>6, <4>1
      <3> QED
        BY <1>2, <1>3, <1>4, <2>1, <3>2 DEF Framed
    <2>2. CASE Path!Current + 1 \notin torn'
      <3>1. buf.len = 0 /\ ~dropping /\ buf.of = {} /\ buf.cr = FALSE
        BY <1>2, <1>5, <1>6, <2>2 DEF Framed, Path!Empty
      <3> QED
        BY <1>2, <1>3, <1>4, <1>6, <2>2, <3>1, LineFacts DEF Framed
    <2> QED
      BY <2>1, <2>2
  <1>10. Answered'
    <2>1. Path!Arrived' = 1..Path!Current /\ Path!Arrived = 1..Path!Current
      BY <1>2, <1>3, <1>4 DEF Path!Arrived
    <2>2. \A n : Path!AcksOf(n)' = Path!AcksOf(n)
      BY <1>2 DEF Path!AcksOf
    <2>3. \A n \in 1..Path!Current : n \in torn' <=> n \in torn
      BY <1>2, <1>5
    <2>4. Path!WholeLinesAreAnswered'
      BY <1>2, <1>3, <2>1, <2>2, <2>3 DEF Answered, Path!WholeLinesAreAnswered
    <2> QED
      BY <1>2, <2>1, <2>4 DEF Answered
  <1>11. Path!AcceptedIsHandled'
    <2>1. \A i \in DOMAIN acks : acks[i].line \in 1..Path!Current
      BY <1>2, <1>3 DEF Answered, Path!Arrived
    <2>2. Path!Accepted' = Path!Accepted /\ Path!Queued' = Path!Queued
      BY <1>2, <1>3, <2>1 DEF Path!Accepted, Path!Queued
    <2>3. acks' = acks /\ queue' = queue /\ handled' = handled
      BY <1>2
    <2> QED
      BY <2>2, <2>3, SameCommands
  <1>12. Latest' /\ Told' /\ Path!LinkIsShown'
    <2>1. Links' = Links /\ Path!Queued' = Path!Queued
      BY <1>2 DEF Links, Path!Queued
    <2>2. queue' = queue /\ missed' = missed /\ shown' = shown /\ link' = link /\ handled' = handled
      BY <1>2
    <2>3. Latest'
      BY <2>1, <2>2 DEF Latest
    <2>4. Told'
      BY <2>1, <2>2 DEF Told
    <2> QED
      BY <2>2, <2>3, <2>4 DEF Path!LinkIsShown
  <1> QED
    BY <1>7, <1>8, <1>9, <1>10, <1>11, <1>12

(***************************************************************************)
(* The link and the update change.                                         *)
(***************************************************************************)
LEMMA LinkQueue ==
    ASSUME Path!ConstantsOK, PathInv, Path!LinkChanges
    PROVE  /\ queue' \in Seq(Events) /\ Len(queue') <= Depth /\ link' \in States
           /\ missed' \in 0..2 /\ changes' \in 0..MaxChanges
           /\ Path!AcceptedIsHandled' /\ Latest' /\ Told' /\ Path!LinkIsShown'
  <1> USE DEF PathInv
  <1>1. PICK to \in States :
           /\ link' = to /\ queue' = Path!Behind([type |-> "link", state |-> to])
           /\ missed' = (IF Path!Full THEN 2 ELSE IF missed = 0 THEN 0 ELSE 1)
    BY DEF Path!LinkChanges, States
  <1>2. /\ sent' = sent /\ acks' = acks /\ handled' = handled /\ shown' = shown
        /\ changes < MaxChanges /\ changes' = changes + 1
    BY DEF Path!LinkChanges
  <1>3. /\ queue \in Seq(Events) /\ missed \in 0..2 /\ Len(queue) \in Nat /\ Len(queue) <= Depth /\ Depth \in Nat
        /\ changes \in 0..MaxChanges /\ MaxChanges \in Nat
    BY DEF Typed, Path!ConstantsOK
  <1>4. missed' \in 0..2 /\ changes' \in 0..MaxChanges
    BY <1>1, <1>2, <1>3
  <1>5. Path!Accepted' = Path!Accepted
    BY <1>2 DEF Path!Accepted
  <1>6. CASE Path!Full
    <2>1. queue' = queue /\ missed' = 2
      BY <1>1, <1>6 DEF Path!Behind
    <2>2. Path!Queued' = Path!Queued
      BY <2>1 DEF Path!Queued
    <2>3. Path!AcceptedIsHandled'
      BY <1>2, <1>5, <2>1, SameCommands
    <2> QED
      BY <1>1, <1>3, <1>4, <2>1, <2>3 DEF Latest, Told, Path!LinkIsShown
  <1>7. CASE ~Path!Full
    <2> DEFINE n == Len(queue) + 1
    <2>1. queue' = Append(queue, [type |-> "link", state |-> to]) /\ missed' \in {0, 1} /\ (missed' = 0 => missed = 0)
      BY <1>1, <1>7 DEF Path!Behind
    <2>2. [type |-> "link", state |-> to] \in Events
      BY <1>1 DEF Events
    <2>3. queue' \in Seq(Events) /\ Len(queue') = n /\ Len(queue') <= Depth /\ queue' # << >>
      BY <1>3, <1>7, <2>1, <2>2 DEF Path!Full
    <2>4. /\ Path!Queued' = Path!Queued /\ Path!Queued \subseteq 1..n - 1 /\ Links' = Links \cup {n} /\ Links \subseteq 1..n - 1
          /\ \A i \in 1..n - 1 : queue'[i] = queue[i]
          /\ queue'[n].state = to /\ n \in Nat
      BY <1>3, <2>1 DEF Path!Queued, Links
    <2>5. Path!AcceptedIsHandled'
      <3>1. \A i \in Path!Queued : queue'[i] = queue[i]
        BY <2>4
      <3>2. {queue'[i].line : i \in Path!Queued} = {queue[i].line : i \in Path!Queued}
        BY <3>1
      <3>3. {acks'[i].line : i \in Path!Accepted'} = {acks[i].line : i \in Path!Accepted}
        BY <1>2, <1>5
      <3> QED
        BY <1>2, <2>4, <3>1, <3>2, <3>3 DEF Path!AcceptedIsHandled
    <2>6. Latest'
      <3>1. n \in Links' /\ queue'[n].state = link' /\ \A j \in Links' : j <= n
        BY <1>1, <2>4
      <3> QED
        BY <3>1 DEF Latest
    <2>7. Told'
      <3> SUFFICES ASSUME missed = 0, NEW i \in Path!Queued
                   PROVE  \/ shown = "secure" /\ \A j \in Links' : i < j
                          \/ \E k \in Links' : /\ k < i /\ queue'[k].state = "secure"
                                               /\ \A j \in Links' : j <= k \/ i < j
        BY <1>2, <2>1, <2>4 DEF Told
      <3>1. i < n
        BY <2>4
      <3> QED
        BY <2>4, <3>1 DEF Told
    <2>8. Path!LinkIsShown'
      BY <1>2, <2>1, <2>3 DEF Path!LinkIsShown
    <2> QED
      BY <1>1, <1>4, <2>3, <2>5, <2>6, <2>7, <2>8
  <1> QED
    BY <1>6, <1>7

LEMMA LinkOk ==
    ASSUME Path!ConstantsOK, PathInv, Path!LinkChanges
    PROVE  PathInv'
  <1> USE DEF PathInv
  <1>1. PICK to \in States :
           /\ <<link, to>> \in {<<"down", "pairing">>, <<"pairing", "secure">>, <<"pairing", "down">>, <<"secure", "down">>}
           /\ link' = to /\ queue' = Path!Behind([type |-> "link", state |-> to])
           /\ missed' = (IF Path!Full THEN 2 ELSE IF missed = 0 THEN 0 ELSE 1)
           /\ IF to # "down" \/ Path!Idle THEN UNCHANGED <<pos, torn>>
              ELSE pos' = Path!Length(sent[Path!Current]) /\ torn' = torn \cup {Path!Current}
           /\ IF to # "down" THEN UNCHANGED <<buf, dropping>>
              ELSE (buf' = Path!Empty /\ dropping' = FALSE) \/ UNCHANGED <<buf, dropping>>
    BY DEF Path!LinkChanges, States
  <1>2. /\ UNCHANGED <<sent, acks, handled, shown, busy>> /\ changes < MaxChanges /\ changes' = changes + 1
        /\ Path!Current' = Path!Current /\ sent \in Seq(Lines) /\ Path!Current \in Nat /\ Path!Current = Len(sent)
    BY DEF Path!LinkChanges, Typed, Path!Current
  <1>3. /\ link \in States /\ queue \in Seq(Events) /\ missed \in 0..2 /\ Len(queue) <= Depth /\ Depth \in Nat
        /\ changes \in 0..MaxChanges /\ MaxChanges \in Nat /\ LineMax \in Nat
        /\ buf \in Buffers /\ dropping \in BOOLEAN /\ pos \in Nat /\ torn \subseteq 1..Path!Current
    BY <1>2 DEF Typed, Path!ConstantsOK
  <1>4. CASE Path!Idle
    <2>1. /\ UNCHANGED <<pos, torn>> /\ Path!Idle'
      BY <1>1, <1>2, <1>4 DEF Path!Idle
    <2>2. (buf' = Path!Empty /\ dropping' = FALSE) \/ UNCHANGED <<buf, dropping>>
      BY <1>1
    <2>3. Path!Empty \in Buffers /\ Path!Empty.of = {} /\ Path!Empty.len = 0 /\ ~Path!Empty.cr
      BY <1>3 DEF Path!Empty, Buffers
    <2>4. Arriving' /\ buf' \in Buffers /\ dropping' \in BOOLEAN
      BY <1>2, <1>3, <2>1, <2>2, <2>3 DEF Arriving
    <2>5. Framed'
      BY <1>2, <1>4, <2>1, <2>2 DEF Framed
    <2>6. Answered'
      <3>1. Path!Arrived' = Path!Arrived /\ \A n : Path!AcksOf(n)' = Path!AcksOf(n)
        BY <1>2, <1>4, <2>1 DEF Path!Arrived, Path!AcksOf
      <3> QED
        BY <1>2, <2>1, <3>1 DEF Answered, Path!WholeLinesAreAnswered
    <2> QED
      BY <1>2, <1>3, <2>1, <2>4, <2>5, <2>6, LinkQueue DEF Typed
  <1>5. CASE ~Path!Idle
    <2>1. link = "secure" /\ Path!Current > 0 /\ Path!Current \in 1..Len(sent)
      BY <1>2, <1>5 DEF Arriving, Path!Idle
    <2>2. to = "down" /\ pos' = Path!Length(sent[Path!Current]) /\ torn' = torn \cup {Path!Current} /\ Path!Idle'
      BY <1>1, <1>2, <1>5, <2>1 DEF Path!Idle
    <2>3. (buf' = Path!Empty /\ dropping' = FALSE) \/ UNCHANGED <<buf, dropping>>
      BY <1>1
    <2>4. Path!Length(sent[Path!Current]) \in Nat
      BY <1>2, <2>1, LineFacts
    <2>5. Arriving' /\ buf' \in Buffers /\ dropping' \in BOOLEAN
      <3>1. Path!Empty \in Buffers /\ Path!Empty.of = {} /\ Path!Empty.len = 0 /\ ~Path!Empty.cr
        BY <1>3 DEF Path!Empty, Buffers
      <3>2. buf' \in Buffers /\ dropping' \in BOOLEAN
        BY <1>3, <2>3, <3>1
      <3>3. /\ buf'.of \subseteq DOMAIN sent' /\ (buf'.len = 0 <=> buf'.of = {}) /\ (buf'.len = 0 => ~buf'.cr)
        BY <1>2, <2>3, <3>1 DEF Arriving
      <3>4. pos' <= Path!Length(sent'[Path!Current'])
        BY <1>2, <2>2, <2>4
      <3> QED
        BY <2>2, <3>2, <3>3, <3>4 DEF Arriving
    <2>6. Framed'
      BY <1>2, <2>2 DEF Framed
    <2>7. Answered'
      <3>1. Path!Arrived = 1..Path!Current - 1 /\ Path!Arrived' = 1..Path!Current
        BY <1>2, <1>5, <2>1, <2>2 DEF Path!Arrived
      <3>2. \A n : Path!AcksOf(n)' = Path!AcksOf(n)
        BY <1>2 DEF Path!AcksOf
      <3>3. Path!AcksOf(Path!Current) = {}
        BY <1>2, <3>1 DEF Answered, Path!AcksOf
      <3>4. \A n \in Path!Arrived' : n # Path!Current => n \in Path!Arrived /\ (n \in torn' <=> n \in torn)
        BY <1>2, <2>2, <3>1
      <3>5. Path!WholeLinesAreAnswered'
        BY <1>2, <2>2, <3>1, <3>2, <3>3, <3>4 DEF Answered, Path!WholeLinesAreAnswered
      <3> QED
        BY <1>2, <3>1, <3>5 DEF Answered
    <2> QED
      BY <1>2, <1>3, <2>1, <2>2, <2>4, <2>5, <2>6, <2>7, LinkQueue DEF Typed
  <1> QED
    BY <1>4, <1>5

LEMMA UpdateOk ==
    ASSUME Path!ConstantsOK, PathInv, Path!UpdateChanges
    PROVE  PathInv'
  <1> USE DEF PathInv
  <1>1. /\ UNCHANGED <<sent, pos, buf, dropping, torn, acks, queue, handled, link, shown, missed>>
        /\ changes' \in 0..MaxChanges /\ busy' \in BOOLEAN
    BY DEF Path!UpdateChanges, Path!feed, Typed, Path!ConstantsOK
  <1>2. Typed' /\ Arriving' /\ Framed'
    BY <1>1 DEF Typed, Arriving, Framed, Path!Idle, Path!Current
  <1>3. Answered'
    <2>1. Path!Arrived' = Path!Arrived /\ \A n : Path!AcksOf(n)' = Path!AcksOf(n)
      BY <1>1 DEF Path!Arrived, Path!AcksOf, Path!Idle, Path!Current
    <2> QED
      BY <1>1, <2>1 DEF Answered, Path!WholeLinesAreAnswered
  <1>4. Path!AcceptedIsHandled'
    <2>1. Path!Accepted' = Path!Accepted
      BY <1>1 DEF Path!Accepted
    <2> QED
      BY <1>1, <2>1, SameCommands
  <1>5. Latest' /\ Told' /\ Path!LinkIsShown'
    BY <1>1 DEF Path!Queued, Latest, Told, Links, Path!LinkIsShown
  <1> QED
    BY <1>2, <1>3, <1>4, <1>5

(***************************************************************************)
(* The main loop takes an event.                                           *)
(***************************************************************************)
LEMMA TailFacts ==
    ASSUME Path!ConstantsOK, Typed, queue # << >>
    PROVE  /\ Tail(queue) \in Seq(Events) /\ Len(Tail(queue)) = Len(queue) - 1
           /\ DOMAIN Tail(queue) = 1..Len(queue) - 1 /\ DOMAIN queue = 1..Len(queue)
           /\ Head(queue) = queue[1] /\ queue[1] \in Events /\ Len(queue) \in Nat /\ Len(queue) >= 1
           /\ \A i \in 1..Len(queue) - 1 : Tail(queue)[i] = queue[i + 1]
  BY DEF Typed

LEMMA ReceiveOk ==
    ASSUME Path!ConstantsOK, PathInv, Path!Receive
    PROVE  PathInv'
  <1> USE DEF PathInv
  <1> DEFINE n == Len(queue)
  <1>1. /\ UNCHANGED <<sent, pos, buf, dropping, torn, acks, link, busy, changes, missed>>
        /\ queue # << >> /\ queue' = Tail(queue)
        /\ IF queue[1].type = "link" THEN shown' = queue[1].state /\ handled' = handled
           ELSE handled' = Append(handled, [line |-> queue[1].line, during |-> shown]) /\ shown' = shown
    BY TailFacts DEF Path!Receive, Path!feed
  <1>2. /\ queue' \in Seq(Events) /\ Len(queue') = n - 1 /\ n \in Nat /\ n >= 1 /\ queue[1] \in Events
        /\ DOMAIN queue' = 1..n - 1 /\ DOMAIN queue = 1..n
        /\ \A i \in 1..n - 1 : queue'[i] = queue[i + 1]
    BY <1>1, TailFacts
  <1>3. /\ handled \in Seq(Taken) /\ Len(handled) \in Nat /\ shown \in States
        /\ n <= Depth /\ Depth \in Nat
    BY DEF Typed, Path!ConstantsOK
  <1>4. /\ queue[1].type = "link" => queue[1].state \in States
        /\ queue[1].type # "link" => queue[1].type = "command" /\ queue[1].line \in Nat
    BY <1>2 DEF Events
  <1>5. /\ \A i \in 1..n - 1 : (i \in Path!Queued' <=> i + 1 \in Path!Queued) /\ (i \in Links' <=> i + 1 \in Links)
        /\ Path!Queued' \subseteq 1..n - 1 /\ Links' \subseteq 1..n - 1 /\ Path!Queued \subseteq 1..n /\ Links \subseteq 1..n
        /\ (1 \in Links <=> queue[1].type = "link") /\ (1 \in Path!Queued <=> queue[1].type = "command")
    BY <1>2 DEF Path!Queued, Links
  <1>6. Typed'
    <2>1. handled' \in Seq(Taken) /\ shown' \in States
      <3>1. CASE queue[1].type = "link"
        BY <1>1, <1>3, <1>4, <3>1
      <3>2. CASE queue[1].type # "link"
        <4>1. [line |-> queue[1].line, during |-> shown] \in Taken
          BY <1>3, <1>4, <3>2 DEF Taken
        <4>2. handled' = Append(handled, [line |-> queue[1].line, during |-> shown]) /\ shown' = shown
          BY <1>1, <3>2
        <4>3. handled' \in Seq(Taken)
          BY <1>3, <4>1, <4>2
        <4> QED
          BY <1>3, <4>2, <4>3
      <3> QED
        BY <3>1, <3>2
    <2> QED
      BY <1>1, <1>2, <1>3, <2>1 DEF Typed
  <1>7. Arriving' /\ Framed' /\ Answered'
    <2>1. Path!Arrived' = Path!Arrived /\ \A m : Path!AcksOf(m)' = Path!AcksOf(m)
      BY <1>1 DEF Path!Arrived, Path!AcksOf, Path!Idle, Path!Current
    <2>2. Answered'
      BY <1>1, <2>1 DEF Answered, Path!WholeLinesAreAnswered
    <2> QED
      BY <1>1, <2>2 DEF Arriving, Framed, Path!Idle, Path!Current
  <1>8. Path!AcceptedIsHandled'
    <2>1. {acks'[i].line : i \in Path!Accepted'} = {acks[i].line : i \in Path!Accepted}
      BY <1>1 DEF Path!Accepted
    <2>2. \A i, j \in Path!Queued' : i < j => queue'[i].line < queue'[j].line
      BY <1>2, <1>5 DEF Path!AcceptedIsHandled
    <2>3. CASE queue[1].type = "link"
      <3>1. 1 \notin Path!Queued /\ handled' = handled
        BY <1>1, <1>4, <1>5, <2>3
      <3>2. {queue'[i].line : i \in Path!Queued'} = {queue[i].line : i \in Path!Queued}
        <4>1. ASSUME NEW i \in Path!Queued PROVE i - 1 \in Path!Queued' /\ queue'[i - 1].line = queue[i].line
          BY <1>2, <1>5, <3>1
        <4>2. ASSUME NEW i \in Path!Queued' PROVE i + 1 \in Path!Queued /\ queue'[i].line = queue[i + 1].line
          BY <1>2, <1>5
        <4> QED
          BY <4>1, <4>2
      <3>3. \A i \in DOMAIN handled, j \in Path!Queued' : handled[i].line < queue'[j].line
        BY <1>2, <1>5 DEF Path!AcceptedIsHandled
      <3> QED
        BY <2>1, <2>2, <3>1, <3>2, <3>3 DEF Path!AcceptedIsHandled
    <2>4. CASE queue[1].type # "link"
      <3> DEFINE m == Len(handled) + 1
      <3>1. 1 \in Path!Queued /\ handled' = Append(handled, [line |-> queue[1].line, during |-> shown])
        BY <1>1, <1>4, <1>5, <2>4
      <3>2. /\ DOMAIN handled' = 1..m /\ DOMAIN handled = 1..m - 1 /\ handled'[m].line = queue[1].line
            /\ \A i \in 1..m - 1 : handled'[i] = handled[i]
        BY <1>3, <3>1
      <3>3. {handled'[i].line : i \in DOMAIN handled'} = {handled[i].line : i \in DOMAIN handled} \cup {queue[1].line}
        BY <1>3, <3>2
      <3>4. {queue'[i].line : i \in Path!Queued'} \cup {queue[1].line} = {queue[i].line : i \in Path!Queued}
        <4>1. ASSUME NEW i \in Path!Queued, i # 1 PROVE i - 1 \in Path!Queued' /\ queue'[i - 1].line = queue[i].line
          <5>1. i \in 1..n /\ i - 1 \in 1..n - 1 /\ (i - 1) + 1 = i
            BY <1>2, <1>5, <4>1
          <5> QED
            BY <1>2, <1>5, <5>1
        <4>2. ASSUME NEW i \in Path!Queued' PROVE i + 1 \in Path!Queued /\ queue'[i].line = queue[i + 1].line
          BY <1>2, <1>5
        <4> QED
          BY <3>1, <4>1, <4>2
      <3>5. \A i, j \in DOMAIN handled' : i < j => handled'[i].line < handled'[j].line
        BY <1>3, <3>1, <3>2 DEF Path!AcceptedIsHandled
      <3>6. \A i \in DOMAIN handled', j \in Path!Queued' : handled'[i].line < queue'[j].line
        <4> SUFFICES ASSUME NEW i \in 1..m, NEW j \in Path!Queued' PROVE handled'[i].line < queue'[j].line
          BY <3>2
        <4>1. j + 1 \in Path!Queued /\ 1 < j + 1 /\ queue'[j].line = queue[j + 1].line
          BY <1>2, <1>5
        <4>2. CASE i = m
          BY <3>1, <3>2, <4>1, <4>2 DEF Path!AcceptedIsHandled
        <4>3. CASE i # m
          <5>1. i \in DOMAIN handled /\ handled'[i] = handled[i]
            BY <1>3, <3>2, <4>3
          <5> QED
            BY <4>1, <5>1 DEF Path!AcceptedIsHandled
        <4> QED
          BY <4>2, <4>3
      <3>7. {handled'[i].line : i \in DOMAIN handled'} \cup {queue'[i].line : i \in Path!Queued'}
            = {acks[i].line : i \in Path!Accepted}
        BY <3>3, <3>4 DEF Path!AcceptedIsHandled
      <3> QED
        BY <2>1, <2>2, <3>5, <3>6, <3>7 DEF Path!AcceptedIsHandled
    <2> QED
      BY <2>3, <2>4
  <1>9. Latest'
    <2> SUFFICES ASSUME missed # 2
                 PROVE  \/ Links' = {} /\ shown' = link
                        \/ \E i \in Links' : queue'[i].state = link /\ \A j \in Links' : j <= i
      BY <1>1 DEF Latest
    <2>1. CASE Links = {} /\ shown = link
      BY <1>1, <1>5, <2>1
    <2>2. CASE \E i \in Links : queue[i].state = link /\ \A j \in Links : j <= i
      <3>1. PICK i \in Links : queue[i].state = link /\ \A j \in Links : j <= i
        BY <2>2
      <3>2. CASE i = 1
        <4>1. Links' = {}
          <5> SUFFICES ASSUME NEW j \in Links' PROVE FALSE
            OBVIOUS
          <5>1. j \in 1..n - 1 /\ j + 1 \in Links
            BY <1>5
          <5> QED
            BY <1>2, <3>1, <3>2, <5>1
        <4> QED
          BY <1>1, <1>5, <3>1, <3>2, <4>1
      <3>3. CASE i # 1
        <4>1. i - 1 \in Links' /\ queue'[i - 1].state = link
          BY <1>2, <1>5, <3>1, <3>3
        <4>2. ASSUME NEW j \in Links' PROVE j <= i - 1
          BY <1>2, <1>5, <3>1
        <4> QED
          BY <4>1, <4>2
      <3> QED
        BY <3>2, <3>3
    <2> QED
      BY <2>1, <2>2 DEF Latest
  <1>10. Told'
    <2> SUFFICES ASSUME missed = 0, NEW h \in Path!Queued'
                 PROVE  \/ shown' = "secure" /\ \A j \in Links' : h < j
                        \/ \E k \in Links' : /\ k < h /\ queue'[k].state = "secure"
                                             /\ \A j \in Links' : j <= k \/ h < j
      BY <1>1 DEF Told
    <2>1. /\ h + 1 \in Path!Queued /\ h \in 1..n - 1
          /\ \A j \in Links' : j \in 1..n - 1 /\ j + 1 \in Links
      BY <1>5
    <2>2. CASE shown = "secure" /\ \A j \in Links : h + 1 < j
      <3>1. shown' = "secure"
        BY <1>1, <1>5, <2>1, <2>2
      <3>2. \A j \in Links' : h < j
        BY <2>1, <2>2
      <3> QED
        BY <3>1, <3>2
    <2>3. CASE \E k \in Links : k < h + 1 /\ queue[k].state = "secure" /\ \A j \in Links : j <= k \/ h + 1 < j
      <3>1. PICK k \in Links : k < h + 1 /\ queue[k].state = "secure" /\ \A j \in Links : j <= k \/ h + 1 < j
        BY <2>3
      <3>2. k \in 1..n
        BY <1>5
      <3>3. CASE k = 1
        <4>1. shown' = "secure"
          BY <1>1, <1>5, <3>1, <3>3
        <4>2. \A j \in Links' : h < j
          BY <2>1, <3>1, <3>3
        <4> QED
          BY <4>1, <4>2
      <3>4. CASE k # 1
        <4>1. k - 1 \in Links' /\ k - 1 < h /\ queue'[k - 1].state = "secure"
          BY <1>2, <1>5, <2>1, <3>1, <3>2, <3>4
        <4>2. \A j \in Links' : j <= k - 1 \/ h < j
          BY <2>1, <3>1, <3>2
        <4> QED
          BY <4>1, <4>2
      <3> QED
        BY <3>3, <3>4
    <2> QED
      BY <2>1, <2>2, <2>3 DEF Told
  <1>11. Path!LinkIsShown'
    <2>1. queue' = << >> /\ missed # 2 => shown' = link
      <3>1. queue' = << >> => Links' = {}
        BY <1>2, <1>5
      <3> QED
        BY <1>1, <1>9, <3>1 DEF Latest
    <2>2. ASSUME missed = 0, NEW i \in DOMAIN handled'
          PROVE  handled'[i].during = "secure"
      <3>1. CASE queue[1].type = "link"
        BY <1>1, <2>2, <3>1 DEF Path!LinkIsShown
      <3>2. CASE queue[1].type # "link"
        <4>1. 1 \in Path!Queued
          BY <1>4, <1>5, <3>2
        <4>2. \A k \in Links : ~(k < 1)
          BY <1>5
        <4>3. shown = "secure"
          BY <2>2, <4>1, <4>2 DEF Told
        <4>4. handled' = Append(handled, [line |-> queue[1].line, during |-> shown])
          BY <1>1, <3>2
        <4> QED
          BY <1>3, <2>2, <4>3, <4>4 DEF Path!LinkIsShown
      <3> QED
        BY <3>1, <3>2
    <2> QED
      BY <1>1, <2>1, <2>2 DEF Path!LinkIsShown
  <1> QED
    BY <1>6, <1>7, <1>8, <1>9, <1>10, <1>11

(***************************************************************************)
(* The invariant, and what follows from it.                                *)
(***************************************************************************)
LEMMA InitOk == ASSUME Path!ConstantsOK PROVE Path!Init => PathInv
  <1> SUFFICES ASSUME Path!Init PROVE PathInv
    OBVIOUS
  <1> USE DEF Path!Init
  <1>1. LineMax \in Nat \ {0} /\ Depth \in Nat \ {0} /\ MaxSends \in Nat /\ MaxChanges \in Nat
    BY DEF Path!ConstantsOK
  <1>2. Typed
    <2>1. buf \in Buffers
      BY <1>1 DEF Path!Empty, Buffers
    <2>2. sent \in Seq(Lines) /\ acks \in Seq(Acks) /\ queue \in Seq(Events)
          /\ handled \in Seq(Taken) /\ Len(sent) = 0 /\ Len(queue) = 0
      OBVIOUS
    <2>3. torn \in SUBSET (1..Len(sent)) /\ pos \in Nat /\ dropping \in BOOLEAN /\ busy \in BOOLEAN
          /\ link \in States /\ shown \in States
      BY DEF States
    <2>4. changes \in 0..MaxChanges /\ missed \in 0..2 /\ Len(sent) <= MaxSends /\ Len(queue) <= Depth
      BY <1>1, <2>2
    <2> QED
      BY <2>1, <2>2, <2>3, <2>4 DEF Typed
  <1>3. Arriving /\ Framed
    BY <1>1 DEF Arriving, Framed, Path!Current, Path!Idle, Path!Empty
  <1>4. Answered
    BY DEF Answered, Path!WholeLinesAreAnswered, Path!Arrived
  <1>5. Path!AcceptedIsHandled /\ Latest /\ Told /\ Path!LinkIsShown
    BY DEF Path!AcceptedIsHandled, Path!Accepted, Path!Queued, Latest, Links, Told, Path!LinkIsShown
  <1> QED
    BY <1>2, <1>3, <1>4, <1>5 DEF PathInv

LEMMA NextOk == ASSUME Path!ConstantsOK PROVE PathInv /\ [Path!Next]_(Path!vars) => PathInv'
  <1> SUFFICES ASSUME PathInv, [Path!Next]_(Path!vars) PROVE PathInv'
    OBVIOUS
  <1>1. CASE Path!Send
    BY <1>1, SendOk
  <1>2. CASE Path!Feed
    BY <1>2, FeedOk
  <1>3. CASE Path!LinkChanges
    BY <1>3, LinkOk
  <1>4. CASE Path!UpdateChanges
    BY <1>4, UpdateOk
  <1>5. CASE Path!Receive
    BY <1>5, ReceiveOk
  <1>6. CASE UNCHANGED Path!vars
    <2>1. /\ UNCHANGED <<sent, pos, buf, dropping, torn, acks, queue, handled, link, shown, busy, changes, missed>>
      BY <1>6 DEF Path!vars, Path!feed
    <2>2. Typed' /\ Arriving' /\ Framed'
      BY <2>1 DEF PathInv, Typed, Arriving, Framed, Path!Idle, Path!Current
    <2>3. Path!Arrived' = Path!Arrived /\ \A n : Path!AcksOf(n)' = Path!AcksOf(n)
      BY <2>1 DEF Path!Arrived, Path!AcksOf, Path!Idle, Path!Current
    <2>4. Answered'
      BY <2>1, <2>3 DEF PathInv, Answered, Path!WholeLinesAreAnswered
    <2>5. Path!AcceptedIsHandled'
      <3>1. Path!Accepted' = Path!Accepted
        BY <2>1 DEF Path!Accepted
      <3> QED
        BY <2>1, <3>1, SameCommands DEF PathInv
    <2>6. Latest' /\ Told' /\ Path!LinkIsShown'
      BY <2>1 DEF PathInv, Path!Queued, Latest, Told, Links, Path!LinkIsShown
    <2> QED
      BY <2>2, <2>4, <2>5, <2>6 DEF PathInv
  <1> QED
    BY <1>1, <1>2, <1>3, <1>4, <1>5, <1>6 DEF Path!Next

\* Buffer, answers and queue fit the lines that were sent after every byte, every
\* change of the link and every event the main loop takes.
THEOREM PathInvariant == ASSUME Path!ConstantsOK PROVE Path!Spec => []PathInv
  BY InitOk, NextOk, PTL DEF Path!Spec

\* Every variable keeps its type; the buffer never holds more than a line of
\* full length and its CR, and the queue never more than its depth.
THEOREM PathTypes == ASSUME Path!ConstantsOK PROVE Path!Spec => []Path!TypeOK
  <1>1. PathInv => Path!TypeOK
    <2> SUFFICES ASSUME PathInv PROVE Path!TypeOK
      OBVIOUS
    <2>1. \A n \in DOMAIN sent : sent[n] \in Lines
      BY DEF PathInv, Typed
    <2>2. buf.len \in 0..LineMax + 1 /\ buf.cr \in BOOLEAN
      BY DEF PathInv, Typed, Buffers
    <2>3. \A i \in DOMAIN acks : acks[i].line \in DOMAIN sent /\ acks[i].ok \in BOOLEAN
      <3>1. acks \in Seq(Acks) /\ \A i \in DOMAIN acks : acks[i].line \in Path!Arrived
        BY DEF PathInv, Typed, Answered
      <3>2. \A i \in DOMAIN acks : acks[i] \in Acks
        BY <3>1
      <3> QED
        BY <3>1, <3>2 DEF Path!Arrived, Acks
    <2>4. torn \subseteq DOMAIN sent
      BY DEF PathInv, Typed
    <2> QED
      BY <2>1, <2>2, <2>3, <2>4 DEF PathInv, Typed, Arriving, Path!TypeOK, States
  <1> QED
    BY <1>1, PathInvariant, PTL

\* A line that arrives whole, fits and is JSON is answered exactly once, whatever
\* was cut off or too long before it, and no other line is answered.
THEOREM PathAnswers == ASSUME Path!ConstantsOK PROVE Path!Spec => []Path!WholeLinesAreAnswered
  <1>1. PathInv => Path!WholeLinesAreAnswered
    BY DEF PathInv, Answered
  <1> QED
    BY <1>1, PathInvariant, PTL

\* What the host was told is accepted reaches the main loop once and in order,
\* however small the queue is and however late the loop.
THEOREM PathHandles == ASSUME Path!ConstantsOK PROVE Path!Spec => []Path!AcceptedIsHandled
  <1>1. PathInv => Path!AcceptedIsHandled
    BY DEF PathInv
  <1> QED
    BY <1>1, PathInvariant, PTL

\* The main loop shows the link as it is, and takes a command only while it
\* shows it secure, unless a change of the link found the queue full.
THEOREM PathShows == ASSUME Path!ConstantsOK PROVE Path!Spec => []Path!LinkIsShown
  <1>1. PathInv => Path!LinkIsShown
    BY DEF PathInv
  <1> QED
    BY <1>1, PathInvariant, PTL

(***************************************************************************)
(* ESP-Mosaico: a gesture is followed only on the screen it was made for,  *)
(* and the camera is at rest when the screen says so, however the vision   *)
(* worker and the main loop interleave, for any numbers of pages, frames,  *)
(* attempts and stages.                                                    *)
(*                                                                         *)
(* The loop changes the screen before it tells the worker: in between a    *)
(* gesture may be made for a screen the context does not describe.  What   *)
(* saves it is that the context is brought up to date before an event is   *)
(* taken (Synced), and that its generation grows whenever it has to be     *)
(* (Apt).                                                                  *)
(***************************************************************************)
CONSTANTS Pages, Attempts, Failures, Frames, MaxAge, MaxGen, Supplies
VARIABLES screen, turn, context, events, status, w, cam

Camera == INSTANCE GestureInput WITH queue <- events, loop <- turn, Stages <- Supplies

Screens == [page : 0 .. Pages - 1, asleep : BOOLEAN, camera : BOOLEAN, blocked : BOOLEAN,
            inputs : 0 .. MaxGen]

Shows == [inputs : 0 .. MaxGen, asleep : BOOLEAN, page : 0 .. Pages - 1]

Loops == [at : {"inputs", "take"}, quiet : BOOLEAN, effect : {"None", "Wake", "Clock", "Next"},
          seen : Shows, then : Shows]

CameraEvents == [action : {"Swipe", "EnterClock"}, ctx : Camera!Contexts, age : Nat, from : Shows]

\* The queue holds one event, and so does the worker.
Boxes == {<< >>} \cup {<<e>> : e \in CameraEvents}

Workers ==
    [pc : {"poll", "start", "cleanup", "models", "read", "infer", "send"}, ctx : Camera!Contexts,
     active : BOOLEAN, rgb : BOOLEAN, fault : BOOLEAN, fatal : BOOLEAN, attempt : Nat,
     failures : Nat, warm : BOOLEAN, frames : Nat, from : Shows, event : Boxes]

Types ==
    /\ screen \in Screens /\ turn \in Loops /\ context \in Camera!Contexts
    /\ events \in Boxes /\ status \in Camera!Statuses /\ w \in Workers
    /\ cam \in [held : 0 .. Supplies, broken : BOOLEAN]
    /\ screen.inputs <= context.gen

-----------------------------------------------------------------------------
\* Before the loop takes an event, and until the next input, the context says
\* what is on the screen; an input leaves it awake.
Synced ==
    /\ turn.at = "take" \/ turn.quiet => context.asleep = screen.asleep /\ context.page = screen.page
    /\ turn.at = "inputs" /\ ~turn.quiet => ~screen.asleep

\* What was seen under the context of now is on the screen, unless the loop
\* has yet to tell that the screen is awake.
Apt(ctx, from) ==
    /\ ctx.gen <= context.gen
    /\ ctx = context =>
          /\ from.inputs = screen.inputs /\ from.page = screen.page
          /\ from.asleep = screen.asleep \/ context.asleep # screen.asleep

EventApt(q) == q # << >> => Apt(Head(q).ctx, Head(q).from)

\* The worker's copy is not from the future; the frames it has counted, and the
\* one it works on, were seen under that copy.
WorkerApt ==
    /\ w.ctx.gen <= context.gen
    /\ \/ w.frames > 0 \/ w.pc \in {"infer", "send"} \/ (w.pc = "read" /\ ~w.warm)
       => Apt(w.ctx, w.from)

\* Who holds stages knows it, and a stop that failed is never forgotten.
CameraHeld ==
    /\ cam.held > 0 => w.active \/ w.rgb \/ w.fatal
    /\ cam.broken => w.fatal
    /\ w.fatal => w.fault
    /\ w.pc # "poll" => ~w.fault
    /\ w.pc \in {"start", "cleanup", "models"} => w.rgb
    /\ status = "Off" => w.pc = "poll" /\ ~w.active /\ ~w.rgb /\ cam.held = 0

GestureInv ==
    /\ Types
    /\ Synced
    /\ EventApt(events) /\ EventApt(w.event) /\ WorkerApt
    /\ CameraHeld
    /\ Camera!ActsOnWhatWasShown

-----------------------------------------------------------------------------
\* Growing older changes nothing else of an event.
LEMMA OlderIs ==
  ASSUME Camera!ConstantsOK, NEW q \in Boxes
  PROVE  /\ Camera!Older(q) \in Boxes
         /\ Camera!Older(q) = << >> <=> q = << >>
         /\ q # << >> => Head(Camera!Older(q)).ctx = Head(q).ctx /\ Head(Camera!Older(q)).from = Head(q).from
  <1>1. CASE q = << >>
    <2>1. Camera!Older(q) = << >>
      BY <1>1 DEF Camera!Older
    <2> QED BY <1>1, <2>1 DEF Boxes
  <1>2. ASSUME NEW e \in CameraEvents, q = <<e>>
        PROVE  /\ Camera!Older(q) \in Boxes /\ Camera!Older(q) # << >> /\ q # << >>
               /\ Head(Camera!Older(q)).ctx = Head(q).ctx /\ Head(Camera!Older(q)).from = Head(q).from
    <2> DEFINE o == [e EXCEPT !.age = IF @ > MaxAge THEN @ ELSE @ + 1]
    <2>1. o \in CameraEvents /\ o.ctx = e.ctx /\ o.from = e.from
      BY <1>2 DEF CameraEvents
    <2>2. Camera!Older(q) = <<o>>
      BY <1>2 DEF Camera!Older
    <2> HIDE DEF o
    <2>3. Head(<<o>>) = o /\ <<o>> # << >> /\ Head(<<e>>) = e /\ <<e>> # << >>
      OBVIOUS
    <2> QED BY <1>2, <2>1, <2>2, <2>3 DEF Boxes
  <1> QED BY <1>1, <1>2 DEF Boxes

\* An event in a box is an event.
LEMMA Inside ==
  ASSUME NEW q \in Boxes, q # << >>
  PROVE  Head(q) \in CameraEvents /\ q = <<Head(q)>>
  BY DEF Boxes

\* The numbers the steps count with.
LEMMA Numbers ==
  ASSUME Camera!ConstantsOK, Types
  PROVE  /\ MaxGen \in Nat /\ Pages \in Nat \ {0} /\ Supplies \in Nat /\ Frames \in Nat
         /\ context.gen \in Nat /\ context.gen <= MaxGen
         /\ screen.inputs \in Nat /\ screen.inputs <= context.gen
         /\ screen.page \in 0 .. Pages - 1
         /\ cam.held \in 0 .. Supplies
  <1>1. MaxGen \in Nat /\ Pages \in Nat \ {0} /\ Supplies \in Nat /\ Frames \in Nat
    BY DEF Camera!ConstantsOK
  <1> QED BY <1>1 DEF Types, Camera!Contexts, Screens

\* The first state satisfies the invariant.
LEMMA GestureStarts == ASSUME Camera!ConstantsOK PROVE Camera!Init => GestureInv
  <1> SUFFICES ASSUME Camera!Init PROVE GestureInv
    OBVIOUS
  <1>1. /\ Pages \in Nat \ {0} /\ MaxGen \in Nat /\ Supplies \in Nat
        /\ 0 \in 0 .. Pages - 1 /\ 0 \in 0 .. MaxGen /\ 0 \in 0 .. Supplies
    BY DEF Camera!ConstantsOK
  <1>2. screen \in Screens /\ context \in Camera!Contexts /\ Camera!Shown \in Shows
    BY <1>1 DEF Camera!Init, Screens, Camera!Contexts, Camera!Shown, Shows
  <1>3. turn \in Loops
    BY <1>2 DEF Camera!Init, Loops
  <1>4. w \in Workers
    BY <1>2 DEF Camera!Init, Workers, Boxes
  <1>5. Types
    BY <1>1, <1>2, <1>3, <1>4 DEF Camera!Init, Types, Boxes, Camera!Statuses
  <1> QED BY <1>2, <1>5 DEF Camera!Init, GestureInv, Synced, EventApt, WorkerApt, CameraHeld, Camera!ActsOnWhatWasShown

-----------------------------------------------------------------------------
\* What the loop does to the context makes what was seen before count no more.
LEMMA OutdatedWorker ==
  ASSUME Types, EventApt(w.event), WorkerApt,
         context' \in Camera!Contexts, context'.gen > context.gen, w' = w
  PROVE  EventApt(w.event)' /\ WorkerApt'
  <1>1. context.gen \in Nat /\ context'.gen \in Nat /\ w.ctx.gen \in Nat
    BY DEF Types, Camera!Contexts, Workers
  <1>2. ASSUME NEW c, c.gen \in Nat, c.gen <= context.gen
        PROVE  c.gen <= context'.gen /\ c # context'
    BY <1>1, <1>2
  <1>3. w.event \in Boxes /\ (w.event # << >> => Head(w.event).ctx.gen \in Nat)
    BY Inside DEF CameraEvents, Camera!Contexts, Types, Workers
  <1>4. EventApt(w.event)'
    BY <1>2, <1>3 DEF EventApt, Apt
  <1>5. WorkerApt'
    BY <1>1, <1>2 DEF WorkerApt, Apt
  <1> QED BY <1>4, <1>5

\* The same of an event in the queue.
LEMMA Outdated ==
  ASSUME Types, EventApt(events), EventApt(w.event), WorkerApt,
         context' \in Camera!Contexts, context'.gen > context.gen, events' = events, w' = w
  PROVE  EventApt(events)' /\ EventApt(w.event)' /\ WorkerApt'
  <1>1. context.gen \in Nat /\ context'.gen \in Nat
    BY DEF Types, Camera!Contexts
  <1>2. events # << >> => Head(events).ctx.gen \in Nat
    BY Inside DEF CameraEvents, Camera!Contexts, Types
  <1>3. EventApt(events)'
    BY <1>1, <1>2 DEF EventApt, Apt
  <1> QED BY <1>3, OutdatedWorker

\* An input cancels what is being recognised.
LEMMA InputKeeps == ASSUME Camera!ConstantsOK, GestureInv, Camera!Input PROVE GestureInv'
  <1> USE DEF GestureInv
  <1>1. PICK p \in {screen.page, Camera!NextPage(screen.page)} :
          screen' = [screen EXCEPT !.asleep = FALSE, !.inputs = @ + 1,
                                   !.page = IF screen.asleep \/ screen.blocked THEN @ ELSE p]
    BY DEF Camera!Input
  <1>2. p \in 0 .. Pages - 1
    BY Numbers DEF Camera!NextPage
  <1>3. context'.gen = context.gen + 1 /\ context' \in Camera!Contexts
    <2>1. context.gen + 1 \in 0 .. MaxGen
      BY Numbers DEF Camera!Input
    <2> QED BY <2>1 DEF Camera!Input, Camera!Invalidated, Types, Camera!Contexts
  <1>4. screen' \in Screens /\ ~screen'.asleep /\ screen'.inputs <= context'.gen
    <2>1. screen.inputs + 1 \in 0 .. MaxGen /\ screen.inputs + 1 <= context'.gen
      BY <1>3, Numbers DEF Camera!Input
    <2> QED BY <1>1, <1>2, <2>1 DEF Types, Screens
  <1>5. /\ turn' \in Loops /\ turn'.at = "inputs" /\ ~turn'.quiet
        /\ turn'.effect = turn.effect /\ turn'.seen = turn.seen /\ turn'.then = turn.then
    BY DEF Camera!Input, Types, Loops
  <1>6. Types'
    BY <1>3, <1>4, <1>5 DEF Camera!Input, Types
  <1>7. context'.gen > context.gen
    BY <1>3 DEF Types, Camera!Contexts
  <1>8. EventApt(events)' /\ EventApt(w.event)' /\ WorkerApt'
    BY <1>3, <1>7, Outdated DEF Camera!Input
  <1> QED BY <1>4, <1>5, <1>6, <1>8 DEF Camera!Input, Synced, CameraHeld, Camera!ActsOnWhatWasShown

\* The screen is taken for something else: the context does not know yet.
LEMMA ProtectKeeps == ASSUME Camera!ConstantsOK, GestureInv, Camera!Protect PROVE GestureInv'
  <1> USE DEF GestureInv
  <1>1. PICK camera \in BOOLEAN :
          screen' = [screen EXCEPT !.blocked = ~@, !.asleep = FALSE, !.camera = camera]
    BY DEF Camera!Protect, Types, Screens
  <1>2. /\ screen' \in Screens /\ ~screen'.asleep
        /\ screen'.inputs = screen.inputs /\ screen'.page = screen.page
    BY <1>1 DEF Types, Screens
  <1>3. /\ turn' \in Loops /\ turn'.at = "inputs" /\ ~turn'.quiet /\ turn.at = "inputs"
        /\ turn'.effect = turn.effect /\ turn'.seen = turn.seen /\ turn'.then = turn.then
    BY DEF Camera!Protect, Types, Loops
  <1>4. Types'
    BY <1>2, <1>3 DEF Camera!Protect, Types
  <1>5. screen.asleep => context.asleep
    BY <1>3 DEF Synced, Types, Screens, Camera!Contexts
  <1>6. ASSUME NEW c, NEW f \in Shows, Apt(c, f) PROVE Apt(c, f)'
    <2>1. context' = context
      BY DEF Camera!Protect
    <2>2. c = context => (f.asleep <=> screen'.asleep) \/ ~(context.asleep <=> screen'.asleep)
      BY <1>2, <1>5, <1>6 DEF Apt, Types, Screens, Camera!Contexts, Shows
    <2>3. f.asleep \in BOOLEAN /\ screen'.asleep \in BOOLEAN /\ context.asleep \in BOOLEAN
      BY <1>2 DEF Types, Screens, Camera!Contexts, Shows
    <2> QED BY <1>2, <1>6, <2>1, <2>2, <2>3 DEF Apt
  <1>7. EventApt(events)' /\ EventApt(w.event)' /\ WorkerApt'
    <2>1. events' = events /\ w' = w /\ context' = context
      BY DEF Camera!Protect
    <2>2. \A q \in Boxes : q # << >> => Head(q).from \in Shows
      BY Inside DEF CameraEvents
    <2>3. events \in Boxes /\ w.event \in Boxes /\ w.from \in Shows
      BY DEF Types, Workers
    <2> QED BY <1>6, <2>1, <2>2, <2>3 DEF EventApt, WorkerApt
  <1> QED BY <1>2, <1>3, <1>4, <1>7 DEF Camera!Protect, Synced, CameraHeld, Camera!ActsOnWhatWasShown

\* The context is brought up to date: what was seen on another screen is
\* outdated, and what still counts was seen on this one.
LEMMA ConfigureKeeps == ASSUME Camera!ConstantsOK, GestureInv, Camera!Configure PROVE GestureInv'
  <1> USE DEF GestureInv
  <1>1. PICK idle \in BOOLEAN :
          screen' = [screen EXCEPT !.asleep = @ \/ (idle /\ turn.quiet /\ ~screen.blocked)]
    BY DEF Camera!Configure
  <1>2. /\ screen' \in Screens
        /\ screen'.inputs = screen.inputs /\ screen'.page = screen.page
        /\ screen'.asleep => screen.asleep \/ turn.quiet
        /\ screen.asleep => screen'.asleep
    BY <1>1 DEF Types, Screens, Loops
  <1>3. /\ turn' \in Loops /\ turn'.at = "take" /\ turn'.effect = "None" /\ turn.at = "inputs"
    BY DEF Camera!Configure, Types, Loops
  <1>4. \/ /\ context' \in Camera!Contexts /\ context'.gen = context.gen + 1
           /\ context'.asleep = screen'.asleep /\ context'.page = screen'.page
        \/ /\ context' = context
           /\ context.asleep = screen'.asleep /\ context.page = screen'.page
    BY <1>2 DEF Camera!ConstantsOK, Camera!Configure, Camera!Configured, Types, Screens, Camera!Contexts
  <1>5. context.gen <= context'.gen /\ context' \in Camera!Contexts
    BY <1>4, Numbers DEF Types
  <1>6. Types'
    <2>1. screen'.inputs <= context'.gen
      BY <1>2, <1>4, Numbers
    <2> QED BY <1>2, <1>3, <1>5, <2>1 DEF Camera!Configure, Types
  <1>7. EventApt(events)' /\ EventApt(w.event)' /\ WorkerApt'
    <2>1. CASE context'.gen = context.gen + 1
      <3>1. context'.gen > context.gen
        BY <2>1, Numbers
      <3> QED BY <1>5, <3>1, Outdated DEF Camera!Configure
    <2>2. CASE context' = context /\ context.asleep = screen'.asleep
      <3>1. screen'.asleep = screen.asleep
        BY <1>2, <1>3, <2>2 DEF Synced, Types, Screens, Camera!Contexts
      <3>2. events' = events /\ w' = w
        BY DEF Camera!Configure
      <3> QED BY <1>2, <2>2, <3>1, <3>2 DEF EventApt, WorkerApt, Apt
    <2> QED BY <1>4, <2>1, <2>2
  <1> QED BY <1>2, <1>3, <1>4, <1>6, <1>7 DEF Camera!Configure, Synced, CameraHeld, Camera!ActsOnWhatWasShown

\* An event that still counts was seen on this screen; what follows it is
\* told to the worker at once.
LEMMA TakeKeeps == ASSUME Camera!ConstantsOK, GestureInv, Camera!Take PROVE GestureInv'
  <1> USE DEF GestureInv
  <1> DEFINE e  == Head(events)
             do == IF Camera!Accepts(e) /\ Camera!Allowed THEN Camera!Effect(e.action, screen.asleep) ELSE "None"
  <1>1. /\ screen' = CASE do = "Wake"  -> [screen EXCEPT !.asleep = FALSE]
                       [] do = "Clock" -> [screen EXCEPT !.asleep = TRUE]
                       [] do = "Next"  -> [screen EXCEPT !.page = Camera!NextPage(@)]
                       [] OTHER        -> screen
        /\ context' = IF do = "None" THEN context ELSE Camera!Configured(context, TRUE)
        /\ turn' = [at |-> "inputs", quiet |-> TRUE, effect |-> do, seen |-> e.from, then |-> Camera!Shown]
        /\ do # "None" => context.gen < MaxGen
        /\ events' = << >> /\ events # << >> /\ turn.at = "take"
        /\ UNCHANGED <<status, w, cam>>
    BY DEF Camera!Take
  <1>2. e \in CameraEvents /\ do \in {"None", "Wake", "Clock", "Next"}
    BY <1>1, Inside DEF Types, Camera!Effect
  <1>3. do # "None" => e.ctx = context
    BY DEF Camera!Accepts
  <1>4. Apt(e.ctx, e.from)
    BY <1>1 DEF EventApt
  <1> HIDE DEF e, do
  <1>5. Camera!Shown \in Shows
    BY DEF Camera!Shown, Types, Screens, Shows
  <1>6. turn' \in Loops
    BY <1>1, <1>2, <1>5 DEF Loops, CameraEvents
  <1>7. Camera!NextPage(screen.page) \in 0 .. Pages - 1
    BY Numbers DEF Camera!NextPage
  <1>8. screen' \in Screens /\ screen'.inputs = screen.inputs
    BY <1>1, <1>2, <1>7 DEF Types, Screens
  <1>9. CASE do = "None"
    <2>1. screen' = screen /\ context' = context
      BY <1>1, <1>9
    <2>2. Types'
      BY <1>1, <1>6, <2>1 DEF Types, Boxes
    <2>3. Synced'
      BY <1>1, <2>1 DEF Synced
    <2>4. EventApt(events)' /\ EventApt(w.event)' /\ WorkerApt'
      BY <1>1, <2>1 DEF EventApt, WorkerApt, Apt
    <2> QED BY <1>1, <1>9, <2>2, <2>3, <2>4 DEF CameraHeld, Camera!ActsOnWhatWasShown
  <1>10. CASE do # "None"
    <2>1. context.gen + 1 \in 0 .. MaxGen
      BY <1>1, <1>10, Numbers
    <2>2. /\ context' \in Camera!Contexts /\ context'.gen = context.gen + 1
          /\ context'.asleep = screen'.asleep /\ context'.page = screen'.page
      BY <1>1, <1>8, <1>10, <2>1 DEF Camera!Configured, Camera!Contexts, Screens
    <2>3. context'.gen > context.gen /\ screen'.inputs <= context'.gen
      BY <1>8, <2>2, Numbers
    <2>4. Types'
      BY <1>1, <1>6, <1>8, <2>2, <2>3 DEF Types, Boxes
    <2>5. Synced'
      BY <1>1, <2>2 DEF Synced
    <2>6. EventApt(events)'
      BY <1>1 DEF EventApt
    <2>7. EventApt(w.event)' /\ WorkerApt'
      <3>1. w' = w
        BY <1>1
      <3> QED BY <2>2, <2>3, <3>1, OutdatedWorker
    <2>8. e.from = Camera!Shown
      <3>1. context.asleep = screen.asleep
        BY <1>1 DEF Synced
      <3>2. e.from.inputs = screen.inputs /\ e.from.page = screen.page /\ e.from.asleep = screen.asleep
        BY <1>3, <1>4, <1>10, <3>1 DEF Apt
      <3> QED BY <1>2, <3>2 DEF Camera!Shown, CameraEvents, Shows
    <2> QED BY <1>1, <2>4, <2>5, <2>6, <2>7, <2>8 DEF CameraHeld, Camera!ActsOnWhatWasShown
  <1> QED BY <1>9, <1>10

\* With no event the loop starts its next turn.
LEMMA TakeNothingKeeps == ASSUME Camera!ConstantsOK, GestureInv, Camera!TakeNothing PROVE GestureInv'
  <1> USE DEF GestureInv
  <1>1. /\ turn' \in Loops /\ turn'.at = "inputs" /\ turn'.quiet /\ turn.at = "take"
        /\ turn'.effect = turn.effect /\ turn'.seen = turn.seen /\ turn'.then = turn.then
    BY DEF Camera!TakeNothing, Types, Loops
  <1>2. UNCHANGED <<screen, context, events, status, w, cam>>
    BY DEF Camera!TakeNothing
  <1>3. Types'
    BY <1>1, <1>2 DEF Types
  <1> QED BY <1>1, <1>2, <1>3
          DEF Synced, EventApt, WorkerApt, Apt, CameraHeld, Camera!ActsOnWhatWasShown

-----------------------------------------------------------------------------
\* What the worker leaves alone keeps what was said of it.
LEMMA LoopStays ==
  ASSUME GestureInv, UNCHANGED <<screen, turn, context>>,
         w' \in Workers, events' \in Boxes, status' \in Camera!Statuses,
         cam' \in [held : 0 .. Supplies, broken : BOOLEAN]
  PROVE  Types' /\ Synced' /\ Camera!ActsOnWhatWasShown'
  BY DEF GestureInv, Types, Synced, Camera!ActsOnWhatWasShown

\* The copy the worker takes at the top of its loop.
LEMMA LoadedIs ==
  ASSUME Camera!ConstantsOK, GestureInv
  PROVE  /\ Camera!Loaded \in Workers /\ Camera!Loaded.ctx = context
         /\ Camera!Loaded.pc = w.pc /\ Camera!Loaded.from = w.from /\ Camera!Loaded.event = w.event
         /\ (Camera!Loaded.active <=> w.active) /\ (Camera!Loaded.rgb <=> w.rgb)
         /\ (Camera!Loaded.fatal <=> w.fatal) /\ (Camera!Loaded.fault <=> w.fault)
         /\ Camera!Loaded.frames > 0 => Apt(context, w.from)
  <1>1. w \in Workers /\ context \in Camera!Contexts
    BY DEF GestureInv, Types
  <1>2. Camera!Loaded \in Workers /\ Camera!Loaded.ctx = context
    BY <1>1 DEF Camera!Loaded, Workers
  <1>3. /\ Camera!Loaded.pc = w.pc /\ Camera!Loaded.from = w.from /\ Camera!Loaded.event = w.event
        /\ (Camera!Loaded.active <=> w.active) /\ (Camera!Loaded.rgb <=> w.rgb)
        /\ (Camera!Loaded.fatal <=> w.fatal) /\ (Camera!Loaded.fault <=> w.fault)
    BY <1>1 DEF Camera!Loaded, Workers
  <1>4. Camera!Loaded.frames > 0 => w.ctx = context /\ w.frames > 0
    BY <1>1 DEF Camera!Loaded, Camera!Changes, Workers
  <1> QED BY <1>2, <1>3, <1>4 DEF GestureInv, WorkerApt

\* Not wanted: the camera is stopped, and a stop that fails is remembered.
LEMMA PollIdleKeeps == ASSUME Camera!ConstantsOK, GestureInv, Camera!PollIdle PROVE GestureInv'
  <1> USE DEF GestureInv
  <1> DEFINE stops == Camera!HoldsCamera(Camera!Loaded)
  <1>1. PICK left \in IF stops THEN 0 .. cam.held ELSE {cam.held} :
          LET s == IF stops
                   THEN [Camera!Loaded EXCEPT !.active = FALSE, !.rgb = FALSE, !.fatal = @ \/ left > 0,
                                       !.fault = @ \/ left > 0]
                   ELSE Camera!Loaded
          IN  /\ IF stops THEN Camera!Stop(left) ELSE UNCHANGED cam
              /\ w' = IF Camera!ClearsFault(s) THEN [s EXCEPT !.fault = FALSE, !.fatal = FALSE] ELSE s
              /\ status' = CASE Camera!ClearsFault(s)                         -> "Off"
                             [] ~Camera!ClearsFault(s) /\ s.fatal             -> "Fault"
                             [] ~Camera!ClearsFault(s) /\ ~s.fatal /\ ~s.fault -> "Paused"
                             [] OTHER                                  -> status
    BY DEF Camera!PollIdle
  <1> DEFINE s == IF stops
                  THEN [Camera!Loaded EXCEPT !.active = FALSE, !.rgb = FALSE, !.fatal = @ \/ left > 0,
                                      !.fault = @ \/ left > 0]
                  ELSE Camera!Loaded
  <1>2. /\ IF stops THEN Camera!Stop(left) ELSE UNCHANGED cam
        /\ w' = IF Camera!ClearsFault(s) THEN [s EXCEPT !.fault = FALSE, !.fatal = FALSE] ELSE s
        /\ status' = CASE Camera!ClearsFault(s)                         -> "Off"
                       [] ~Camera!ClearsFault(s) /\ s.fatal             -> "Fault"
                       [] ~Camera!ClearsFault(s) /\ ~s.fatal /\ ~s.fault -> "Paused"
                       [] OTHER                                  -> status
        /\ UNCHANGED <<screen, turn, context, events>>
    BY <1>1 DEF Camera!PollIdle
  <1>3. Camera!Loaded \in Workers /\ Camera!Loaded.ctx = context /\ w.pc = "poll"
        /\ Camera!Loaded.pc = "poll" /\ Camera!Loaded.from = w.from /\ Camera!Loaded.event = w.event
        /\ (Camera!Loaded.active <=> w.active) /\ (Camera!Loaded.rgb <=> w.rgb)
        /\ (Camera!Loaded.fatal <=> w.fatal) /\ (Camera!Loaded.fault <=> w.fault)
    BY LoadedIs DEF Camera!PollIdle
  <1>4. left \in 0 .. Supplies /\ left \in 0 .. cam.held
    BY <1>1, Numbers
  <1>5. /\ s \in Workers /\ s.ctx = context /\ s.pc = "poll" /\ s.from = w.from /\ s.event = w.event
        /\ s.frames = Camera!Loaded.frames
        /\ s.active <=> w.active /\ ~stops
        /\ s.rgb <=> w.rgb /\ ~stops
        /\ s.fatal <=> w.fatal \/ (stops /\ left > 0)
        /\ s.fault <=> w.fault \/ (stops /\ left > 0)
    BY <1>3, <1>4 DEF Workers
  <1>6. stops <=> w.active \/ w.rgb
    BY <1>3 DEF Camera!HoldsCamera
  <1>7. cam' \in [held : 0 .. Supplies, broken : BOOLEAN]
        /\ (cam'.held = IF stops THEN left ELSE cam.held)
        /\ (cam'.broken <=> cam.broken \/ (stops /\ left > 0))
    <2>1. CASE stops
      <3> DEFINE b == cam.broken \/ left > 0
      <3>1. cam' = [held |-> left, broken |-> b]
        BY <1>2, <2>1 DEF Camera!Stop
      <3>2. b \in BOOLEAN
        OBVIOUS
      <3> HIDE DEF b
      <3>3. cam' \in [held : 0 .. Supplies, broken : BOOLEAN] /\ cam'.held = left /\ cam'.broken = b
        BY <1>4, <3>1, <3>2
      <3> QED BY <2>1, <3>3 DEF b
    <2>2. CASE ~stops
      <3>1. cam' = cam
        BY <1>2, <2>2
      <3> QED BY <2>2, <3>1 DEF Types
    <2> QED BY <2>1, <2>2
  <1> HIDE DEF s, stops
  <1>8. /\ w' \in Workers /\ w'.ctx = context /\ w'.pc = "poll" /\ w'.from = w.from /\ w'.event = w.event
        /\ w'.frames = Camera!Loaded.frames
        /\ w'.active <=> s.active
        /\ w'.rgb <=> s.rgb
        /\ w'.fatal <=> s.fatal /\ ~Camera!ClearsFault(s)
        /\ w'.fault <=> s.fault /\ ~Camera!ClearsFault(s)
    BY <1>2, <1>5 DEF Workers
  <1>9. status' \in Camera!Statuses
    BY <1>2 DEF Types, Camera!Statuses
  <1>10. Types' /\ Synced' /\ Camera!ActsOnWhatWasShown'
    BY <1>2, <1>7, <1>8, <1>9, LoopStays DEF Types
  <1>11. EventApt(events)' /\ EventApt(w.event)' /\ WorkerApt'
    <2>1. events' = events /\ context' = context /\ screen' = screen
      BY <1>2
    <2>2. EventApt(events)' /\ EventApt(w.event)'
      BY <1>8, <2>1 DEF EventApt, Apt
    <2>3. Camera!Loaded.frames > 0 => Apt(context, w.from)
      BY LoadedIs
    <2>4. w'.frames > 0 => Apt(w.ctx, w.from)'
      BY <1>8, <2>1, <2>3 DEF Apt
    <2>5. w'.ctx.gen <= context'.gen
      BY <1>8, <2>1, Numbers
    <2> QED BY <1>8, <2>2, <2>4, <2>5 DEF WorkerApt
  <1>12. CameraHeld'
    <2>1. cam.held \in Nat /\ left \in Nat
      BY <1>4, Numbers
    <2>2. CASE Camera!ClearsFault(s)
      <3>1. ~s.fatal
        BY <2>2 DEF Camera!ClearsFault
      <3>2. cam'.held = 0 /\ ~cam'.broken
        BY <1>5, <1>6, <1>7, <2>1, <3>1 DEF CameraHeld
      <3>3. ~w'.active /\ ~w'.rgb
        BY <1>5, <1>6, <1>8
      <3> QED BY <1>8, <2>2, <3>2, <3>3 DEF CameraHeld
    <2>3. CASE ~Camera!ClearsFault(s)
      <3>1. status' = "Off" => status = "Off"
        BY <1>2, <2>3
      <3>2. status = "Off" => ~stops /\ cam.held = 0
        BY <1>6 DEF CameraHeld
      <3> QED BY <1>5, <1>6, <1>7, <1>8, <2>1, <2>3, <3>1, <3>2 DEF CameraHeld
    <2> QED BY <2>2, <2>3
  <1> QED BY <1>10, <1>11, <1>12

\* Wanted and not yet running: memory, and the first attempt.
LEMMA PollStartKeeps == ASSUME Camera!ConstantsOK, GestureInv, Camera!PollStart PROVE GestureInv'
  <1> USE DEF GestureInv
  <1>1. UNCHANGED <<screen, turn, context, events, cam>> /\ w.pc = "poll" /\ ~w.active
    BY DEF Camera!PollStart
  <1>2. /\ Camera!Loaded \in Workers /\ Camera!Loaded.ctx = context /\ ~Camera!Loaded.fault
        /\ Camera!Loaded.pc = "poll" /\ Camera!Loaded.from = w.from /\ Camera!Loaded.event = w.event
        /\ (Camera!Loaded.active <=> w.active) /\ (Camera!Loaded.rgb <=> w.rgb)
        /\ (Camera!Loaded.fatal <=> w.fatal) /\ (Camera!Loaded.fault <=> w.fault)
    BY <1>1, LoadedIs DEF Camera!PollStart, Camera!IsIdle
  <1>3. \/ w' = [Camera!Loaded EXCEPT !.pc = "start", !.rgb = TRUE, !.attempt = 1] /\ status' = "Starting"
        \/ w' = [Camera!Loaded EXCEPT !.fault = TRUE] /\ status' = "MemoryError"
    BY DEF Camera!PollStart
  <1>4. /\ w' \in Workers /\ w'.ctx = context /\ w'.from = w.from /\ w'.event = w.event
        /\ w'.frames = Camera!Loaded.frames
        /\ (w'.active <=> w.active) /\ (w'.fatal <=> w.fatal)
        /\ \/ w'.pc = "start" /\ w'.rgb /\ ~w'.fault
           \/ w'.pc = "poll" /\ (w'.rgb <=> w.rgb) /\ w'.fault
    <2>1. CASE w' = [Camera!Loaded EXCEPT !.pc = "start", !.rgb = TRUE, !.attempt = 1]
      BY <1>2, <2>1 DEF Workers
    <2>2. CASE w' = [Camera!Loaded EXCEPT !.fault = TRUE]
      BY <1>2, <2>2 DEF Workers
    <2> QED BY <1>3, <2>1, <2>2
  <1>5. status' \in Camera!Statuses /\ status' # "Off"
    BY <1>3 DEF Camera!Statuses
  <1>6. Types' /\ Synced' /\ Camera!ActsOnWhatWasShown'
    BY <1>1, <1>4, <1>5, LoopStays DEF Types
  <1>7. EventApt(events)' /\ EventApt(w.event)' /\ WorkerApt'
    <2>1. EventApt(events)' /\ EventApt(w.event)'
      BY <1>1, <1>4 DEF EventApt, Apt
    <2>2. w'.frames > 0 => Apt(w.ctx, w.from)'
      BY <1>1, <1>4, LoadedIs DEF Apt
    <2>3. w'.ctx.gen <= context'.gen
      BY <1>1, <1>4, Numbers
    <2> QED BY <1>4, <2>1, <2>2, <2>3 DEF WorkerApt
  <1>8. CameraHeld'
    BY <1>1, <1>2, <1>4, <1>5 DEF CameraHeld
  <1> QED BY <1>6, <1>7, <1>8

\* Capture goes on: a gesture that begins is for what is shown now.
LEMMA PollReadKeeps == ASSUME Camera!ConstantsOK, GestureInv, Camera!PollRead PROVE GestureInv'
  <1> USE DEF GestureInv
  <1>1. UNCHANGED <<screen, turn, context, events, status, cam>> /\ w.pc = "poll" /\ w.active
    BY DEF Camera!PollRead
  <1>2. /\ Camera!Loaded \in Workers /\ Camera!Loaded.ctx = context /\ ~Camera!Loaded.fault
        /\ Camera!Loaded.from = w.from /\ Camera!Loaded.event = w.event
        /\ (Camera!Loaded.active <=> w.active) /\ (Camera!Loaded.rgb <=> w.rgb)
        /\ (Camera!Loaded.fatal <=> w.fatal) /\ (Camera!Loaded.fault <=> w.fault)
    BY LoadedIs DEF Camera!PollRead, Camera!IsIdle
  <1>3. Camera!Shown \in Shows
    BY DEF Camera!Shown, Types, Screens, Shows
  <1> DEFINE f == IF Camera!Loaded.frames = 0 THEN Camera!Shown ELSE Camera!Loaded.from
  <1>4. w' = [Camera!Loaded EXCEPT !.pc = "read", !.from = f]
    BY DEF Camera!PollRead
  <1>5. f \in Shows /\ Apt(context, f)
    <2>1. Apt(context, Camera!Shown)
      BY Numbers DEF Apt, Camera!Shown
    <2>2. Camera!Loaded.frames \in Nat
      BY <1>2 DEF Workers
    <2> QED BY <1>2, <1>3, <2>1, <2>2, LoadedIs DEF Workers
  <1> HIDE DEF f
  <1>6. /\ w' \in Workers /\ w'.ctx = context /\ w'.from = f /\ w'.event = w.event
        /\ w'.pc = "read" /\ (w'.active <=> w.active) /\ (w'.rgb <=> w.rgb)
        /\ (w'.fatal <=> w.fatal) /\ (w'.fault <=> w.fault)
    BY <1>2, <1>4, <1>5 DEF Workers
  <1>7. Types' /\ Synced' /\ Camera!ActsOnWhatWasShown'
    BY <1>1, <1>6, LoopStays DEF Types
  <1>8. EventApt(events)' /\ EventApt(w.event)' /\ WorkerApt'
    <2>1. EventApt(events)' /\ EventApt(w.event)'
      BY <1>1, <1>6 DEF EventApt, Apt
    <2>2. Apt(w.ctx, w.from)'
      BY <1>1, <1>5, <1>6 DEF Apt
    <2>3. w'.ctx.gen <= context'.gen
      BY <1>1, <1>6, Numbers
    <2> QED BY <2>1, <2>2, <2>3 DEF WorkerApt
  <1>9. CameraHeld'
    BY <1>1, <1>2, <1>6 DEF CameraHeld
  <1> QED BY <1>7, <1>8, <1>9

-----------------------------------------------------------------------------
\* A step that leaves the copy, the frames and the event of the worker.
LEMMA SameAptness ==
  ASSUME GestureInv, UNCHANGED <<screen, context, events>>,
         w'.ctx = w.ctx, w'.from = w.from, w'.event = w.event,
         w'.frames = 0 \/ w'.frames = w.frames,
         w'.pc \in {"infer", "send"} \/ (w'.pc = "read" /\ ~w'.warm) => w.pc = "read" /\ ~w.warm
  PROVE  EventApt(events)' /\ EventApt(w.event)' /\ WorkerApt'
  <1>1. EventApt(events)' /\ EventApt(w.event)'
    BY DEF GestureInv, EventApt, Apt
  <1>2. w'.frames > 0 => w.frames > 0
    OBVIOUS
  <1>3. Apt(w.ctx, w.from) => Apt(w.ctx, w.from)'
    BY DEF Apt
  <1> QED BY <1>1, <1>2, <1>3 DEF GestureInv, WorkerApt

\* start() takes stages only when it holds none, and the worker knows it may.
LEMMA StartCameraKeeps == ASSUME Camera!ConstantsOK, GestureInv, Camera!StartCamera PROVE GestureInv'
  <1> USE DEF GestureInv
  <1>1. PICK n \in 0 .. Supplies, ok \in BOOLEAN :
          /\ cam' = [cam EXCEPT !.held = n]
          /\ w' = [w EXCEPT !.pc = IF ok THEN "models" ELSE "cleanup"]
    BY DEF Camera!StartCamera
  <1>2. UNCHANGED <<screen, turn, context, events, status>> /\ w.pc = "start"
    BY DEF Camera!StartCamera
  <1>3. cam' \in [held : 0 .. Supplies, broken : BOOLEAN] /\ (cam'.broken <=> cam.broken)
    BY <1>1 DEF Types
  <1>4. /\ w' \in Workers /\ w' = [w EXCEPT !.pc = w'.pc] /\ w'.pc \in {"models", "cleanup"}
        /\ w'.ctx = w.ctx /\ w'.from = w.from /\ w'.event = w.event /\ w'.frames = w.frames
        /\ (w'.rgb <=> w.rgb) /\ (w'.fatal <=> w.fatal) /\ (w'.fault <=> w.fault)
    BY <1>1 DEF Types, Workers
  <1>5. Types' /\ Synced' /\ Camera!ActsOnWhatWasShown'
    BY <1>2, <1>3, <1>4, LoopStays DEF Types
  <1>6. EventApt(events)' /\ EventApt(w.event)' /\ WorkerApt'
    BY <1>2, <1>4, SameAptness
  <1>7. CameraHeld'
    BY <1>2, <1>3, <1>4 DEF CameraHeld
  <1> QED BY <1>5, <1>6, <1>7

\* A failed start is undone; when that fails too, the camera is given up.
LEMMA CleanUpKeeps == ASSUME Camera!ConstantsOK, GestureInv, Camera!CleanUp PROVE GestureInv'
  <1> USE DEF GestureInv
  <1>1. PICK left \in 0 .. cam.held :
          /\ Camera!Stop(left)
          /\ \/ /\ left = 0
                /\ w' = [w EXCEPT !.pc = "start", !.attempt = @ + 1] /\ status' = status
             \/ /\ w' = [w EXCEPT !.pc = "poll", !.fault = TRUE, !.fatal = @ \/ left > 0]
                /\ status' = IF w'.fatal THEN "Fault" ELSE "CameraError"
    BY DEF Camera!CleanUp
  <1>2. UNCHANGED <<screen, turn, context, events>> /\ w.pc = "cleanup"
    BY DEF Camera!CleanUp
  <1> DEFINE b == cam.broken \/ left > 0
             t == w.fatal \/ left > 0
  <1>3. b \in BOOLEAN /\ t \in BOOLEAN /\ left \in 0 .. Supplies
    BY Numbers
  <1>4. cam' = [held |-> left, broken |-> b]
    BY <1>1 DEF Camera!Stop
  <1>5. cam' \in [held : 0 .. Supplies, broken : BOOLEAN] /\ cam'.held = left /\ cam'.broken = b
    BY <1>3, <1>4
  <1>6. \/ /\ left = 0 /\ status' = status
           /\ w' = [w EXCEPT !.pc = "start", !.attempt = @ + 1]
        \/ /\ status' \in Camera!Statuses \ {"Off"}
           /\ w' = [w EXCEPT !.pc = "poll", !.fault = TRUE, !.fatal = t]
    BY <1>1 DEF Camera!Statuses
  <1> HIDE DEF t
  <1>7. /\ w' \in Workers
        /\ w'.ctx = w.ctx /\ w'.from = w.from /\ w'.event = w.event /\ w'.frames = w.frames
        /\ (w'.rgb <=> w.rgb) /\ w'.pc \in {"start", "poll"}
        /\ \/ /\ left = 0 /\ status' = status /\ w'.pc = "start"
              /\ (w'.fatal <=> w.fatal) /\ (w'.fault <=> w.fault)
           \/ /\ status' \in Camera!Statuses \ {"Off"} /\ w'.pc = "poll" /\ w'.fault /\ (w'.fatal <=> t)
    <2>1. CASE left = 0 /\ status' = status /\ w' = [w EXCEPT !.pc = "start", !.attempt = @ + 1]
      <3> DEFINE k == w.attempt + 1
      <3>1. k \in Nat
        BY DEF Types, Workers
      <3>2. w' = [w EXCEPT !.pc = "start", !.attempt = k]
        BY <2>1
      <3> HIDE DEF k
      <3> QED BY <2>1, <3>1, <3>2 DEF Types, Workers
    <2>2. CASE status' \in Camera!Statuses \ {"Off"}
               /\ w' = [w EXCEPT !.pc = "poll", !.fault = TRUE, !.fatal = t]
      BY <1>3, <2>2 DEF Types, Workers
    <2> QED BY <1>6, <2>1, <2>2
  <1>8. Types' /\ Synced' /\ Camera!ActsOnWhatWasShown'
    BY <1>2, <1>5, <1>7, LoopStays DEF Types
  <1>9. EventApt(events)' /\ EventApt(w.event)' /\ WorkerApt'
    BY <1>2, <1>7, SameAptness
  <1>10. CameraHeld'
    BY <1>2, <1>3, <1>5, <1>7 DEF CameraHeld, b, t
  <1> QED BY <1>8, <1>9, <1>10

\* The models are loaded and capture begins, or there is no memory for them.
LEMMA LoadModelsKeeps == ASSUME Camera!ConstantsOK, GestureInv, Camera!LoadModels PROVE GestureInv'
  <1> USE DEF GestureInv
  <1>1. UNCHANGED <<screen, turn, context, events, cam>> /\ w.pc = "models"
    BY DEF Camera!LoadModels
  <1>2. \/ /\ w' = [w EXCEPT !.pc = "read", !.active = TRUE, !.failures = 0, !.warm = TRUE, !.frames = 0]
           /\ status' = "Ready"
        \/ w' = [w EXCEPT !.pc = "poll", !.fault = TRUE] /\ status' = "MemoryError"
    BY DEF Camera!LoadModels
  <1>3. /\ w' \in Workers /\ w'.ctx = w.ctx /\ w'.from = w.from /\ w'.event = w.event
        /\ (w'.rgb <=> w.rgb) /\ (w'.fatal <=> w.fatal)
        /\ \/ w'.pc = "read" /\ w'.warm /\ w'.frames = 0 /\ (w'.fault <=> w.fault)
           \/ w'.pc = "poll" /\ w'.frames = w.frames /\ w'.fault
    <2>1. CASE w' = [w EXCEPT !.pc = "read", !.active = TRUE, !.failures = 0, !.warm = TRUE,
                              !.frames = 0]
      BY <2>1 DEF Types, Workers
    <2>2. CASE w' = [w EXCEPT !.pc = "poll", !.fault = TRUE]
      BY <2>2 DEF Types, Workers
    <2> QED BY <1>2, <2>1, <2>2
  <1>4. status' \in Camera!Statuses /\ status' # "Off"
    BY <1>2 DEF Camera!Statuses
  <1>5. Types' /\ Synced' /\ Camera!ActsOnWhatWasShown'
    BY <1>1, <1>3, <1>4, LoopStays DEF Types
  <1>6. EventApt(events)' /\ EventApt(w.event)' /\ WorkerApt'
    BY <1>1, <1>3, SameAptness
  <1>7. CameraHeld'
    BY <1>1, <1>3, <1>4 DEF CameraHeld
  <1> QED BY <1>5, <1>6, <1>7

\* A frame that cannot be read starts the gesture anew.
LEMMA ReadFailsKeeps == ASSUME Camera!ConstantsOK, GestureInv, Camera!ReadFails PROVE GestureInv'
  <1> USE DEF GestureInv
  <1>1. UNCHANGED <<screen, turn, context, events, cam>> /\ w.pc = "read"
    BY DEF Camera!ReadFails
  <1> DEFINE dead == w.failures + 1 >= Failures
             n == w.failures + 1
  <1>2. /\ w' = [w EXCEPT !.pc = "poll", !.frames = 0, !.failures = n, !.fault = dead]
        /\ status' = IF dead THEN "CameraError" ELSE status
        /\ dead \in BOOLEAN /\ n \in Nat
    BY DEF Camera!ReadFails, Types, Workers
  <1> HIDE DEF dead, n
  <1>3. /\ w' \in Workers /\ w'.ctx = w.ctx /\ w'.from = w.from /\ w'.event = w.event
        /\ w'.frames = 0 /\ w'.pc = "poll" /\ (w'.active <=> w.active)
        /\ (w'.rgb <=> w.rgb) /\ (w'.fatal <=> w.fatal)
    BY <1>2 DEF Types, Workers
  <1>4. status' \in Camera!Statuses /\ (status' = "Off" => status = "Off")
    BY <1>2 DEF Types, Camera!Statuses
  <1>5. Types' /\ Synced' /\ Camera!ActsOnWhatWasShown'
    BY <1>1, <1>3, <1>4, LoopStays DEF Types
  <1>6. EventApt(events)' /\ EventApt(w.event)' /\ WorkerApt'
    BY <1>1, <1>3, SameAptness
  <1>7. CameraHeld'
    BY <1>1, <1>3, <1>4 DEF CameraHeld
  <1> QED BY <1>5, <1>6, <1>7

\* A frame is read; once warm it is worked on.
LEMMA ReadFrameKeeps == ASSUME Camera!ConstantsOK, GestureInv, Camera!ReadFrame PROVE GestureInv'
  <1> USE DEF GestureInv
  <1>1. UNCHANGED <<screen, turn, context, events, status, cam>> /\ w.pc = "read"
    BY DEF Camera!ReadFrame
  <1>2. /\ w' \in Workers /\ w'.ctx = w.ctx /\ w'.from = w.from /\ w'.event = w.event
        /\ w'.frames = w.frames /\ w'.pc = (IF w.warm THEN "poll" ELSE "infer")
        /\ (w'.active <=> w.active) /\ (w'.rgb <=> w.rgb)
        /\ (w'.fatal <=> w.fatal) /\ (w'.fault <=> w.fault)
    BY DEF Camera!ReadFrame, Types, Workers
  <1>3. Types' /\ Synced' /\ Camera!ActsOnWhatWasShown'
    BY <1>1, <1>2, LoopStays DEF Types
  <1>4. EventApt(events)' /\ EventApt(w.event)' /\ WorkerApt'
    BY <1>1, <1>2, SameAptness
  <1>5. CameraHeld'
    BY <1>1, <1>2 DEF CameraHeld
  <1> QED BY <1>3, <1>4, <1>5

\* The frame counts for the gesture only under the context it was read for;
\* a gesture that is complete was seen where its first frame was.
LEMMA InferKeeps == ASSUME Camera!ConstantsOK, GestureInv, Camera!Infer PROVE GestureInv'
  <1> USE DEF GestureInv
  <1>1. PICK a \in {"Swipe", "EnterClock"}, n \in Nat :
          w' = IF n >= Frames
               THEN [w EXCEPT !.pc = "send", !.frames = 0,
                              !.event = <<[action |-> a, ctx |-> w.ctx, age |-> 0, from |-> w.from]>>]
               ELSE [w EXCEPT !.pc = "poll", !.frames = n]
    <2>1. PICK hand \in BOOLEAN, a \in {"Swipe"} \cup (IF w.ctx.asleep THEN {} ELSE {"EnterClock"}) :
            LET stale  == context # w.ctx
                frames == CASE stale -> w.frames [] ~stale /\ hand -> w.frames + 1 [] OTHER -> 0
            IN  w' = IF frames >= Frames
                     THEN [w EXCEPT !.pc = "send", !.frames = 0,
                                    !.event = <<[action |-> a, ctx |-> w.ctx, age |-> 0, from |-> w.from]>>]
                     ELSE [w EXCEPT !.pc = "poll", !.frames = frames]
      BY DEF Camera!Infer
    <2> DEFINE n == CASE context # w.ctx -> w.frames
                      [] ~(context # w.ctx) /\ hand -> w.frames + 1
                      [] OTHER -> 0
    <2>2. n \in Nat
      BY DEF Types, Workers
    <2>3. a \in {"Swipe", "EnterClock"}
      OBVIOUS
    <2>4. w' = IF n >= Frames
               THEN [w EXCEPT !.pc = "send", !.frames = 0,
                              !.event = <<[action |-> a, ctx |-> w.ctx, age |-> 0, from |-> w.from]>>]
               ELSE [w EXCEPT !.pc = "poll", !.frames = n]
      BY <2>1
    <2> HIDE DEF n
    <2> QED BY <2>2, <2>3, <2>4
  <1>2. UNCHANGED <<screen, turn, context, events, status, cam>> /\ w.pc = "infer"
    BY DEF Camera!Infer
  <1> DEFINE e == [action |-> a, ctx |-> w.ctx, age |-> 0, from |-> w.from]
  <1>3. e \in CameraEvents /\ e.ctx = w.ctx /\ e.from = w.from
    BY DEF Types, Workers, CameraEvents
  <1>4. Apt(w.ctx, w.from)
    BY <1>2 DEF WorkerApt
  <1>5. Apt(w.ctx, w.from)'
      \/ w'.ctx # w.ctx \/ w'.from # w.from
    BY <1>2, <1>4 DEF Apt
  <1> HIDE DEF e
  <1>6. <<e>> \in Boxes /\ Head(<<e>>) = e
    BY <1>3 DEF Boxes
  <1>7. \/ w' = [w EXCEPT !.pc = "send", !.frames = 0, !.event = <<e>>]
        \/ w' = [w EXCEPT !.pc = "poll", !.frames = n]
    BY <1>1 DEF e
  <1>8. /\ w' \in Workers /\ w'.ctx = w.ctx /\ w'.from = w.from
        /\ w'.event \in {w.event, <<e>>}
        /\ (w'.active <=> w.active) /\ (w'.rgb <=> w.rgb) /\ w'.pc \in {"send", "poll"}
        /\ (w'.fatal <=> w.fatal) /\ (w'.fault <=> w.fault)
    <2>1. CASE w' = [w EXCEPT !.pc = "send", !.frames = 0, !.event = <<e>>]
      BY <1>6, <2>1 DEF Types, Workers
    <2>2. CASE w' = [w EXCEPT !.pc = "poll", !.frames = n]
      BY <2>2 DEF Types, Workers
    <2> QED BY <1>7, <2>1, <2>2
  <1>9. Types' /\ Synced' /\ Camera!ActsOnWhatWasShown'
    BY <1>2, <1>8, LoopStays DEF Types
  <1>10. EventApt(events)' /\ EventApt(w.event)' /\ WorkerApt'
    <2>1. EventApt(events)'
      BY <1>2 DEF EventApt, Apt
    <2>2. EventApt(w.event)'
      <3>1. CASE w'.event = w.event
        BY <1>2, <3>1 DEF EventApt, Apt
      <3>2. CASE w'.event = <<e>>
        BY <1>2, <1>3, <1>4, <1>6, <3>2 DEF EventApt, Apt
      <3> QED BY <1>8, <3>1, <3>2
    <2>3. WorkerApt'
      BY <1>2, <1>5, <1>8 DEF WorkerApt
    <2> QED BY <2>1, <2>2, <2>3
  <1>11. CameraHeld'
    BY <1>2, <1>8 DEF CameraHeld
  <1> QED BY <1>9, <1>10, <1>11

\* The event goes into the queue, or an event that is there wins.
LEMMA SendKeeps == ASSUME Camera!ConstantsOK, GestureInv, Camera!Send PROVE GestureInv'
  <1> USE DEF GestureInv
  <1>1. /\ UNCHANGED <<screen, turn, context, status, cam>> /\ w.pc = "send"
        /\ events' \in {events, w.event}
    BY DEF Camera!Send, Camera!Queued
  <1>2. << >> \in Boxes
    BY DEF Boxes
  <1>3. /\ w' \in Workers /\ w'.ctx = w.ctx /\ w'.from = w.from /\ w'.event = << >>
        /\ w'.frames = w.frames /\ w'.pc = "poll" /\ (w'.active <=> w.active)
        /\ (w'.rgb <=> w.rgb) /\ (w'.fatal <=> w.fatal) /\ (w'.fault <=> w.fault)
    BY <1>2 DEF Camera!Send, Types, Workers
  <1>4. events' \in Boxes
    BY <1>1 DEF Types, Workers
  <1>5. Types' /\ Synced' /\ Camera!ActsOnWhatWasShown'
    BY <1>1, <1>3, <1>4, LoopStays DEF Types
  <1>6. EventApt(events)'
    <2>1. CASE events' = events
      BY <1>1, <2>1 DEF EventApt, Apt
    <2>2. CASE events' = w.event
      BY <1>1, <2>2 DEF EventApt, Apt
    <2> QED BY <1>1, <2>1, <2>2
  <1>7. EventApt(w.event)' /\ WorkerApt'
    BY <1>1, <1>3 DEF EventApt, WorkerApt, Apt
  <1>8. CameraHeld'
    BY <1>1, <1>3 DEF CameraHeld
  <1> QED BY <1>5, <1>6, <1>7, <1>8

\* Events grow older where they are.
LEMMA TickKeeps == ASSUME Camera!ConstantsOK, GestureInv, Camera!Tick PROVE GestureInv'
  <1> USE DEF GestureInv
  <1>1. /\ UNCHANGED <<screen, turn, context, status, cam>>
        /\ events' = Camera!Older(events) /\ w' = [w EXCEPT !.event = Camera!Older(w.event)]
    BY DEF Camera!Tick
  <1>2. events \in Boxes /\ w.event \in Boxes
    BY DEF Types, Workers
  <1>3. /\ Camera!Older(w.event) \in Boxes /\ (Camera!Older(w.event) = << >> <=> w.event = << >>)
        /\ w.event # << >> => /\ Head(Camera!Older(w.event)).ctx = Head(w.event).ctx
                              /\ Head(Camera!Older(w.event)).from = Head(w.event).from
    BY <1>2, OlderIs
  <1>4. /\ events' \in Boxes /\ (events' = << >> <=> events = << >>)
        /\ events # << >> => Head(events').ctx = Head(events).ctx /\ Head(events').from = Head(events).from
    BY <1>1, <1>2, OlderIs
  <1>5. /\ w' \in Workers /\ w'.ctx = w.ctx /\ w'.from = w.from /\ w'.event = Camera!Older(w.event)
        /\ w'.frames = w.frames /\ w'.pc = w.pc /\ (w'.active <=> w.active)
        /\ (w'.rgb <=> w.rgb) /\ (w'.fatal <=> w.fatal) /\ (w'.fault <=> w.fault)
        /\ (w'.warm <=> w.warm)
    BY <1>1, <1>3 DEF Types, Workers
  <1>6. Types' /\ Synced' /\ Camera!ActsOnWhatWasShown'
    BY <1>1, <1>4, <1>5, LoopStays DEF Types
  <1>7. EventApt(events)'
    BY <1>1, <1>4 DEF EventApt, Apt
  <1>8. EventApt(w.event)'
    BY <1>1, <1>3, <1>5 DEF EventApt, Apt
  <1>9. WorkerApt'
    BY <1>1, <1>5 DEF WorkerApt, Apt
  <1>10. CameraHeld'
    BY <1>1, <1>5 DEF CameraHeld
  <1> QED BY <1>6, <1>7, <1>8, <1>9, <1>10

-----------------------------------------------------------------------------
\* Every step of the two tasks keeps the invariant.
LEMMA GestureKeeps ==
  ASSUME Camera!ConstantsOK, GestureInv, [Camera!Next]_(Camera!vars)
  PROVE  GestureInv'
  <1>1. CASE Camera!Worker
    BY <1>1, PollIdleKeeps, PollStartKeeps, StartCameraKeeps, CleanUpKeeps, LoadModelsKeeps,
       PollReadKeeps, ReadFailsKeeps, ReadFrameKeeps, InferKeeps, SendKeeps DEF Camera!Worker
  <1>2. CASE Camera!Loop
    BY <1>2, InputKeeps, ProtectKeeps, ConfigureKeeps, TakeKeeps, TakeNothingKeeps DEF Camera!Loop
  <1>3. CASE Camera!Tick
    BY <1>3, TickKeeps
  <1>4. CASE UNCHANGED Camera!vars
    BY <1>4 DEF Camera!vars, GestureInv, Types, Synced, EventApt, WorkerApt, Apt, CameraHeld, Camera!ActsOnWhatWasShown
  <1> QED BY <1>1, <1>2, <1>3, <1>4 DEF Camera!Next

\* The worker and the loop keep the invariant however they interleave.
THEOREM GestureInvariant == ASSUME Camera!ConstantsOK PROVE Camera!Spec => []GestureInv
  <1>1. Camera!Init => GestureInv
    BY GestureStarts
  <1>2. GestureInv /\ [Camera!Next]_(Camera!vars) => GestureInv'
    BY GestureKeeps
  <1> QED BY <1>1, <1>2, PTL DEF Camera!Spec

\* Every variable of the two tasks keeps its type; the queue holds one event.
THEOREM GestureTypes == ASSUME Camera!ConstantsOK PROVE Camera!Spec => []Camera!TypeOK
  <1>1. GestureInv => Camera!TypeOK
    <2> SUFFICES ASSUME GestureInv PROVE Camera!TypeOK
      OBVIOUS
    <2>1. \A q \in Boxes : Len(q) <= 1
      BY DEF Boxes
    <2> QED BY <2>1 DEF GestureInv, Types, Camera!TypeOK, Screens, Loops, Workers
  <1> QED BY <1>1, GestureInvariant, PTL

\* A gesture is followed only on the screen it was made for: between its first
\* frame and its effect no input came, and page and sleep are the same
\* (GestureInput::configure(), take(), invalidate() and the worker).
THEOREM GestureActs == ASSUME Camera!ConstantsOK PROVE Camera!Spec => []Camera!ActsOnWhatWasShown
  <1>1. GestureInv => Camera!ActsOnWhatWasShown
    BY DEF GestureInv
  <1> QED BY <1>1, GestureInvariant, PTL

\* A screen that says the camera is off is right: no stage is held
\* (GestureCamera::stop(), and the status of the worker).
THEOREM GestureReleased == ASSUME Camera!ConstantsOK PROVE Camera!Spec => []Camera!OffMeansReleased
  <1>1. GestureInv => Camera!OffMeansReleased
    BY DEF GestureInv, CameraHeld, Camera!OffMeansReleased
  <1> QED BY <1>1, GestureInvariant, PTL

\* Stages are taken only from none, and never again after a stop that failed
\* (GestureCamera::start(), the worker's fatal and fault).
THEOREM GestureNoRestart == ASSUME Camera!ConstantsOK PROVE Camera!Spec => [][Camera!NoRestartAfterFailure]_(Camera!vars)
  <1>1. ASSUME Camera!ConstantsOK, GestureInv, [Camera!Next]_(Camera!vars) PROVE Camera!NoRestartAfterFailure
    <2> SUFFICES ASSUME cam'.held > cam.held PROVE cam.held = 0 /\ ~cam.broken
      BY DEF Camera!NoRestartAfterFailure
    <2>1. cam.held \in 0 .. Supplies
      BY <1>1, Numbers, SMTT(30) DEF GestureInv
    <2>2. Camera!StartCamera
      <3>1. ASSUME NEW left \in 0 .. cam.held, Camera!Stop(left) PROVE FALSE
        <4>1. cam'.held = left
          BY <3>1 DEF Camera!Stop
        <4> QED BY <2>1, <4>1
      <3>2. ASSUME Camera!PollIdle PROVE FALSE
        <4>1. PICK left \in IF Camera!HoldsCamera(Camera!Loaded) THEN 0 .. cam.held ELSE {cam.held} :
                IF Camera!HoldsCamera(Camera!Loaded) THEN Camera!Stop(left) ELSE cam' = cam
          BY <3>2 DEF Camera!PollIdle
        <4>2. CASE Camera!HoldsCamera(Camera!Loaded)
          BY <3>1, <4>1, <4>2
        <4>3. CASE ~Camera!HoldsCamera(Camera!Loaded)
          BY <2>1, <4>1, <4>3
        <4> QED BY <4>2, <4>3
      <3>3. ~Camera!CleanUp
        BY <3>1 DEF Camera!CleanUp
      <3>4. cam' # cam
        BY <2>1
      <3> QED BY <1>1, <3>2, <3>3, <3>4
              DEF Camera!Next, Camera!Worker, Camera!Loop, Camera!vars, Camera!PollStart, Camera!LoadModels, Camera!PollRead, Camera!ReadFails, Camera!ReadFrame,
                  Camera!Infer, Camera!Send, Camera!Tick, Camera!Input, Camera!Protect, Camera!Configure, Camera!Take, Camera!TakeNothing
    <2>3. ~cam.broken
      BY <1>1, <2>2 DEF GestureInv, CameraHeld, Camera!StartCamera
    <2>4. cam.held = 0
      <3>1. PICK n \in 0 .. Supplies : (cam.held > 0 => n = cam.held) /\ cam' = [cam EXCEPT !.held = n]
        BY <2>2 DEF Camera!StartCamera
      <3>2. cam'.held = n
        BY <1>1, <3>1 DEF GestureInv, Types
      <3> QED BY <2>1, <3>1, <3>2
    <2> QED BY <2>3, <2>4
  <1> QED BY <1>1, GestureInvariant, PTL DEF Camera!Spec
=============================================================================
