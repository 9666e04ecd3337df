----------------------------- MODULE OtaSession -----------------------------
(***************************************************************************)
(* The firmware-update session of the device and the flash storage behind  *)
(* it: usage_ota/src/session.cpp (OtaSession) and                          *)
(* usage_ota/src/esp_ota_backend.cpp (EspOtaBackend).                      *)
(*                                                                         *)
(* Two tasks call the session under its mutex.  The BLE host task offers   *)
(* an image, writes its bytes, ends, aborts and reports a lost link; the   *)
(* main loop confirms, denies and ticks, with a clock sample it took       *)
(* earlier.  One critical section is one action here; the only method that *)
(* lets the mutex go half way, end(), is three actions.                    *)
(*                                                                         *)
(* Time is relative: `age' is the age of the time stamp that the timeout   *)
(* of the current phase is measured from (phase_started_ms_ in Confirming, *)
(* last_activity_ms_ in Receiving), and a clock sample is described by its *)
(* lag behind the present.  The unsigned difference the code computes is   *)
(* then age - lag, negative when the stamp is newer than the sample.       *)
(***************************************************************************)
EXTENDS Integers

CONSTANTS
    Images,          \* firmware images a sender may have
    SizeOf,          \* their length in bytes
    VersionOf,       \* the version in their application description
    OurImages,       \* those whose description names this project
    Capacity,        \* length of the update partition
    ConfirmTimeout,  \* kConfirmationTimeoutMs, in clock units
    ReceiveTimeout,  \* kReceiveTimeoutMs, in clock units
    MaxLag,          \* how old the main loop's clock sample can get
    CountModulus,    \* failure_count is a uint32_t: 2^32 in the code
    Mixed, Nothing,  \* bytes that are no image's; an erased partition
    NoOffer          \* no manifest accepted

ASSUME SessionAssumption ==
    /\ OurImages \subseteq Images
    /\ {Mixed, Nothing, NoOffer} \cap Images = {}
    /\ SizeOf \in [Images -> Nat \ {0}]
    /\ Capacity \in Nat \ {0}
    /\ ConfirmTimeout \in Nat \ {0}
    /\ ReceiveTimeout \in Nat \ {0}
    /\ MaxLag \in Nat
    /\ CountModulus \in Nat \ {0}

VARIABLES
    phase,           \* state_.phase
    error,           \* state_.error
    failureCount,    \* state_.failure_count
    offset,          \* state_.offset
    size,            \* state_.size
    expected,        \* digest and version the manifest promised
    age,             \* age of the time stamp the phase's timeout counts from
    backendActive,   \* backend_active_
    active,          \* EspOtaBackend::active_, an open esp_ota handle
    slots,           \* bytes in the two application partitions
    running,         \* the partition this boot runs from
    boot,            \* the partition otadata selects for the next boot
    bootState,       \* and its rollback state there: new, pending or valid
    powerOk,         \* the verdict power_allows_locked() reads
    ble              \* where the BLE task is inside a handler

sessionVars == <<phase, error, failureCount, offset, size, expected, age, backendActive>>
storageVars == <<active, slots, running, boot, bootState>>
otaVars     == <<sessionVars, storageVars, powerOk, ble>>

Slots    == {"ota_0", "ota_1"}
Other(s) == IF s = "ota_0" THEN "ota_1" ELSE "ota_0"
Update   == Other(running)

Phases == {"Idle", "Confirming", "Receiving", "Verifying", "Rebooting"}
Errors == {"None", "Denied", "Timeout", "TooLarge", "BadImage", "LinkLost",
           "SeqGap", "LowPower", "ProjectMismatch", "TargetMismatch"}

\* A partition holds the first `bytes' bytes of `image', or a mixture that
\* is no image's prefix.  An empty partition is a prefix of length zero.
Contents == [image : Images \cup {Mixed, Nothing}, bytes : Nat]

\* What a manifest offers: the image its digest identifies, the version and
\* size it declares, and whether digest and version text are well formed.
Versions == {VersionOf[i] : i \in Images}
Promises == [sha : Images, version : Versions]
PromiseOf(m) == [sha |-> m.sha, version |-> m.version]

Timeout(p) == IF p = "Confirming" THEN ConfirmTimeout ELSE ReceiveTimeout
AgeCap(p)  == Timeout(p) + MaxLag

\* Mistake: verification is timed out too.
TimedVerifying == {"Confirming", "Receiving", "Verifying"}

\* The phases tick() times out.
Timed == {"Confirming", "Receiving"}

-----------------------------------------------------------------------------
(* The flash backend.                                                      *)

EraseUpdate == slots' = [slots EXCEPT ![Update] = [image |-> Nothing, bytes |-> 0]]

\* esp_ota_begin() is refused while the running application is unconfirmed.
BackendBegun ==
    /\ bootState # "pending"
    /\ active' = TRUE
    /\ EraseUpdate
    /\ UNCHANGED <<running, boot, bootState>>

\* A failed esp_ota_begin() may already have erased the partition.
BackendBeginFailed ==
    /\ active' = FALSE
    /\ (bootState # "pending" /\ EraseUpdate) \/ UNCHANGED slots
    /\ UNCHANGED <<running, boot, bootState>>

\* `from' is the image the chunk was cut from at the current offset, or Mixed
\* for bytes that continue no image.
Extended(s, from, len) ==
    [image |-> IF s.bytes = 0 \/ s.image = from THEN from ELSE Mixed,
     bytes |-> s.bytes + len]

BackendWritten(from, len) ==
    /\ active
    /\ slots' = [slots EXCEPT ![Update] = Extended(@, from, len)]
    /\ UNCHANGED <<active, running, boot, bootState>>

BackendAborted == active' = FALSE /\ UNCHANGED <<slots, running, boot, bootState>>

\* Mistake: digest and version are not compared.
GenuineUnpromised(s, promise) == s.image \in OurImages /\ s.bytes = SizeOf[s.image]

\* finish() accepts the image only if its digest, and then the project and
\* the version its description carries, are the promised ones.
Genuine(s, promise) ==
    /\ s.image \in OurImages
    /\ s.image = promise.sha
    /\ s.bytes = SizeOf[s.image]
    /\ VersionOf[s.image] = promise.version

-----------------------------------------------------------------------------
(* Critical sections of the session.                                       *)

SessionCleared(e) ==
    /\ phase' = "Idle"
    /\ error' = e
    /\ failureCount' = IF e = "None" THEN failureCount
                                     ELSE (failureCount + 1) % CountModulus
    /\ offset' = 0
    /\ size' = 0
    /\ expected' = NoOffer
    /\ age' = 0
    /\ backendActive' = FALSE

\* reset_locked()
Reset(e) ==
    /\ IF backendActive THEN BackendAborted ELSE UNCHANGED storageVars
    /\ SessionCleared(e)

\* Mistake: the size is not compared with the partition.
OfferErrorUnlimited(m) ==
    IF m.size = 0 \/ ~m.wellFormed THEN "BadImage"
    ELSE IF ~powerOk THEN "LowPower" ELSE "None"

OfferError(m) ==
    IF m.size = 0 \/ ~m.wellFormed THEN "BadImage"
    ELSE IF m.size > Capacity THEN "TooLarge"
    ELSE IF ~powerOk THEN "LowPower"
    ELSE "None"

BeginAccepted(m) ==
    /\ phase = "Idle"
    /\ OfferError(m) = "None"
    /\ phase' = "Confirming"
    /\ error' = "None"
    /\ offset' = 0
    /\ size' = m.size
    /\ expected' = PromiseOf(m)
    /\ age' = 0
    /\ UNCHANGED <<failureCount, backendActive, storageVars>>

BeginRefused(m) ==
    /\ phase = "Idle"
    /\ OfferError(m) # "None"
    /\ Reset(OfferError(m))

RejectIdentity(projectMatches) ==
    /\ phase = "Idle"
    /\ Reset(IF projectMatches THEN "TargetMismatch" ELSE "ProjectMismatch")

Confirmed(lag) ==
    /\ phase = "Confirming"
    /\ powerOk
    /\ BackendBegun
    /\ backendActive' = TRUE
    /\ phase' = "Receiving"
    /\ age' = lag
    /\ UNCHANGED <<error, failureCount, offset, size, expected>>

ConfirmLowPower == phase = "Confirming" /\ ~powerOk /\ Reset("LowPower")

ConfirmStorageFailed ==
    /\ phase = "Confirming"
    /\ powerOk
    /\ BackendBeginFailed
    /\ SessionCleared("BadImage")

Denied == phase = "Confirming" /\ Reset("Denied")

InOrder(at, len) == at = offset /\ len <= size - offset

Written(at, from, len) ==
    /\ phase = "Receiving"
    /\ InOrder(at, len)
    /\ BackendWritten(from, len)
    /\ offset' = offset + len
    /\ age' = 0
    /\ UNCHANGED <<phase, error, failureCount, size, expected, backendActive>>

WriteGap(at, len) == phase = "Receiving" /\ ~InOrder(at, len) /\ Reset("SeqGap")

\* esp_ota_write() fails; what reached the flash is unknown but discarded.
WriteFailed(at, len) == phase = "Receiving" /\ InOrder(at, len) /\ Reset("BadImage")

EndShort ==
    /\ phase = "Receiving"
    /\ offset # size
    /\ Reset("BadImage")

EndStarted ==
    /\ phase = "Receiving"
    /\ offset = size
    /\ phase' = "Verifying"
    /\ age' = 0
    /\ UNCHANGED <<error, failureCount, offset, size, expected, backendActive, storageVars>>

\* backend_.finish() runs without the mutex and closes the handle whatever it
\* finds; otadata is written last, and only for a genuine image.
FinishAccepted ==
    /\ ble = "finish"
    /\ active
    /\ Genuine(slots[Update], expected)
    /\ active' = FALSE
    /\ boot' = Update
    /\ bootState' = "new"
    /\ ble' = "accepted"
    /\ UNCHANGED <<sessionVars, slots, running>>

\* The image is not the promised one, or esp_ota_end() or the write of
\* otadata fails.
FinishRefused ==
    /\ ble = "finish"
    /\ active' = FALSE
    /\ ble' = "refused"
    /\ UNCHANGED <<sessionVars, slots, running, boot, bootState>>

EndAccepted ==
    /\ ble = "accepted"
    /\ phase' = "Rebooting"
    /\ error' = "None"
    /\ backendActive' = FALSE
    /\ UNCHANGED <<failureCount, offset, size, expected, age, storageVars>>

EndRefused ==
    /\ ble = "refused"
    /\ SessionCleared("BadImage")
    /\ UNCHANGED storageVars

Aborted == Reset("None")

LinkLost == phase \in Timed /\ Reset("LinkLost")

\* Mistakes: the difference is taken modulo 2^64 without looking at its sign,
\* or only the confirmation is timed.
ExpiredUnsigned(lag) == phase \in Timed /\ (age < lag \/ age - lag >= Timeout(phase))
ExpiredConfirming(lag) == phase = "Confirming" /\ age > lag /\ age - lag >= Timeout(phase)

\* tick(now_ms) compares with the sample, which may be older than the stamp.
Expired(lag) == phase \in Timed /\ age > lag /\ age - lag >= Timeout(phase)

TickExpired(lag) ==
    /\ Expired(lag)
    /\ Reset(IF phase = "Confirming" THEN "Timeout" ELSE "LinkLost")

\* One unit of real time passes.
AgeOneUnit ==
    /\ age' = IF phase \in Timed /\ age < AgeCap(phase) THEN age + 1 ELSE age
    /\ UNCHANGED <<phase, error, failureCount, offset, size, expected, backendActive, storageVars>>
=============================================================================
