----------------------------- MODULE OtaPromise -----------------------------
(***************************************************************************)
(* What a firmware update promises, with nothing of how it is carried out. *)
(*                                                                         *)
(* The device always knows which image its next start runs.  That choice   *)
(* changes to another image only by an update that was first offered and   *)
(* then granted on the device, and it changes to the image that was        *)
(* granted.  The first start of a new image is a trial: unless the image   *)
(* proves itself, the start after it goes back to the image before.        *)
(***************************************************************************)
CONSTANTS Images, Factory, NoImage

VARIABLES
    offer,      \* the image offered, or NoImage
    granted,    \* whether it was granted on the device
    next,       \* the image the next start runs
    fallback,   \* the image a failed trial goes back to, or NoImage
    trial       \* no, scheduled, or started

promiseVars == <<offer, granted, next, fallback, trial>>

PromiseInit ==
    /\ offer = NoImage /\ granted = FALSE
    /\ next = Factory /\ fallback = NoImage /\ trial = "no"

Offer ==
    /\ offer = NoImage
    /\ offer' \in Images
    /\ UNCHANGED <<granted, next, fallback, trial>>

Grant ==
    /\ offer # NoImage /\ ~granted
    /\ trial = "no"
    /\ granted' = TRUE
    /\ UNCHANGED <<offer, next, fallback, trial>>

Withdraw ==
    /\ offer' = NoImage /\ granted' = FALSE
    /\ UNCHANGED <<next, fallback, trial>>

Install ==
    /\ granted /\ trial = "no"
    /\ next' = offer /\ fallback' = next /\ trial' = "scheduled"
    /\ UNCHANGED <<offer, granted>>

Start ==
    /\ offer' = NoImage /\ granted' = FALSE
    /\ \/ trial = "no" /\ UNCHANGED <<next, fallback, trial>>
       \/ trial = "scheduled" /\ trial' = "started" /\ UNCHANGED <<next, fallback>>
       \/ trial = "started" /\ next' = fallback /\ fallback' = NoImage /\ trial' = "no"

Prove ==
    /\ trial = "started"
    /\ trial' = "no" /\ fallback' = NoImage
    /\ UNCHANGED <<offer, granted, next>>

PromiseNext == Offer \/ Grant \/ Withdraw \/ Install \/ Start \/ Prove

PromiseSpec == PromiseInit /\ [][PromiseNext]_promiseVars
=============================================================================
