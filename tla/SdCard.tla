------------------------------- MODULE SdCard -------------------------------
(***************************************************************************)
(* The card of the Read Pico: read_pico_sd.c, whose mounting runs in a     *)
(* task of its own, and the main loop, which asks for the card at every    *)
(* poll, has it mounted again when it appears, and reads its history anew. *)
(* Nothing but state_lock is held; the slot is sampled before it is taken. *)
(***************************************************************************)
EXTENDS Integers

CONSTANTS
    Cards,        \* the cards a user has
    Swaps,        \* bounds how often one is taken out
    Glitches,     \* bounds the failed reads of the slot's pin
    Patient       \* no card is put in while one is being probed

ConstantsOK == 0 \notin Cards /\ Swaps \in Nat /\ Glitches \in Nat /\ Patient \in BOOLEAN

VARIABLES
    slot,         \* the card in the slot, 0 for none
    card,         \* the mounted one
    state,        \* probe_state, media_invalidated, cached_info
    probe,        \* probe_task: where it is, what it found
    main,         \* the main loop: where it is, what it sampled
    loop,         \* sd_present_, v.sd, and the card whose history is loaded
    swaps, glitches

vars == <<slot, card, state, probe, main, loop, swaps, glitches>>

NoInfo == [present |-> FALSE, mounted |-> FALSE, error |-> "none"]

\* Mistake: a card that is being probed is not lost when it is taken out.
OnlyMounted(s) == s.info.mounted

MayBeUsed(s) == s.info.mounted \/ s.probe = 1

\* observe_media_locked(): the state after a sample of the slot.
Observed(s, present) ==
    LET invalid == s.invalid \/ (~present /\ MayBeUsed(s)) IN
    [s EXCEPT !.invalid = invalid,
        !.info = IF present /\ ~invalid THEN [@ EXCEPT !.present = present]
                 ELSE [present |-> present, mounted |-> FALSE,
                       error |-> IF present THEN "invalid" ELSE "absent"]]

\* read_pico_sd_present(): a read that fails must not look like a card.
Samples(Outcome(_)) ==
    \/ Outcome(slot # 0) /\ UNCHANGED glitches
    \/ glitches > 0 /\ slot # 0 /\ glitches' = glitches - 1 /\ Outcome(FALSE)

\* The probe of read_pico_init() has just been started.
Init ==
    /\ slot \in Cards /\ card = 0
    /\ state = [probe |-> 1, invalid |-> FALSE, info |-> [NoInfo EXCEPT !.present = TRUE, !.error = "busy"]]
    /\ probe = [at |-> "sample", present |-> FALSE, error |-> "none"]
    /\ main = [at |-> "idle", present |-> FALSE, first |-> TRUE]
    /\ loop = [present |-> FALSE, sd |-> FALSE, loaded |-> 0]
    /\ swaps = Swaps /\ glitches = Glitches

(***************************************************************************)
(* probe_task().                                                           *)
(***************************************************************************)
ProbeSample ==
    /\ probe.at = "sample"
    /\ Samples(LAMBDA present :
        probe' = IF present THEN [probe EXCEPT !.at = "mount"]
                 ELSE [probe EXCEPT !.at = "info", !.error = "absent"])
    /\ UNCHANGED <<slot, card, state, main, loop, swaps>>

\* mount_card(): once more after a timeout; without a card it fails.
Mount ==
    /\ probe.at \in {"mount", "again"}
    /\ \/ /\ slot # 0 /\ card' = IF card = 0 THEN slot ELSE card
          /\ probe' = [probe EXCEPT !.at = "info", !.error = "none"]
       \/ /\ card = 0 /\ probe.at = "mount"
          /\ probe' = [probe EXCEPT !.at = "again"] /\ UNCHANGED card
       \/ /\ card = 0 /\ UNCHANGED card
          /\ probe' = [probe EXCEPT !.at = "info", !.error = "mount"]
    /\ UNCHANGED <<slot, state, main, loop, swaps, glitches>>

\* publish_info(): the slot is sampled again, before the lock.
ProbeInfo ==
    /\ probe.at = "info"
    /\ Samples(LAMBDA present : probe' = [probe EXCEPT !.at = "publish", !.present = present])
    /\ UNCHANGED <<slot, card, state, main, loop, swaps>>

Publish ==
    /\ probe.at = "publish"
    /\ LET found == [present |-> probe.present, mounted |-> probe.error = "none", error |-> probe.error] IN
       state' = [Observed([state EXCEPT !.info = found], probe.present) EXCEPT !.probe = 2]
    /\ probe' = [probe EXCEPT !.at = "none"]
    /\ UNCHANGED <<slot, card, main, loop, swaps, glitches>>

(***************************************************************************)
(* Board::poll().                                                          *)
(***************************************************************************)
PollSample ==
    /\ main.at = "idle"
    /\ Samples(LAMBDA present : main' = [main EXCEPT !.at = "get", !.present = present])
    /\ UNCHANGED <<slot, card, state, probe, loop, swaps>>

\* Mistake: the history of the last card is kept.
KeepsHistory == loop.loaded

HistoryGone == 0

\* read_pico_sd_get_info(), and what the loop makes of it.
Get ==
    /\ main.at = "get"
    /\ LET s == Observed(state, main.present)
           appeared == s.info.present /\ ~loop.present IN
       /\ state' = s
       /\ loop' = [present |-> s.info.present,
                   sd |-> s.info.mounted /\ s.probe = 2 /\ s.info.error = "none",
                   loaded |-> IF appeared THEN HistoryGone ELSE loop.loaded]
       /\ main' = [main EXCEPT !.at = IF appeared THEN "remount" ELSE "sample"]
    /\ UNCHANGED <<slot, card, probe, swaps, glitches>>

\* Mistake: the card is closed without asking.
AlwaysReady == TRUE

Ready == state.probe # 1

\* read_pico_sd_remount(): begin_operation(); the loop ignores a refusal.
Remount ==
    /\ main.at = "remount"
    /\ IF Ready THEN state' = [state EXCEPT !.probe = 1] /\ main' = [main EXCEPT !.at = "close"]
       ELSE main' = [main EXCEPT !.at = "sample"] /\ UNCHANGED state
    /\ UNCHANGED <<slot, card, probe, loop, swaps, glitches>>

Close ==
    /\ main.at = "close" /\ card' = 0
    /\ main' = [main EXCEPT !.at = "reset"]
    /\ UNCHANGED <<slot, state, probe, loop, swaps, glitches>>

Reset ==
    /\ main.at = "reset"
    /\ state' = [probe |-> 0, invalid |-> FALSE, info |-> NoInfo]
    /\ Samples(LAMBDA present : main' = [main EXCEPT !.at = "start", !.present = present])
    /\ UNCHANGED <<slot, card, probe, loop, swaps>>

\* read_pico_sd_start_probe(); the task is created.
Start ==
    /\ main.at = "start"
    /\ LET s == Observed(state, main.present) IN
       IF main.present /\ s.probe = 0 /\ ~s.invalid
       THEN /\ state' = [s EXCEPT !.probe = 1, !.info = [NoInfo EXCEPT !.present = TRUE, !.error = "busy"]]
            /\ probe' = [probe EXCEPT !.at = "sample"]
       ELSE /\ state' = IF ~main.present /\ s.probe = 0 THEN [s EXCEPT !.probe = 2] ELSE s
            /\ UNCHANGED probe
    /\ main' = [main EXCEPT !.at = "sample"]
    /\ UNCHANGED <<slot, card, loop, swaps, glitches>>

\* sample_trend() after every poll but the first, which comes before the loop:
\* the card that is shown is read once.
Load ==
    /\ main.at = "sample" /\ main' = [main EXCEPT !.at = "idle", !.first = FALSE]
    /\ loop' = IF loop.sd /\ loop.loaded = 0 /\ ~main.first THEN [loop EXCEPT !.loaded = card] ELSE loop
    /\ UNCHANGED <<slot, card, state, probe, swaps, glitches>>

(***************************************************************************)
(* The user.  A card is out for longer than the loop takes to notice.      *)
(***************************************************************************)
TakeOut ==
    /\ slot # 0 /\ swaps > 0 /\ slot' = 0 /\ swaps' = swaps - 1
    /\ UNCHANGED <<card, state, probe, main, loop, glitches>>

PutIn ==
    /\ slot = 0 /\ ~loop.present /\ state.info.error = "absent"
    /\ Patient => probe.at = "none"
    /\ slot' \in Cards
    /\ UNCHANGED <<card, state, probe, main, loop, swaps, glitches>>

Task == ProbeSample \/ Mount \/ ProbeInfo \/ Publish

Loop == PollSample \/ Get \/ Remount \/ Close \/ Reset \/ Start \/ Load

User == TakeOut \/ PutIn

Next == Task \/ Loop \/ User

Spec == Init /\ [][Next]_vars

TypeOK ==
    /\ {slot, card, loop.loaded} \subseteq Cards \cup {0}
    /\ state.probe \in 0..2 /\ state.invalid \in BOOLEAN
    /\ probe.at \in {"none", "sample", "mount", "again", "info", "publish"}
    /\ main.at \in {"idle", "get", "remount", "close", "reset", "start", "sample"}

(***************************************************************************)
(* Properties.                                                             *)
(***************************************************************************)

\* One task at a time mounts or closes the card.
OneMounter == main.at \in {"close", "reset", "start"} => probe.at = "none"

\* When the history is read or written the card is the mounted one; when it is
\* still in the slot, it is the one in the slot.
ShownIsMounted ==
    loop.sd /\ main.at = "sample" /\ ~main.first => card # 0 /\ (slot # 0 => slot = card)

\* The history that is shown was read from the card that is mounted.
HistoryIsTheCards == loop.sd /\ ~main.first /\ loop.loaded # 0 => loop.loaded = card

\* Unless its user is hasty or the slot's pin cannot be read, a card that the
\* loop has seen in the slot is not left invalidated when the tasks are done:
\* it is mounted, or it was tried and refused.
CardIsTried ==
    Patient /\ Glitches = 0 /\ main.at = "idle" /\ probe.at = "none" /\ loop.present /\ slot # 0 =>
        ~state.invalid
=============================================================================
