----------------------------- MODULE PicoRails -----------------------------
(***************************************************************************)
(* The high voltages of the Read Pico's panel: board_poweron() and         *)
(* board_poweroff() of read_pico_board.c, with the SY7636A that makes them *)
(* (sy7636a.c) and the FCA9555 whose outputs enable it.  The byte of these *)
(* outputs is kept in memory and written whole.  Every transfer on I2C may *)
(* fail, and may have been carried out all the same.                       *)
(***************************************************************************)
EXTENDS Integers

CONSTANTS
    Retry,        \* I2C_RETRY
    Faults,       \* bounds the failed transfers
    Expander      \* whether those to the FCA9555 fail as well

ConstantsOK == Retry \in Nat /\ Faults \in Nat /\ Expander \in BOOLEAN

VARIABLES
    pc,           \* what the board is at, "rest" when nothing
    cache, pins,  \* ioe_output, and the outputs of the FCA9555
    chip,         \* SY7636A: its registers
    awake, rails, \* en_on and rails of its driver
    railsOn,      \* rails_on of the board
    tries, faults,
    drawn         \* whether the last frame counts as displayed, and was driven

vars == <<pc, cache, pins, chip, awake, rails, railsOn, tries, faults, drawn>>

\* The chip forgets when it is not enabled.  `good': what PGOOD will say.
Fresh == [on |-> FALSE, config |-> "reset", good |-> FALSE]

Good == chip.on /\ chip.good

\* ioe_commit(): the byte is written whole; `ok' is what the caller is told.
Commit(byte, ok) ==
    /\ cache' = byte
    /\ \/ ok /\ pins' = byte /\ UNCHANGED faults
       \/ ~ok /\ Expander /\ faults > 0 /\ pins' \in {pins, byte} /\ faults' = faults - 1
    /\ chip' = IF "EN" \in pins' THEN chip ELSE Fresh

\* The caller does not look at the result.
Commits(byte) == \E ok \in BOOLEAN : Commit(byte, ok)

Writes == UNCHANGED <<cache, pins>>

Init ==
    /\ pc = "rest" /\ cache = {} /\ pins = {} /\ chip = Fresh
    /\ awake = FALSE /\ rails = FALSE /\ railsOn = FALSE
    /\ tries = 0 /\ faults = Faults /\ drawn = << >>

(***************************************************************************)
(* board_poweron().                                                        *)
(***************************************************************************)
PowerOn ==
    /\ pc = "rest" /\ ~railsOn
    /\ Commits(cache \ {"XOE"})
    /\ pc' = "wake" /\ UNCHANGED <<awake, rails, railsOn, tries, drawn>>

\* sy7636a_i2c_begin().
Wake ==
    /\ pc = "wake"
    /\ IF awake THEN UNCHANGED <<cache, pins, chip, faults, awake>> /\ pc' = "quiet"
       ELSE \E ok \in BOOLEAN :
             /\ Commit(cache \cup {"EN"}, ok)
             /\ awake' = ok /\ pc' = IF ok THEN "quiet" ELSE "rest"
    /\ UNCHANGED <<rails, railsOn, tries, drawn>>

Quiet ==
    /\ pc = "quiet" /\ Commits(cache \ {"VCOM"})
    /\ pc' = "write" /\ tries' = Retry /\ UNCHANGED <<awake, rails, railsOn, drawn>>

\* VCOM, voltages and delays, then OPERATION, which starts the converters.
Write ==
    /\ pc = "write" /\ tries > 0 /\ Writes
    /\ \/ /\ \E g \in BOOLEAN : chip' = [on |-> TRUE, config |-> "set", good |-> g]
          /\ pc' = "pgood" /\ UNCHANGED <<tries, faults>>
       \/ /\ faults > 0 /\ faults' = faults - 1 /\ tries' = tries - 1
          /\ \E g \in BOOLEAN : chip' \in {chip, [chip EXCEPT !.config = "mixed"],
                                           [on |-> TRUE, config |-> "set", good |-> g]}
          /\ pc' = IF tries = 1 THEN "sleep" ELSE "write"
    /\ UNCHANGED <<awake, rails, railsOn, drawn>>

\* Mistake: the power is said to be good before it was.
WaitsNot == TRUE

PowerGood == Good

Pgood ==
    /\ pc = "pgood" /\ Writes
    /\ pc' = IF PowerGood THEN "enable" ELSE "stop"
    /\ UNCHANGED <<chip, awake, rails, railsOn, tries, faults, drawn>>

Enable ==
    /\ pc = "enable"
    /\ \E ok \in BOOLEAN :
        /\ Commit(cache \cup {"VCOM"}, ok)
        /\ rails' = ok /\ pc' = IF ok THEN "output" ELSE "stop"
    /\ UNCHANGED <<awake, railsOn, tries, drawn>>

\* OPERATION 0 and sy7636a_i2c_end(h, true) after a failure.
Stop ==
    /\ pc = "stop" /\ Writes
    /\ \/ chip' = [chip EXCEPT !.on = FALSE] /\ UNCHANGED faults
       \/ faults > 0 /\ faults' = faults - 1 /\ UNCHANGED chip
    /\ pc' = "sleep" /\ UNCHANGED <<awake, rails, railsOn, tries, drawn>>

\* Mistake: a chip that failed stays enabled.
StaysAwake == cache

Asleep == cache \ {"EN"}

Sleep ==
    /\ pc = "sleep" /\ Commits(Asleep)
    /\ awake' = FALSE /\ pc' = "rest" /\ UNCHANGED <<rails, railsOn, tries, drawn>>

\* The outputs of the panel's drivers; the result is not looked at.
Output ==
    /\ pc = "output" /\ Commits(cache \cup {"XOE"})
    /\ railsOn' = TRUE /\ pc' = "rest" /\ UNCHANGED <<awake, rails, tries, drawn>>

(***************************************************************************)
(* board_poweroff(): outputs, VCOM, converters and chip, in this order.    *)
(***************************************************************************)
PowerOff ==
    /\ pc = "rest" /\ railsOn /\ Commits(cache \ {"XOE"})
    /\ pc' = "off vcom" /\ UNCHANGED <<awake, rails, railsOn, tries, drawn>>

\* Mistake: the converters are stopped first.
StopsFirst == chip' = [chip EXCEPT !.on = FALSE] /\ Writes /\ UNCHANGED faults

LowersFirst == Commits(cache \ {"VCOM"})

OffVcom ==
    /\ pc = "off vcom" /\ LowersFirst
    /\ pc' = "off stop" /\ UNCHANGED <<awake, rails, railsOn, tries, drawn>>

OffStop ==
    /\ pc = "off stop"
    /\ IF awake
       THEN /\ Writes
            /\ \/ chip' = [chip EXCEPT !.on = FALSE] /\ UNCHANGED faults
               \/ faults > 0 /\ faults' = faults - 1 /\ UNCHANGED chip
       ELSE UNCHANGED <<chip, cache, pins, faults>>
    /\ pc' = "off chip" /\ UNCHANGED <<awake, rails, railsOn, tries, drawn>>

OffChip ==
    /\ pc = "off chip" /\ Commits(cache \ {"EN"})
    /\ awake' = FALSE /\ rails' = FALSE /\ railsOn' = FALSE
    /\ pc' = "rest" /\ UNCHANGED <<tries, drawn>>

(***************************************************************************)
(* DisplayUi::render() after epd_poweron(): epdiy reports success without  *)
(* rails, so that a frame counts only when the board says they are on.     *)
(***************************************************************************)
\* Mistake: every frame counts.
Counts == TRUE

RailsOn == railsOn

Draw ==
    /\ pc = "rest" /\ drawn = << >>
    /\ drawn' = <<RailsOn, Good /\ chip.config = "set" /\ {"EN", "VCOM", "XOE"} \subseteq pins>>
    /\ UNCHANGED <<pc, cache, pins, chip, awake, rails, railsOn, tries, faults>>

\* Another frame, for which the rails are brought up again when they are off.
Again ==
    /\ drawn # << >> /\ drawn' = << >>
    /\ UNCHANGED <<pc, cache, pins, chip, awake, rails, railsOn, tries, faults>>

BoardOn == PowerOn \/ Wake \/ Quiet \/ Write \/ Pgood \/ Enable \/ Stop \/ Sleep \/ Output

BoardOff == PowerOff \/ OffVcom \/ OffStop \/ OffChip

Next == BoardOn \/ BoardOff \/ Draw \/ Again

Spec == Init /\ [][Next]_vars

TypeOK ==
    /\ cache \subseteq {"EN", "VCOM", "XOE"} /\ pins \subseteq {"EN", "VCOM", "XOE"}
    /\ chip.config \in {"reset", "mixed", "set"} /\ tries \in 0..Retry /\ faults \in 0..Faults
    /\ {awake, rails, railsOn, chip.on, chip.good} \subseteq BOOLEAN

(***************************************************************************)
(* Properties, with an expander that answers: what the converters' own     *)
(* chip does not acknowledge is covered by taking its enable away.         *)
(***************************************************************************)

\* At every moment VCOM is driven, and the panel's outputs are open, only while
\* the converters run and are good.
VoltagesInOrder == ({"VCOM", "XOE"} \cap pins # {}) => Good /\ chip.config = "set"

\* When the board has done and says that the rails are off, they are.
OffMeansOff == pc = "rest" /\ ~railsOn => pins = {} /\ ~chip.on /\ ~awake

\* A frame that counts as displayed was driven by rails that were up.
FrameIsDriven == drawn # << >> => (drawn[1] => drawn[2])

\* Whatever the expander missed before, the last write of a power-off that it
\* acknowledges takes every output back: the byte is written whole.
LastWriteHeals ==
    pc = "off chip" /\ pc' = "rest" /\ faults' = faults => pins' = {} /\ ~chip'.on /\ ~railsOn'
=============================================================================
