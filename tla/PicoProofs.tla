----------------------------- MODULE PicoProofs -----------------------------
(***************************************************************************)
(* The Read Pico: the high voltages of its panel (PicoRails), its start    *)
(* (PicoStart), its loop with the paper (PicoPanel), the mounting of its   *)
(* card (SdCard) and the history on it (TrendStore).                       *)
(*                                                                         *)
(* The high voltages are driven in their order, and off when they are said *)
(* to be, whatever the converters' chip fails to acknowledge; and taken    *)
(* back by the last write of a power-off that the expander acknowledges,   *)
(* whatever it missed before.  For any number of retries and of failed     *)
(* transfers.                                                              *)
(***************************************************************************)
EXTENDS PicoRails, Sequences, TLAPS

Chips == [on : BOOLEAN, config : {"reset", "mixed", "set"}, good : BOOLEAN]

Places ==
    {"rest", "wake", "quiet", "write", "pgood", "enable", "stop", "sleep", "output",
     "off vcom", "off stop", "off chip"}

Types ==
    /\ pc \in Places
    /\ cache \in SUBSET {"EN", "VCOM", "XOE"} /\ pins \in SUBSET {"EN", "VCOM", "XOE"}
    /\ chip \in Chips
    /\ awake \in BOOLEAN /\ rails \in BOOLEAN /\ railsOn \in BOOLEAN
    /\ tries \in 0 .. Retry /\ faults \in 0 .. Faults

\* The byte that is written whole loses its bits in order, expander or not.
Lowered ==
    /\ pc = "off vcom" => "XOE" \notin cache
    /\ pc \in {"off stop", "off chip"} => cache \subseteq {"EN"}

\* The places from which the converters' chip is enabled and nothing else is.
Enabled == {"quiet", "write", "pgood", "enable", "stop", "sleep", "off stop", "off chip"}

\* Where the board is says which outputs are set: all of them at rest with the
\* rails on, none with the rails off.
Outputs ==
    CASE pc = "rest" -> IF railsOn THEN {"EN", "VCOM", "XOE"} ELSE {}
      [] pc = "wake" -> {}
      [] pc \in Enabled -> {"EN"}
      [] OTHER -> {"EN", "VCOM"}

\* Where the voltages have been seen to be good, and are still driven.
Up == pc \in {"enable", "output", "off vcom"} \/ (pc = "rest" /\ railsOn)

\* With an expander that answers, the outputs are what the byte says, and the
\* chip is on and good whenever something depends on it.
Driven ==
    ~Expander =>
        /\ pins = cache /\ pins = Outputs
        /\ awake <=> "EN" \in pins
        /\ "EN" \notin pins => chip = Fresh
        /\ pc = "pgood" => chip.config = "set"
        /\ Up => Good /\ chip.config = "set"
        /\ railsOn => pc \in {"rest", "off vcom", "off stop", "off chip"}
        /\ FrameIsDriven

RailsInv == Types /\ Lowered /\ Driven

-----------------------------------------------------------------------------
\* What a write of the byte may leave, whoever looks at its result.
Written(byte, ok) ==
    /\ cache' = byte
    /\ pins' \in {pins, byte} /\ (ok \/ ~Expander => pins' = byte)
    /\ ~Expander => ok
    /\ faults' \in 0 .. Faults /\ (~ok => faults' # faults)
    /\ chip' = IF "EN" \in pins' THEN chip ELSE Fresh

\* A commit writes the byte, or, with an expander that may fail, leaves it.
LEMMA CommitWrites ==
  ASSUME ConstantsOK, RailsInv, NEW byte, NEW ok \in BOOLEAN, Commit(byte, ok)
  PROVE  Written(byte, ok)
  BY DEF Commit, Written, ConstantsOK, RailsInv, Types

\* What a write leaves has its type.
LEMMA WrittenTypes ==
  ASSUME ConstantsOK, RailsInv, NEW byte \in SUBSET {"EN", "VCOM", "XOE"}, NEW ok, Written(byte, ok)
  PROVE  /\ cache' \in SUBSET {"EN", "VCOM", "XOE"} /\ pins' \in SUBSET {"EN", "VCOM", "XOE"}
         /\ chip' \in Chips /\ faults' \in 0 .. Faults
  BY DEF Written, RailsInv, Types, Chips, Fresh

\* A frame asks for the rails.
LEMMA PowerOnKeeps ==
  ASSUME ConstantsOK, RailsInv, PowerOn
  PROVE  RailsInv'
  <1>1. PICK ok \in BOOLEAN : Commit(cache \ {"XOE"}, ok)
    BY DEF PowerOn, Commits
  <1>2. Written(cache \ {"XOE"}, ok)
    BY <1>1, CommitWrites
  <1>3. Types'
    BY <1>1, <1>2, WrittenTypes DEF PowerOn, RailsInv, Types, Places, ConstantsOK
  <1>4. Lowered'
    BY <1>1, <1>2 DEF PowerOn, Written, RailsInv, Types, Lowered
  <1>5. Driven'
    BY <1>1, <1>2 DEF PowerOn, Written, RailsInv, Driven, Outputs, Enabled, Up, FrameIsDriven
  <1> QED BY <1>3, <1>4, <1>5 DEF RailsInv

\* The chip is enabled, with its registers as after a reset.
LEMMA WakeKeeps ==
  ASSUME ConstantsOK, RailsInv, Wake
  PROVE  RailsInv'
  <1>1. CASE awake
    <2>1. Types'
      BY <1>1 DEF Wake, RailsInv, Types, Places
    <2>2. Lowered' /\ Driven'
      BY <1>1 DEF Wake, RailsInv, Lowered, Driven, Outputs, Enabled
    <2> QED BY <2>1, <2>2 DEF RailsInv
  <1>2. CASE ~awake
    <2>1. PICK ok \in BOOLEAN : /\ Commit(cache \cup {"EN"}, ok)
                                /\ awake' = ok /\ pc' = IF ok THEN "quiet" ELSE "rest"
      BY <1>2 DEF Wake
    <2>2. Written(cache \cup {"EN"}, ok)
      BY <2>1, CommitWrites
    <2>3. Types'
      BY <2>1, <2>2, WrittenTypes DEF Wake, RailsInv, Types, Places
    <2>4. Lowered'
      BY <2>1 DEF Lowered
    <2>5. Driven'
      BY <1>2, <2>1, <2>2 DEF Wake, Written, RailsInv, Driven, Outputs, Enabled, Up, FrameIsDriven
    <2> QED BY <2>3, <2>4, <2>5 DEF RailsInv
  <1> QED BY <1>1, <1>2

\* VCOM goes down before the chip is configured.
LEMMA QuietKeeps ==
  ASSUME ConstantsOK, RailsInv, Quiet
  PROVE  RailsInv'
  <1>1. PICK ok \in BOOLEAN : Commit(cache \ {"VCOM"}, ok)
    BY DEF Quiet, Commits
  <1>2. Written(cache \ {"VCOM"}, ok)
    BY <1>1, CommitWrites
  <1>3. Types'
    BY <1>1, <1>2, WrittenTypes DEF Quiet, RailsInv, Types, Places, ConstantsOK
  <1>4. Lowered'
    BY <1>1, <1>2 DEF Quiet, Written, RailsInv, Types, Lowered
  <1>5. Driven'
    BY <1>1, <1>2 DEF Quiet, Written, RailsInv, Driven, Outputs, Enabled, Up, FrameIsDriven
  <1> QED BY <1>3, <1>4, <1>5 DEF RailsInv

\* The registers are written once more after each failure.
LEMMA WriteKeeps ==
  ASSUME ConstantsOK, RailsInv, Write
  PROVE  RailsInv'
  <1>1. Types'
    <2>1. PICK g \in BOOLEAN :
            chip' \in {chip, [chip EXCEPT !.config = "mixed"], [on |-> TRUE, config |-> "set", good |-> g]}
      BY DEF Write
    <2>2. chip' \in Chips
      <3>1. [chip EXCEPT !.config = "mixed"] \in Chips /\ chip \in Chips
        BY DEF RailsInv, Types, Chips
      <3>2. [on |-> TRUE, config |-> "set", good |-> g] \in Chips
        BY DEF Chips
      <3> QED BY <2>1, <3>1, <3>2
    <2>3. /\ pc' \in {"pgood", "sleep", "write"}
          /\ tries > 0 /\ tries' \in {tries, tries - 1}
          /\ faults' = faults \/ (faults > 0 /\ faults' = faults - 1)
      BY DEF Write
    <2>4. tries' \in 0 .. Retry /\ faults' \in 0 .. Faults
      BY <2>3 DEF ConstantsOK, RailsInv, Types
    <2> QED BY <2>2, <2>3, <2>4 DEF Write, Writes, RailsInv, Types, Places
  <1>2. Lowered'
    BY DEF Write, Writes, RailsInv, Types, Lowered
  <1>3. Driven'
    <2> SUFFICES ASSUME ~Expander
                 PROVE  Driven'
      BY DEF Driven
    <2>1. /\ pins' = pins /\ cache' = cache /\ "EN" \in pins /\ pins = {"EN"}
          /\ pc' \in {"pgood", "write", "sleep"} /\ UNCHANGED <<awake, rails, railsOn, drawn>>
          /\ ~railsOn
      BY DEF Write, Writes, RailsInv, Driven, Outputs, Enabled
    <2>2. pc' = "pgood" => chip'.config = "set"
      BY DEF Write
    <2>3. FrameIsDriven'
      BY <2>1 DEF Write, RailsInv, Driven, FrameIsDriven
    <2> QED BY <2>1, <2>2, <2>3 DEF RailsInv, Driven, Outputs, Enabled, Up
  <1> QED BY <1>1, <1>2, <1>3 DEF RailsInv

\* The rails are waited for.
LEMMA PgoodKeeps ==
  ASSUME ConstantsOK, RailsInv, Pgood
  PROVE  RailsInv'
  <1>1. Types'
    BY DEF Pgood, Writes, RailsInv, Types, Places
  <1>2. Lowered'
    BY DEF Pgood, Lowered
  <1>3. Driven'
    BY DEF Pgood, PowerGood, Writes, RailsInv, Driven, Outputs, Enabled, Up, Good, FrameIsDriven
  <1> QED BY <1>1, <1>2, <1>3 DEF RailsInv

\* VCOM is driven by rails that are good.
LEMMA EnableKeeps ==
  ASSUME ConstantsOK, RailsInv, Enable
  PROVE  RailsInv'
  <1>1. PICK ok \in BOOLEAN : /\ Commit(cache \cup {"VCOM"}, ok)
                              /\ rails' = ok /\ pc' = IF ok THEN "output" ELSE "stop"
    BY DEF Enable
  <1>2. Written(cache \cup {"VCOM"}, ok)
    BY <1>1, CommitWrites
  <1>3. Types'
    BY <1>1, <1>2, WrittenTypes DEF Enable, RailsInv, Types, Places, ConstantsOK
  <1>4. Lowered'
    BY <1>1, <1>2 DEF Enable, Written, RailsInv, Types, Lowered
  <1>5. Driven'
    BY <1>1, <1>2 DEF Enable, Written, RailsInv, Driven, Outputs, Enabled, Up, Good, FrameIsDriven
  <1> QED BY <1>3, <1>4, <1>5 DEF RailsInv

\* What failed is stopped, as far as the chip answers.
LEMMA StopKeeps ==
  ASSUME ConstantsOK, RailsInv, Stop
  PROVE  RailsInv'
  <1>1. Types'
    <2>1. chip' \in Chips
      BY DEF Stop, RailsInv, Types, Chips
    <2>2. faults' \in 0 .. Faults
      BY DEF Stop, RailsInv, Types, ConstantsOK
    <2> QED BY <2>1, <2>2 DEF Stop, Writes, RailsInv, Types, Places
  <1>2. Lowered'
    BY DEF Stop, Writes, RailsInv, Types, Lowered
  <1>3. Driven'
    BY DEF Stop, Writes, RailsInv, Driven, Outputs, Enabled, Up, FrameIsDriven
  <1> QED BY <1>1, <1>2, <1>3 DEF RailsInv

\* Taking the enable away stops what did not answer.
LEMMA SleepKeeps ==
  ASSUME ConstantsOK, RailsInv, Sleep
  PROVE  RailsInv'
  <1>1. PICK ok \in BOOLEAN : Commit(cache \ {"EN"}, ok)
    BY DEF Sleep, Asleep, Commits
  <1>2. Written(cache \ {"EN"}, ok)
    BY <1>1, CommitWrites
  <1>3. Types'
    BY <1>1, <1>2, WrittenTypes DEF Sleep, RailsInv, Types, Places
  <1>4. Lowered'
    BY <1>1, <1>2 DEF Sleep, Lowered
  <1>5. Driven'
    BY <1>1, <1>2 DEF Sleep, Written, RailsInv, Driven, Outputs, Enabled, Up, FrameIsDriven
  <1> QED BY <1>3, <1>4, <1>5 DEF RailsInv

\* The outputs are opened last.
LEMMA OutputKeeps ==
  ASSUME ConstantsOK, RailsInv, Output
  PROVE  RailsInv'
  <1>1. PICK ok \in BOOLEAN : Commit(cache \cup {"XOE"}, ok)
    BY DEF Output, Commits
  <1>2. Written(cache \cup {"XOE"}, ok)
    BY <1>1, CommitWrites
  <1>3. Types'
    BY <1>1, <1>2, WrittenTypes DEF Output, RailsInv, Types, Places, ConstantsOK
  <1>4. Lowered'
    BY <1>1, <1>2 DEF Output, Written, RailsInv, Types, Lowered
  <1>5. Driven'
    BY <1>1, <1>2 DEF Output, Written, RailsInv, Driven, Outputs, Enabled, Up, Good, FrameIsDriven
  <1> QED BY <1>3, <1>4, <1>5 DEF RailsInv

\* The outputs are closed first.
LEMMA PowerOffKeeps ==
  ASSUME ConstantsOK, RailsInv, PowerOff
  PROVE  RailsInv'
  <1>1. PICK ok \in BOOLEAN : Commit(cache \ {"XOE"}, ok)
    BY DEF PowerOff, Commits
  <1>2. Written(cache \ {"XOE"}, ok)
    BY <1>1, CommitWrites
  <1>3. Types'
    BY <1>1, <1>2, WrittenTypes DEF PowerOff, RailsInv, Types, Places, ConstantsOK
  <1>4. Lowered'
    BY <1>1, <1>2 DEF PowerOff, Written, RailsInv, Types, Lowered
  <1>5. Driven'
    BY <1>1, <1>2 DEF PowerOff, Written, RailsInv, Driven, Outputs, Enabled, Up, Good, FrameIsDriven
  <1> QED BY <1>3, <1>4, <1>5 DEF RailsInv

\* VCOM goes down while the rails are still good.
LEMMA OffVcomKeeps ==
  ASSUME ConstantsOK, RailsInv, OffVcom
  PROVE  RailsInv'
  <1>1. PICK ok \in BOOLEAN : Commit(cache \ {"VCOM"}, ok)
    BY DEF OffVcom, LowersFirst, Commits
  <1>2. Written(cache \ {"VCOM"}, ok)
    BY <1>1, CommitWrites
  <1>3. Types'
    BY <1>1, <1>2, WrittenTypes DEF OffVcom, RailsInv, Types, Places
  <1>4. Lowered'
    BY <1>1, <1>2 DEF OffVcom, Written, RailsInv, Types, Lowered
  <1>5. Driven'
    BY <1>1, <1>2 DEF OffVcom, Written, RailsInv, Driven, Outputs, Enabled, Up, FrameIsDriven
  <1> QED BY <1>3, <1>4, <1>5 DEF RailsInv

\* The converters stop, or the chip does not answer.
LEMMA OffStopKeeps ==
  ASSUME ConstantsOK, RailsInv, OffStop
  PROVE  RailsInv'
  <1>1. Types'
    <2>1. chip' \in Chips
      BY DEF OffStop, RailsInv, Types, Chips
    <2>2. faults' \in 0 .. Faults
      <3>1. faults' = faults \/ (faults > 0 /\ faults' = faults - 1)
        BY DEF OffStop, Writes
      <3> QED BY <3>1 DEF RailsInv, Types, ConstantsOK
    <2> QED BY <2>1, <2>2 DEF OffStop, Writes, RailsInv, Types, Places
  <1>2. Lowered'
    BY DEF OffStop, Writes, RailsInv, Types, Lowered
  <1>3. Driven'
    BY DEF OffStop, Writes, RailsInv, Driven, Outputs, Enabled, Up, FrameIsDriven
  <1> QED BY <1>1, <1>2, <1>3 DEF RailsInv

\* The chip is disabled: whatever it did not answer is undone.
LEMMA OffChipKeeps ==
  ASSUME ConstantsOK, RailsInv, OffChip
  PROVE  RailsInv'
  <1>1. PICK ok \in BOOLEAN : Commit(cache \ {"EN"}, ok)
    BY DEF OffChip, Commits
  <1>2. Written(cache \ {"EN"}, ok)
    BY <1>1, CommitWrites
  <1>3. Types'
    BY <1>1, <1>2, WrittenTypes DEF OffChip, RailsInv, Types, Places, ConstantsOK
  <1>4. Lowered'
    BY <1>1, <1>2 DEF OffChip, Written, RailsInv, Types, Lowered
  <1>5. Driven'
    BY <1>1, <1>2 DEF OffChip, Written, RailsInv, Driven, Outputs, Enabled, Up, FrameIsDriven
  <1> QED BY <1>3, <1>4, <1>5 DEF RailsInv

\* A frame is drawn.
LEMMA DrawKeeps ==
  ASSUME ConstantsOK, RailsInv, Draw
  PROVE  RailsInv'
  <1>1. Types'
    BY DEF Draw, RailsInv, Types
  <1>2. Lowered'
    BY DEF Draw, RailsOn, RailsInv, Types, Lowered
  <1>3. Driven'
    BY DEF Draw, RailsOn, RailsInv, Driven, Outputs, Enabled, Up, Good, FrameIsDriven
  <1> QED BY <1>1, <1>2, <1>3 DEF RailsInv

\* The next frame.
LEMMA AgainKeeps ==
  ASSUME ConstantsOK, RailsInv, Again
  PROVE  RailsInv'
  <1>1. Types'
    BY DEF Again, RailsInv, Types
  <1>2. Lowered'
    BY DEF Again, RailsInv, Types, Lowered
  <1>3. Driven'
    BY DEF Again, RailsInv, Driven, Outputs, Up, Good, FrameIsDriven
  <1> QED BY <1>1, <1>2, <1>3 DEF RailsInv

\* The first state, at rest with everything off, satisfies the invariant.
LEMMA RailsStart == ASSUME ConstantsOK, Init PROVE RailsInv
  <1>1. Types
    <2>1. chip \in Chips
      BY DEF Init, Chips, Fresh
    <2>2. tries \in 0 .. Retry /\ faults \in 0 .. Faults
      BY DEF Init, ConstantsOK
    <2> QED BY <2>1, <2>2 DEF Init, Types, Places
  <1>2. Lowered
    BY DEF Init, Lowered
  <1>3. FrameIsDriven
    BY DEF Init, FrameIsDriven
  <1>4. Driven
    BY <1>3 DEF Init, Driven, Outputs, Enabled, Up
  <1> QED BY <1>1, <1>2, <1>4 DEF RailsInv

\* Every step keeps the invariant.
LEMMA RailsKeep ==
  ASSUME ConstantsOK, RailsInv, [Next]_vars
  PROVE  RailsInv'
  <1>1. CASE BoardOn
    BY <1>1, PowerOnKeeps, WakeKeeps, QuietKeeps, WriteKeeps, PgoodKeeps, EnableKeeps, StopKeeps,
       SleepKeeps, OutputKeeps DEF BoardOn
  <1>2. CASE BoardOff
    BY <1>2, PowerOffKeeps, OffVcomKeeps, OffStopKeeps, OffChipKeeps DEF BoardOff
  <1>3. CASE UNCHANGED vars
    BY <1>3 DEF vars, RailsInv, Types, Lowered, Driven, Outputs, Up, Good, FrameIsDriven
  <1> QED BY <1>1, <1>2, <1>3, DrawKeeps, AgainKeeps DEF Next

\* The board's steps keep the invariant.
THEOREM RailsInvariant == ASSUME ConstantsOK PROVE Spec => []RailsInv
  <1>1. Init => RailsInv
    BY RailsStart
  <1>2. RailsInv /\ [Next]_vars => RailsInv'
    BY RailsKeep
  <1> QED BY <1>1, <1>2, PTL DEF Spec

\* Every variable of the rails keeps its type.
THEOREM RailsTypes == ASSUME ConstantsOK PROVE Spec => []TypeOK
  <1>1. RailsInv => TypeOK
    BY DEF RailsInv, Types, Chips, TypeOK
  <1> QED BY <1>1, RailsInvariant, PTL

\* VCOM is driven, and the panel's outputs are open, only while the converters
\* run and are good (board_poweron(), board_poweroff()).
THEOREM RailsInOrder == ASSUME ConstantsOK, ~Expander PROVE Spec => []VoltagesInOrder
  <1>1. RailsInv => VoltagesInOrder
    BY DEF RailsInv, Types, Places, Driven, Outputs, Enabled, Up, VoltagesInOrder
  <1> QED BY <1>1, RailsInvariant, PTL

\* When the board has done and says that the rails are off, they are.
THEOREM RailsOff == ASSUME ConstantsOK, ~Expander PROVE Spec => []OffMeansOff
  <1>1. RailsInv => OffMeansOff
    <2> SUFFICES ASSUME RailsInv, pc = "rest", ~railsOn
                 PROVE  pins = {} /\ ~chip.on /\ ~awake
      BY DEF OffMeansOff
    <2>1. pins = {}
      BY DEF RailsInv, Driven, Outputs, Enabled
    <2> QED BY <2>1 DEF RailsInv, Driven, Fresh
  <1> QED BY <1>1, RailsInvariant, PTL

\* A frame that counts as displayed was driven by rails that were up
\* (DisplayUi::render() after epd_poweron()).
THEOREM RailsDrive == ASSUME ConstantsOK, ~Expander PROVE Spec => []FrameIsDriven
  <1>1. RailsInv => FrameIsDriven
    BY DEF RailsInv, Driven
  <1> QED BY <1>1, RailsInvariant, PTL

\* The last write of a power-off that is acknowledged takes every output back,
\* whatever the expander missed before (board_poweroff()).
THEOREM RailsHeal == ASSUME ConstantsOK PROVE Spec => [][LastWriteHeals]_vars
  <1>1. RailsInv /\ [Next]_vars => [LastWriteHeals]_vars
    <2> SUFFICES ASSUME ConstantsOK, RailsInv, Next, pc = "off chip", pc' = "rest", faults' = faults
                 PROVE  pins' = {} /\ ~chip'.on /\ ~railsOn'
      BY DEF LastWriteHeals
    <2>1. OffChip
      BY DEF Next, BoardOn, BoardOff, PowerOn, Wake, Quiet, Write, Pgood, Enable, Stop, Sleep, Output,
             PowerOff, OffVcom, OffStop, Draw, Again
    <2>2. PICK ok \in BOOLEAN : Commit(cache \ {"EN"}, ok)
      BY <2>1 DEF OffChip, Commits
    <2>3. Written(cache \ {"EN"}, ok)
      BY <2>2, CommitWrites
    <2>4. cache \ {"EN"} = {}
      BY DEF RailsInv, Lowered
    <2>5. pins' = {}
      BY <2>3, <2>4 DEF Written
    <2> QED BY <2>1, <2>3, <2>5 DEF OffChip, Written, Fresh
  <1> QED BY <1>1, RailsInvariant, PTL DEF Spec

(***************************************************************************)
(* The start, PicoStart, for any number of failed transfers, restarts and  *)
(* power cuts.  StartInv says how far the self-test has taken the outputs  *)
(* back (Tested), that the touch panel is out of reset afterwards, and     *)
(* what a start that lost no transfer has reached (Reached).               *)
(***************************************************************************)
CONSTANTS StartFaults, Crashes, Held
VARIABLES at, step, again, output, port, converters, held, sensor, hw, vcom, asks, left, crashes, lost

Start ==
    INSTANCE PicoStart WITH
        Faults <- StartFaults, pc <- at, cache <- output, chip <- converters, tries <- asks, faults <- left

AfterReset == {"display", "lcd", "dma", "control", "render", "default", "waveform", "buffers",
               "sensor", "sleep", "pmu", "touch", "vcom", "wake"}

Tested ==
    /\ at \in {"recover", "test"} => output = {}
    /\ at = "recover" => step = 1
    /\ at = "test" /\ step > 3 => port.driven
    /\ at = "test" /\ step > 7 => ~converters /\ port.out \cap Start!Voltages = {}
    /\ at = "reset" => step \in 1..4
    /\ at \in AfterReset => "TP" \in output /\ "TP" \in port.out

Reached ==
    /\ lost + asks >= 3 /\ lost + left <= StartFaults
    /\ lost = 0 =>
        /\ at = "sleep" => sensor = [on |-> TRUE, powered |-> TRUE]
        /\ at \in {"pmu", "touch", "vcom", "wake"} => sensor = [on |-> FALSE, powered |-> FALSE]
        /\ at \in {"pmu", "touch", "vcom", "wake", "up"} => "sensor" \in hw
        /\ at \in {"touch", "vcom", "wake", "up"} => "pmu" \in hw
        /\ at \in {"vcom", "wake", "up"} => "touch" \in hw
        /\ at = "up" => sensor.on
    /\ at \in {"wake", "up"} /\ "pmu" \in hw /\ lost < 3 => vcom = "panel"

StartInv == Start!TypeOK /\ Start!BusIsFreed /\ Start!StartsDark /\ Tested /\ Reached

Ports == [out : SUBSET Start!Pins, driven : BOOLEAN]
Sensors == [on : BOOLEAN, powered : BOOLEAN]

LEMMA StartBegins == ASSUME Start!ConstantsOK PROVE Start!Init => StartInv
  <1> SUFFICES ASSUME Start!Init PROVE StartInv
    OBVIOUS
  <1> USE DEF Start!Init
  <1>1. Start!TypeOK
    <2>1. port \in Ports
      BY DEF Ports
    <2>2. sensor \in Sensors
      BY DEF Sensors
    <2>3. /\ held \in 0..Held /\ left \in 0..StartFaults /\ crashes \in 0..Crashes
          /\ lost \in 0..StartFaults /\ asks \in 0..3 /\ step \in 1..12
      BY DEF Start!ConstantsOK
    <2> QED
      BY <2>1, <2>2, <2>3 DEF Start!TypeOK, Ports, Sensors
  <1>2. Start!BusIsFreed /\ Start!StartsDark /\ Tested
    BY DEF Start!BusIsFreed, Start!StartsDark, Tested, AfterReset
  <1>3. Reached
    BY DEF Reached, Start!ConstantsOK
  <1> QED
    BY <1>1, <1>2, <1>3 DEF StartInv

\* A restart: the program forgets, the expander and the power chip do not.
LEMMA RestartKeeps ==
    ASSUME Start!ConstantsOK, StartInv, Start!Restarts,
           port' \in Ports, converters' \in BOOLEAN, left' \in 0..StartFaults, crashes' \in 0..Crashes
    PROVE  StartInv'
  <1>1. Start!TypeOK'
    <2>1. sensor' \in Sensors
      BY DEF Start!Restarts, StartInv, Start!TypeOK, Sensors
    <2>2. held' \in 0..Held /\ lost' \in 0..StartFaults /\ asks' \in 0..3 /\ step' \in 1..12
      BY DEF Start!Restarts, Start!ConstantsOK
    <2> QED
      BY <2>1, <2>2 DEF Start!Restarts, Start!TypeOK, Ports, Sensors
  <1>2. Start!BusIsFreed' /\ Start!StartsDark' /\ Tested'
    BY DEF Start!Restarts, Start!BusIsFreed, Start!StartsDark, Tested, AfterReset
  <1>3. Reached'
    BY DEF Start!Restarts, Reached, Start!ConstantsOK
  <1> QED
    BY <1>1, <1>2, <1>3 DEF StartInv

\* What a step of the self-test or of the reset makes of the outputs.
LEMMA PortedFacts ==
    ASSUME StartInv, NEW s \in {"probe", "read", "inputs", "drive", "boot", "mode", "hold", "release"}
    PROVE  /\ Start!Ported(s) \in Ports
           /\ s = "drive" \/ port.driven => Start!Ported(s).driven
           /\ s = "boot" => Start!Ported(s).out = {"MODE", "TP"}
           /\ s \in {"probe", "read", "inputs", "drive"} => Start!Ported(s).out = port.out
           /\ s = "mode" => Start!Ported(s).out = {"MODE"}
           /\ s = "hold" => Start!Ported(s).out = output \ {"TP"}
           /\ s = "release" => Start!Ported(s).out = output \cup {"TP"}
  <1>1. port \in Ports /\ output \subseteq Start!Pins
    BY DEF StartInv, Start!TypeOK, Ports
  <1>2. CASE s \in {"probe", "read", "inputs"}
    BY <1>1, <1>2 DEF Start!Ported
  <1>3. CASE s = "drive"
    BY <1>1, <1>3 DEF Start!Ported, Ports
  <1>4. CASE s \in {"boot", "mode"}
    BY <1>1, <1>4 DEF Start!Ported, Ports, Start!Boot, Start!Pins
  <1>5. CASE s = "hold"
    BY <1>1, <1>5 DEF Start!Ported, Start!Cached, Ports, Start!Pins
  <1>6. CASE s = "release"
    BY <1>1, <1>6 DEF Start!Ported, Start!Cached, Ports, Start!Pins
  <1> QED
    BY <1>2, <1>3, <1>4, <1>5, <1>6

\* The self-test: however often it begins again, what it has written stays.
LEMMA SelfTestKeeps ==
    ASSUME Start!ConstantsOK, StartInv, Start!SelfTest
    PROVE  StartInv'
  <1> DEFINE s == Start!Test[step]
  <1>1. /\ at = "test" /\ crashes' = crashes /\ step \in 1..12 /\ output = {} /\ held = 0
        /\ port \in Ports /\ converters \in BOOLEAN /\ left \in 0..StartFaults /\ crashes \in 0..Crashes
    BY DEF Start!SelfTest, StartInv, Start!TypeOK, Tested, Ports, Start!BusIsFreed
  <1>2. /\ s \in {"probe", "read", "drive", "inputs", "boot", "mode"}
        /\ step = 3 => s = "drive"
        /\ step = 7 => s = "boot"
        /\ step > 7 => s \in {"read", "mode", "boot"}
        /\ Len(Start!Test) = 12
    BY <1>1 DEF Start!Test
  <1> HIDE DEF s
  <1>3. /\ Start!Ported(s) \in Ports
        /\ s = "drive" \/ port.driven => Start!Ported(s).driven
        /\ s = "boot" => Start!Ported(s).out = {"MODE", "TP"}
        /\ s \in {"probe", "read", "inputs", "drive"} => Start!Ported(s).out = port.out
        /\ s = "mode" => Start!Ported(s).out = {"MODE"}
    BY <1>2, PortedFacts
  <1>4. \/ /\ Start!Transfer(Start!Ported(s), TRUE)
           /\ IF step < 12 THEN step' = step + 1 /\ at' = at ELSE step' = 1 /\ at' = "reset"
           /\ UNCHANGED <<again, output, held, sensor, hw, vcom, asks>>
        \/ /\ Start!Transfer(Start!Ported(s), FALSE)
           /\ again' = TRUE /\ step' = 1
           /\ UNCHANGED <<at, output, held, sensor, hw, vcom, asks>>
        \/ /\ left > 0 /\ left' = left - 1
           /\ Start!Becomes(Start!Ported(s)) \/ Start!Stays
           /\ Start!Restarts
    BY <1>2 DEF Start!SelfTest, s
  <1>5. CASE /\ Start!Transfer(Start!Ported(s), TRUE)
             /\ IF step < 12 THEN step' = step + 1 /\ at' = at ELSE step' = 1 /\ at' = "reset"
             /\ UNCHANGED <<again, output, held, sensor, hw, vcom, asks>>
    <2>1. /\ port' = Start!Ported(s) /\ left' = left /\ lost' = lost
          /\ converters' = (converters /\ Start!Ported(s).driven /\ "EN" \in Start!Ported(s).out)
      BY <1>5 DEF Start!Transfer, Start!Becomes, Start!Passes
    <2>2. step > 2 => port'.driven
      BY <1>1, <1>2, <1>3, <2>1 DEF StartInv, Tested
    <2>3. step > 6 => ~converters' /\ port'.out \cap Start!Voltages = {}
      <3>1. CASE step = 7
        <4>1. Start!Ported(s).out = {"MODE", "TP"}
          BY <1>2, <1>3, <3>1
        <4>2. port'.out = {"MODE", "TP"} /\ ~converters'
          BY <2>1, <4>1
        <4> QED
          BY <4>2 DEF Start!Voltages
      <3>2. CASE step > 7
        <4>1. ~converters /\ port.out \cap Start!Voltages = {}
          BY <1>1, <3>2 DEF StartInv, Tested
        <4>2. ~converters'
          BY <2>1, <4>1
        <4>3. CASE s = "read"
          <5>1. port'.out = port.out
            BY <1>3, <2>1, <4>3
          <5> QED
            BY <4>1, <4>2, <5>1
        <4>4. CASE s \in {"mode", "boot"}
          <5>1. port'.out = {"MODE", "TP"} \/ port'.out = {"MODE"}
            BY <1>3, <2>1, <4>4
          <5> QED
            BY <4>2, <5>1 DEF Start!Voltages
        <4> QED
          BY <1>2, <3>2, <4>3, <4>4
      <3> QED
        BY <1>1, <3>1, <3>2
    <2>4. Start!TypeOK'
      BY <1>1, <1>3, <1>5, <2>1 DEF StartInv, Start!TypeOK, Ports
    <2>5. Start!BusIsFreed' /\ Reached'
      BY <1>1, <1>5, <2>1 DEF StartInv, Start!BusIsFreed, Reached
    <2>6. Start!StartsDark' /\ Tested'
      BY <1>1, <1>5, <2>2, <2>3 DEF Start!StartsDark, Tested, AfterReset
    <2> QED
      BY <2>4, <2>5, <2>6 DEF StartInv
  <1>6. CASE /\ Start!Transfer(Start!Ported(s), FALSE)
             /\ again' = TRUE /\ step' = 1
             /\ UNCHANGED <<at, output, held, sensor, hw, vcom, asks>>
    <2>1. /\ left > 0 /\ left' = left - 1 /\ lost' = lost + 1
          /\ Start!Becomes(Start!Ported(s)) \/ Start!Stays
      BY <1>6 DEF Start!Transfer, Start!Loses
    <2>2. port' \in Ports /\ converters' \in BOOLEAN
      BY <1>1, <1>3, <2>1 DEF Start!Becomes, Start!Stays
    <2>3. /\ left' \in 0..StartFaults /\ lost' \in 0..StartFaults /\ lost' + left' <= StartFaults
          /\ lost' + asks' >= 3 /\ lost' # 0
      BY <1>1, <1>6, <2>1 DEF StartInv, Start!TypeOK, Reached, Start!ConstantsOK
    <2>4. Start!TypeOK'
      BY <1>1, <1>6, <2>2, <2>3 DEF StartInv, Start!TypeOK, Ports
    <2>5. Start!BusIsFreed' /\ Start!StartsDark' /\ Tested' /\ Reached'
      BY <1>1, <1>6, <2>3 DEF StartInv, Start!BusIsFreed, Start!StartsDark, Tested, Reached, AfterReset
    <2> QED
      BY <2>4, <2>5 DEF StartInv
  <1>7. CASE /\ left > 0 /\ left' = left - 1
             /\ Start!Becomes(Start!Ported(s)) \/ Start!Stays
             /\ Start!Restarts
    <2>1. port' \in Ports /\ converters' \in BOOLEAN
      BY <1>1, <1>3, <1>7 DEF Start!Becomes, Start!Stays
    <2>2. left' \in 0..StartFaults
      BY <1>1, <1>7 DEF Start!ConstantsOK
    <2> QED
      BY <1>1, <1>7, <2>1, <2>2, RestartKeeps
  <1> QED
    BY <1>4, <1>5, <1>6, <1>7

\* The outputs through the cache: the touch panel is held in reset and let go.
LEMMA ResetKeeps ==
    ASSUME Start!ConstantsOK, StartInv, Start!ResetTouch
    PROVE  StartInv'
  <1> DEFINE s == Start!Reset[step]
  <1>1. /\ at = "reset" /\ crashes' = crashes /\ step \in 1..4 /\ held = 0 /\ output \subseteq Start!Pins
        /\ port \in Ports /\ converters \in BOOLEAN /\ ~converters /\ left \in 0..StartFaults /\ crashes \in 0..Crashes
        /\ port.driven /\ port.out \cap Start!Voltages = {} /\ output \cap Start!Voltages = {}
    BY DEF Start!ResetTouch, StartInv, Start!TypeOK, Tested, Ports, Start!BusIsFreed, Start!StartsDark
  <1>2. /\ s \in {"drive", "boot", "hold", "release"}
        /\ step = 4 => s = "release"
        /\ Len(Start!Reset) = 4
    BY <1>1 DEF Start!Reset
  <1> HIDE DEF s
  <1>3. /\ Start!Ported(s) \in Ports /\ Start!Ported(s).driven
        /\ s = "boot" => Start!Ported(s).out = {"MODE", "TP"}
        /\ s = "drive" => Start!Ported(s).out = port.out
        /\ s = "hold" => Start!Ported(s).out = output \ {"TP"}
        /\ s = "release" => Start!Ported(s).out = output \cup {"TP"}
    BY <1>1, <1>2, PortedFacts
  <1>4. Start!Ported(s).out \cap Start!Voltages = {}
    BY <1>1, <1>2, <1>3 DEF Start!Voltages
  <1>5. /\ Start!Cached(s) \subseteq Start!Pins /\ Start!Cached(s) \cap Start!Voltages = {}
        /\ s = "release" => "TP" \in Start!Cached(s)
    BY <1>1, <1>2 DEF Start!Cached, Start!Voltages, Start!Pins, Start!Boot
  <1>6. \/ /\ Start!Transfer(Start!Ported(s), TRUE) /\ output' = Start!Cached(s)
           /\ IF step < 4 THEN step' = step + 1 /\ at' = at ELSE step' = 1 /\ at' = "display"
           /\ UNCHANGED <<again, held, sensor, hw, vcom, asks>>
        \/ /\ left > 0 /\ left' = left - 1
           /\ Start!Becomes(Start!Ported(s)) \/ Start!Stays
           /\ Start!Restarts
    BY <1>2 DEF Start!ResetTouch, s
  <1>7. CASE /\ Start!Transfer(Start!Ported(s), TRUE) /\ output' = Start!Cached(s)
             /\ IF step < 4 THEN step' = step + 1 /\ at' = at ELSE step' = 1 /\ at' = "display"
             /\ UNCHANGED <<again, held, sensor, hw, vcom, asks>>
    <2>1. /\ port' = Start!Ported(s) /\ left' = left /\ lost' = lost
          /\ converters' \in BOOLEAN /\ ~converters'
      BY <1>1, <1>7 DEF Start!Transfer, Start!Becomes, Start!Passes
    <2>2. Start!TypeOK'
      BY <1>1, <1>3, <1>5, <1>7, <2>1 DEF StartInv, Start!TypeOK, Ports
    <2>3. Start!BusIsFreed' /\ Reached'
      BY <1>1, <1>7, <2>1 DEF StartInv, Start!BusIsFreed, Reached
    <2>4. Start!StartsDark'
      BY <1>3, <1>4, <1>5, <1>7, <2>1 DEF Start!StartsDark
    <2>5. Tested'
      BY <1>1, <1>2, <1>3, <1>5, <1>7, <2>1 DEF Tested, AfterReset
    <2> QED
      BY <2>2, <2>3, <2>4, <2>5 DEF StartInv
  <1>8. CASE /\ left > 0 /\ left' = left - 1
             /\ Start!Becomes(Start!Ported(s)) \/ Start!Stays
             /\ Start!Restarts
    <2>1. port' \in Ports /\ converters' \in BOOLEAN
      BY <1>1, <1>3, <1>8 DEF Start!Becomes, Start!Stays
    <2>2. left' \in 0..StartFaults
      BY <1>1, <1>8 DEF Start!ConstantsOK
    <2> QED
      BY <1>1, <1>8, <2>1, <2>2, RestartKeeps
  <1> QED
    BY <1>6, <1>7, <1>8

\* What is left of the start moves no output: only Reached has to be looked at.
LEMMA CalmKeeps ==
    ASSUME StartInv, at \in AfterReset, at' \in AfterReset \cup {"up"},
           UNCHANGED <<step, again, output, port, converters, held, crashes>>,
           sensor' \in Sensors, hw' \subseteq Start!Devices, vcom' \in {"none", "board", "panel"},
           asks' \in 0..3, left' \in 0..StartFaults, lost' \in 0..StartFaults, Reached'
    PROVE  StartInv'
  <1>1. Start!TypeOK'
    BY DEF StartInv, Start!TypeOK, Sensors, AfterReset
  <1>2. Start!BusIsFreed' /\ Start!StartsDark' /\ Tested'
    BY DEF StartInv, Start!BusIsFreed, Start!StartsDark, Tested, AfterReset
  <1> QED
    BY <1>1, <1>2 DEF StartInv

\* Memory, a peripheral, a task: it is there, or the program begins again.
LEMMA SetsKeeps ==
    ASSUME Start!ConstantsOK, StartInv, NEW here \in AfterReset, NEW next \in AfterReset,
           next \notin {"sleep", "pmu", "touch", "vcom", "wake"}, Start!Sets(here, next)
    PROVE  StartInv'
  <1>1. at = here /\ UNCHANGED <<port, converters, left>>
    BY DEF Start!Sets, Start!Stays
  <1>2. CASE at' = next /\ UNCHANGED <<step, again, output, held, sensor, hw, vcom, asks, crashes, lost>>
    <2>1. Reached'
      BY <1>1, <1>2 DEF StartInv, Reached, AfterReset
    <2> QED
      BY <1>1, <1>2, <2>1, CalmKeeps DEF StartInv, Start!TypeOK, Sensors
  <1>3. CASE crashes > 0 /\ crashes' = crashes - 1 /\ Start!Restarts
    <2>1. /\ port' \in Ports /\ converters' \in BOOLEAN /\ left' \in 0..StartFaults
          /\ crashes' \in 0..Crashes
      BY <1>1, <1>3 DEF StartInv, Start!TypeOK, Start!ConstantsOK, Ports
    <2> QED
      BY <1>3, <2>1, RestartKeeps
  <1> QED
    BY <1>2, <1>3 DEF Start!Sets, Start!Obtains

\* i2c_bus_recover() gives more clocks than a slave may still want.
LEMMA RecoverKeeps == ASSUME Start!ConstantsOK, StartInv, Start!Recover PROVE StartInv'
  <1>1. held' = 0 /\ at' = "test" /\ output' = {} /\ step' = 1
    <2>1. held' = 0
      BY DEF Start!Recover, Start!Clocks, Start!ConstantsOK, StartInv, Start!TypeOK
    <2> QED
      BY <2>1 DEF Start!Recover, StartInv, Tested
  <1>2. Start!TypeOK'
    BY <1>1 DEF Start!Recover, StartInv, Start!TypeOK, Start!ConstantsOK
  <1>3. Start!BusIsFreed' /\ Start!StartsDark' /\ Tested' /\ Reached'
    BY <1>1 DEF Start!Recover, StartInv, Start!BusIsFreed, Start!StartsDark, Tested, Reached, AfterReset
  <1> QED
    BY <1>2, <1>3 DEF StartInv

\* The control register puts the bits of the display out of the cache; the
\* touch panel's reset is not one of them.
LEMMA ControlKeeps == ASSUME Start!ConstantsOK, StartInv, Start!Control PROVE StartInv'
  <1> DEFINE p == [port EXCEPT !.out = output \ {"MODE", "XOE"}]
  <1>1. /\ port \in Ports /\ output \subseteq Start!Pins /\ "TP" \in output /\ "TP" \in port.out
        /\ converters \in BOOLEAN /\ ~converters /\ held = 0
        /\ port.driven /\ port.out \cap Start!Voltages = {} /\ output \cap Start!Voltages = {}
    BY DEF Start!Control, StartInv, Start!TypeOK, Start!BusIsFreed, Start!StartsDark, Tested, AfterReset, Ports
  <1>2. p \in Ports /\ p.driven /\ p.out = output \ {"MODE", "XOE"}
    BY <1>1 DEF Ports
  <1> HIDE DEF p
  <1>3. /\ at = "control" /\ at' = "render" /\ output' = output \ {"MODE", "XOE"}
        /\ \E ok \in BOOLEAN : Start!Transfer(p, ok)
        /\ UNCHANGED <<step, again, held, sensor, hw, vcom, asks, crashes>>
    BY DEF Start!Control, p
  <1>4. /\ Start!Becomes(p) \/ Start!Stays
        /\ Start!Passes \/ Start!Loses
    BY <1>3 DEF Start!Transfer
  <1>5. /\ port' \in Ports /\ port'.driven /\ "TP" \in port'.out
        /\ port'.out \cap Start!Voltages = {}
        /\ converters' \in BOOLEAN /\ ~converters'
    <2>1. CASE Start!Becomes(p)
      <3>1. port' = p /\ converters' = (converters /\ p.driven /\ "EN" \in p.out)
        BY <2>1 DEF Start!Becomes
      <3> QED
        BY <1>1, <1>2, <3>1
    <2>2. CASE Start!Stays
      BY <1>1, <2>2 DEF Start!Stays
    <2> QED
      BY <1>4, <2>1, <2>2
  <1>6. /\ left' \in 0..StartFaults /\ lost' \in 0..StartFaults /\ lost' + left' <= StartFaults
        /\ lost' + asks >= 3
    BY <1>4 DEF Start!Passes, Start!Loses, StartInv, Start!TypeOK, Reached, Start!ConstantsOK
  <1>7. Start!TypeOK'
    BY <1>1, <1>3, <1>5, <1>6 DEF StartInv, Start!TypeOK, Ports
  <1>8. Start!BusIsFreed' /\ Start!StartsDark' /\ Tested' /\ Reached'
    BY <1>1, <1>3, <1>5, <1>6 DEF Start!BusIsFreed, Start!StartsDark, Tested, Reached, AfterReset
  <1> QED
    BY <1>7, <1>8 DEF StartInv

\* What a transfer costs.
LEMMA CountedFacts ==
    ASSUME Start!ConstantsOK, StartInv, Start!Passes \/ Start!Loses
    PROVE  /\ left' \in 0..StartFaults /\ lost' \in 0..StartFaults /\ lost' + left' <= StartFaults
           /\ lost' + asks >= 3
           /\ Start!Passes => lost' = lost
           /\ Start!Loses => lost' = lost + 1 /\ lost' # 0
  BY DEF Start!Passes, Start!Loses, StartInv, Start!TypeOK, Reached, Start!ConstantsOK

\* The devices, one after the other, and the panel's VCOM.
LEMMA DevicesKeep ==
    ASSUME Start!ConstantsOK, StartInv,
           Start!DefaultVcom \/ Start!Sensor \/ Start!SensorSleep \/ Start!Pmu \/ Start!Touch
             \/ Start!Vcom \/ Start!Wake
    PROVE  StartInv'
  <1>1. /\ sensor \in Sensors /\ hw \subseteq Start!Devices /\ vcom \in {"none", "board", "panel"}
        /\ asks \in 0..3 /\ left \in 0..StartFaults /\ lost \in 0..StartFaults
    BY DEF StartInv, Start!TypeOK, Sensors
  <1>2. "TP" \in port.out \/ at \notin AfterReset
    BY DEF StartInv, Tested
  <1>3. CASE Start!DefaultVcom
    <2>1. Reached'
      BY <1>3 DEF Start!DefaultVcom, StartInv, Reached
    <2> QED
      BY <1>1, <1>3, <2>1, CalmKeeps DEF Start!DefaultVcom, AfterReset
  <1>4. CASE Start!Sensor
    <2> ~(Start!Passes /\ Start!Loses)
      BY <1>1 DEF Start!Passes, Start!Loses
    <2>1. sensor' \in Sensors /\ (Start!Passes => sensor' = [on |-> TRUE, powered |-> TRUE] /\ at' = "sleep")
      <3>1. CASE Start!Passes /\ at' = "sleep" /\ sensor' = [on |-> TRUE, powered |-> TRUE]
        BY <3>1 DEF Sensors
      <3>2. CASE Start!Loses /\ \E on \in BOOLEAN : sensor' = [on |-> on, powered |-> FALSE]
        BY <3>2 DEF Sensors
      <3> QED
        BY <1>4, <3>1, <3>2 DEF Start!Sensor
    <2>2. Start!Passes \/ Start!Loses
      BY <1>4 DEF Start!Sensor
    <2>3. Reached'
      BY <1>1, <1>4, <2>1, <2>2, CountedFacts DEF Start!Sensor, Reached
    <2> QED
      BY <1>1, <1>4, <2>1, <2>2, <2>3, CountedFacts, CalmKeeps DEF Start!Sensor, AfterReset
  <1>5. CASE Start!SensorSleep
    <2> ~(Start!Passes /\ Start!Loses)
      BY <1>1 DEF Start!Passes, Start!Loses
    <2>1. sensor' \in Sensors /\ (Start!Passes => sensor' = [on |-> FALSE, powered |-> FALSE])
      <3>1. CASE Start!Passes /\ sensor' = [on |-> FALSE, powered |-> FALSE]
        BY <3>1 DEF Sensors
      <3>2. CASE Start!Loses /\ \E on \in BOOLEAN : sensor' = [on |-> on, powered |-> TRUE]
        BY <3>2 DEF Sensors
      <3> QED
        BY <1>5, <3>1, <3>2 DEF Start!SensorSleep
    <2>2. Start!Passes \/ Start!Loses
      BY <1>5 DEF Start!SensorSleep
    <2>3. Reached'
      BY <1>1, <1>5, <2>1, <2>2, CountedFacts DEF Start!SensorSleep, Reached
    <2> QED
      BY <1>1, <1>5, <2>1, <2>2, <2>3, CountedFacts, CalmKeeps
         DEF Start!SensorSleep, AfterReset, Start!Devices
  <1>6. CASE Start!Pmu
    <2>2. Start!Passes \/ Start!Loses
      BY <1>6 DEF Start!Pmu
    <2>3. Reached'
      BY <1>1, <1>6, <2>2, CountedFacts DEF Start!Pmu, StartInv, Reached
    <2> QED
      BY <1>1, <1>6, <2>2, <2>3, CountedFacts, CalmKeeps DEF Start!Pmu, AfterReset, Start!Devices
  <1>7. CASE Start!Touch
    <2>1. "TP" \in port.out
      BY <1>2, <1>7 DEF Start!Touch, AfterReset
    <2>2. Start!Passes \/ Start!Loses
      BY <1>7 DEF Start!Touch
    <2>3. Reached'
      BY <1>1, <1>7, <2>1, <2>2, CountedFacts DEF Start!Touch, StartInv, Reached
    <2> QED
      BY <1>1, <1>7, <2>2, <2>3, CountedFacts, CalmKeeps DEF Start!Touch, AfterReset, Start!Devices
  <1>8. CASE Start!Vcom
    <2>1. Start!Passes \/ Start!Loses
      BY <1>8 DEF Start!Vcom
    <2>2. asks' \in 0..3 /\ vcom' \in {"none", "board", "panel"} /\ at' \in {"vcom", "wake"}
      BY <1>1, <1>8 DEF Start!Vcom, Start!Asks
    <2>3. lost' + asks' >= 3 /\ lost' + left' <= StartFaults
      BY <1>1, <1>8, <2>1, CountedFacts
         DEF Start!Vcom, Start!Passes, Start!Loses, StartInv, Reached, Start!ConstantsOK
    <2>4. at' = "wake" /\ "pmu" \in hw' /\ lost' < 3 => vcom' = "panel"
      BY <1>1, <1>8, <2>1, <2>3, CountedFacts DEF Start!Vcom, Start!Asks
    <2>5. Reached'
      BY <1>1, <1>8, <2>1, <2>2, <2>3, <2>4, CountedFacts DEF Start!Vcom, StartInv, Reached
    <2> QED
      BY <1>1, <1>8, <2>1, <2>2, <2>5, CountedFacts, CalmKeeps DEF Start!Vcom, AfterReset
  <1>9. CASE Start!Wake
    <2>1. Start!Passes \/ Start!Loses
      BY <1>9 DEF Start!Wake
    <2> ~(Start!Passes /\ Start!Loses)
      BY <1>1 DEF Start!Passes, Start!Loses
    <2>2. lost = 0 => "sensor" \in hw /\ sensor = [on |-> FALSE, powered |-> FALSE]
      BY <1>9 DEF Start!Wake, StartInv, Reached
    <2>3. lost = 0 => "sensor" \in hw /\ Start!Asleep
      BY <2>2 DEF Start!Asleep
    <2>4. sensor' \in Sensors
      <3>1. CASE sensor' = [on |-> TRUE, powered |-> TRUE]
        BY <3>1 DEF Sensors
      <3>2. CASE \E on \in BOOLEAN : sensor' = [sensor EXCEPT !.on = on]
        BY <1>1, <3>2 DEF Sensors
      <3> QED
        BY <1>1, <1>9, <3>1, <3>2 DEF Start!Wake
    <2>5. lost = 0 /\ Start!Passes => sensor' = [on |-> TRUE, powered |-> TRUE]
      BY <1>9, <2>3 DEF Start!Wake
    <2>6. sensor' \in Sensors /\ (lost = 0 /\ Start!Passes => sensor'.on)
      BY <2>4, <2>5
    <2>7. Reached'
      BY <1>1, <1>9, <2>1, <2>6, CountedFacts DEF Start!Wake, StartInv, Reached
    <2> QED
      BY <1>1, <1>9, <2>1, <2>6, <2>7, CountedFacts, CalmKeeps DEF Start!Wake, AfterReset
  <1> QED
    BY <1>3, <1>4, <1>5, <1>6, <1>7, <1>8, <1>9

\* Frames, and whatever ends the run.
LEMMA RunKeeps ==
    ASSUME Start!ConstantsOK, StartInv, Start!Frame \/ Start!Crash \/ Start!PowerCut
    PROVE  StartInv'
  <1>1. CASE Start!Frame
    <2>1. /\ output' \subseteq Start!Pins /\ converters' \in BOOLEAN /\ port' \in Ports
      BY <1>1 DEF Start!Frame, StartInv, Start!TypeOK, Ports, Start!Voltages, Start!Pins
    <2>2. Start!TypeOK'
      BY <1>1, <2>1 DEF Start!Frame, StartInv, Start!TypeOK, Ports
    <2>3. Start!BusIsFreed' /\ Start!StartsDark' /\ Tested' /\ Reached'
      BY <1>1 DEF Start!Frame, StartInv, Start!BusIsFreed, Start!StartsDark, Tested, Reached, AfterReset
    <2> QED
      BY <2>2, <2>3 DEF StartInv
  <1>2. CASE Start!Crash
    <2>1. /\ port' \in Ports /\ converters' \in BOOLEAN /\ left' \in 0..StartFaults /\ crashes' \in 0..Crashes
      BY <1>2 DEF Start!Crash, StartInv, Start!TypeOK, Start!ConstantsOK, Ports
    <2> QED
      BY <1>2, <2>1, RestartKeeps DEF Start!Crash
  <1>3. CASE Start!PowerCut
    <2>1. port' \in Ports /\ sensor' \in Sensors
      BY <1>3 DEF Start!PowerCut, Ports, Sensors
    <2>2. /\ crashes' \in 0..Crashes /\ held' \in 0..Held /\ lost' \in 0..StartFaults /\ asks' \in 0..3
          /\ step' \in 1..12 /\ left' \in 0..StartFaults
      BY <1>3 DEF Start!PowerCut, StartInv, Start!TypeOK, Start!ConstantsOK
    <2>3. Start!TypeOK'
      BY <1>3, <2>1, <2>2 DEF Start!PowerCut, Start!TypeOK, Ports, Sensors
    <2>4. Start!BusIsFreed' /\ Start!StartsDark' /\ Tested'
      BY <1>3 DEF Start!PowerCut, Start!BusIsFreed, Start!StartsDark, Tested, AfterReset
    <2>5. Reached'
      BY <1>3, <2>2 DEF Start!PowerCut, Reached, Start!ConstantsOK
    <2> QED
      BY <2>3, <2>4, <2>5 DEF StartInv
  <1> QED
    BY <1>1, <1>2, <1>3

LEMMA StartKeeps ==
    ASSUME Start!ConstantsOK, StartInv, [Start!Next]_(Start!vars)
    PROVE  StartInv'
  <1>1. CASE UNCHANGED Start!vars
    BY <1>1 DEF Start!vars, Start!start, StartInv, Start!TypeOK, Start!BusIsFreed, Start!StartsDark, Tested, Reached
  <1>2. CASE Start!PowerHandle \/ Start!Lcd \/ Start!Dma \/ Start!Render \/ Start!Waveform \/ Start!Buffers
    <2>1. \/ Start!Sets("display", "lcd") \/ Start!Sets("lcd", "dma") \/ Start!Sets("dma", "control")
          \/ Start!Sets("render", "default") \/ Start!Sets("waveform", "buffers")
          \/ Start!Sets("buffers", "sensor")
      BY <1>2 DEF Start!PowerHandle, Start!Lcd, Start!Dma, Start!Render, Start!Waveform, Start!Buffers
    <2>2. /\ {"display", "lcd", "dma", "control", "render", "default", "waveform", "buffers", "sensor"}
                \subseteq AfterReset
      BY DEF AfterReset
    <2> QED
      BY <2>1, <2>2, SetsKeeps
  <1> QED
    BY <1>1, <1>2, SelfTestKeeps, ResetKeeps, RecoverKeeps, ControlKeeps, DevicesKeep, RunKeeps
       DEF Start!Next, Start!Begin

\* The inductive invariant of the start (board_init() to Board::begin()).
THEOREM StartInvariant == ASSUME Start!ConstantsOK PROVE Start!Spec => []StartInv
  <1>1. Start!Init => StartInv
    BY StartBegins
  <1>2. StartInv /\ [Start!Next]_(Start!vars) => StartInv'
    BY StartKeeps
  <1> QED
    BY <1>1, <1>2, PTL DEF Start!Spec

\* A restart in the middle of a frame leaves the high voltages on until the
\* self-test has written over them: past it they are down, and ioe_output
\* agrees (fca9555_selftest(), board_init()).
THEOREM StartDark == ASSUME Start!ConstantsOK PROVE Start!Spec => []Start!StartsDark
  <1>1. StartInv => Start!StartsDark
    BY DEF StartInv
  <1> QED
    BY <1>1, StartInvariant, PTL

\* Nothing is sent while a slave that was cut off still holds the bus
\* (i2c_bus_recover()).
THEOREM StartBusFreed == ASSUME Start!ConstantsOK PROVE Start!Spec => []Start!BusIsFreed
  <1>1. StartInv => Start!BusIsFreed
    BY DEF StartInv
  <1> QED
    BY <1>1, StartInvariant, PTL

\* A start that loses no transfer has all its devices, the sensor measures and
\* the panel's VCOM is in force; that one also if the power unit answers once
\* in three (read_pico_init(), Board::begin()).
THEOREM StartWhole == ASSUME Start!ConstantsOK PROVE Start!Spec => []Start!StartIsWhole
  <1>1. StartInv => Start!StartIsWhole
    <2> SUFFICES ASSUME StartInv, at = "up" PROVE Start!StartIsWhole
      BY DEF Start!StartIsWhole
    <2>1. lost = 0 => hw = Start!Devices /\ "pmu" \in hw /\ sensor.on
      BY DEF StartInv, Start!TypeOK, Reached, Start!Devices
    <2>2. "pmu" \in hw /\ lost < 3 => vcom = "panel"
      BY DEF StartInv, Reached
    <2>3. lost = 0 => lost < 3
      OBVIOUS
    <2> QED
      BY <2>1, <2>2, <2>3 DEF Start!StartIsWhole
  <1> QED
    BY <1>1, StartInvariant, PTL

(***************************************************************************)
(* The main loop and its paper, PicoPanel, for any events, percentages,    *)
(* ends of a refresh and number of soft refreshes.  PanelInv says what     *)
(* driver and paper have in common (Drawing), how the bar on the paper     *)
(* compares with the loop's percentage (Bars), that the frame drawn is the *)
(* view's or one is due (Drawn), and where a session is whose restarting   *)
(* frame was drawn (Final).                                                *)
(***************************************************************************)
CONSTANTS Events, Keys, Options, Commands, Used, Outcomes, Soft, Failures
VARIABLES ota, view, ui, glass, boots

Panel == INSTANCE PicoPanel

Pages == {"home", "clock", "settings"}
Scenes == Pages \cup {"pairing", "confirming", "receiving", "rebooting"}

Views ==
    [page : Pages, returnPage : {"home", "clock"}, idleClock : BOOLEAN, rotation : 0..2, idle : 0..1,
     upright : BOOLEAN, candidate : BOOLEAN, held : 0..1, passkey : BOOLEAN, online : BOOLEAN,
     warning : 0..2, used : 0..255, shown : 0..255, phase : Panel!Phases, seen : Nat, banner : 0..1,
     quiet : 0..2, force : BOOLEAN, baseline : BOOLEAN, diagnostic : BOOLEAN, rebootDrawn : BOOLEAN,
     gap : BOOLEAN]

Sessions == [phase : Panel!Phases, failures : 0..Failures]

UsageContent == [bar : 0..255, warning : 0..2, online : BOOLEAN]
OtherContent == [idle : 0..1, rotation : 0..2, online : BOOLEAN] \cup [online : BOOLEAN]

Frames ==
    [scene : {"home", "clock"}, upright : BOOLEAN, banner : BOOLEAN, content : UsageContent] \cup
    [scene : (Scenes \cup {"white", "torn", "unknown"}) \ {"home", "clock"}, upright : BOOLEAN, banner : BOOLEAN,
     content : OtherContent]

\* What the driver knows, and what is on the paper.
Drivers == [scene : Scenes \cup {"none"}, upright : BOOLEAN, soft : Nat, back : Frames]
Papers == [frame : Frames, ghosts : Nat, inked : Nat]

Drawing(u, g) ==
    /\ u \in Drivers /\ g \in Papers
    /\ g.ghosts < Soft /\ u.soft < Soft
    /\ u.scene # "none" => /\ g.ghosts <= u.soft
                           /\ g.frame = u.back /\ u.scene = u.back.scene /\ u.upright = u.back.upright
                           /\ g.ghosts = 0 => g.inked = Panel!Ink(u.back)

Bars(v, u, g) ==
    u.scene # "none" /\ ~v.gap =>
        /\ g.inked = Panel!Ink(u.back)
        /\ ~v.baseline /\ ~v.diagnostic => Panel!Bar(v.used) >= Panel!Ink(u.back)

\* The frame f is that of the view v, up to what no change of the view has drawn.
Matches(f, v) ==
    /\ f.scene = Panel!Scene(v) /\ f.upright = v.upright /\ f.content.online = v.online
    /\ f.banner = (v.banner > 0 /\ v.phase = "idle")
    /\ f.scene \in {"home", "clock"} => f.content.warning = v.warning

Drawn(v, u) == u.scene # "none" /\ ~v.diagnostic => ~v.force /\ Matches(u.back, v)

Final ==
    view.rebootDrawn => ota.phase = "rebooting" /\ view.phase = "rebooting" /\ ui.scene = "rebooting"

PanelInv ==
    /\ ota \in Sessions /\ view \in Views /\ view.shown = view.used
    /\ Drawing(ui, glass) /\ Bars(view, ui, glass) /\ Drawn(view, ui) /\ Final

(***************************************************************************)
(* Frames and refreshes.                                                   *)
(***************************************************************************)
LEMMA FrameFacts ==
    ASSUME NEW v \in Views
    PROVE  /\ Panel!Frame(v) \in Frames
           /\ Panel!Frame(v).scene = Panel!Scene(v) /\ Panel!Scene(v) \in Scenes
           /\ Matches(Panel!Frame(v), v)
           /\ Panel!Ink(Panel!Frame(v)) = (IF Panel!Scene(v) \in {"home", "clock"} THEN Panel!Bar(v.used) ELSE 0)
  <1>1. /\ Panel!Scene(v) \in Scenes /\ v.upright \in BOOLEAN /\ v.used \in 0..255 /\ v.warning \in 0..2
        /\ v.online \in BOOLEAN /\ v.idle \in 0..1 /\ v.rotation \in 0..2
    BY DEF Panel!Scene, Scenes, Pages, Views, Panel!Phases
  <1> DEFINE s == Panel!Scene(v)
             b == v.banner > 0 /\ v.phase = "idle"
  <1>2. b \in BOOLEAN
    OBVIOUS
  <1>3. CASE s \in {"home", "clock"}
    <2> DEFINE c == [bar |-> v.used, warning |-> v.warning, online |-> v.online]
    <2>1. c \in UsageContent
      BY <1>1 DEF UsageContent
    <2>2. Panel!Frame(v) = [scene |-> s, upright |-> v.upright, banner |-> b, content |-> c]
      BY <1>3 DEF Panel!Frame, Panel!HomeFrame, Panel!ClockFrame, Panel!PromptFrame
    <2>3. Panel!Frame(v) \in Frames
      BY <1>1, <1>2, <1>3, <2>1, <2>2 DEF Frames
    <2> QED
      BY <1>1, <1>3, <2>2, <2>3 DEF Matches, Panel!Ink
  <1>4. CASE s \notin {"home", "clock"}
    <2> DEFINE c == IF s = "settings" THEN [idle |-> v.idle, rotation |-> v.rotation, online |-> v.online]
                    ELSE [online |-> v.online]
    <2>1. c \in OtherContent /\ c.online = v.online
      <3>1. CASE s = "settings"
        BY <1>1, <3>1 DEF OtherContent
      <3>2. CASE s # "settings"
        BY <1>1, <3>2 DEF OtherContent
      <3> QED
        BY <3>1, <3>2
    <2>2. Panel!Frame(v) = [scene |-> s, upright |-> v.upright, banner |-> b, content |-> c]
      BY <1>4 DEF Panel!Frame, Panel!SettingsFrame, Panel!PromptFrame
    <2>3. Panel!Frame(v) \in Frames
      BY <1>1, <1>2, <1>4, <2>1, <2>2 DEF Frames
    <2> QED
      BY <1>1, <1>4, <2>1, <2>2, <2>3 DEF Matches, Panel!Ink
  <1> QED
    BY <1>3, <1>4

LEMMA InkFacts ==
    ASSUME NEW f \in Frames
    PROVE  Panel!Ink(f) \in Nat /\ f.scene # "none" /\ (f.scene \notin {"home", "clock"} => Panel!Ink(f) = 0)
  <1>1. f.scene # "none"
    BY DEF Frames, Scenes, Pages
  <1>2. CASE f.scene \in {"home", "clock"}
    <2>1. f.content \in UsageContent
      BY <1>2 DEF Frames
    <2>2. f.content.bar \in 0..255
      BY <2>1 DEF UsageContent
    <2> QED
      BY <1>1, <1>2, <2>2 DEF Panel!Ink, Panel!Bar
  <1> QED
    BY <1>1, <1>2 DEF Panel!Ink

\* What a refresh to the frame f makes of driver and paper.
Renews(u, g, f, baseline, u1, g1) ==
    /\ Drawing(u1, g1)
    /\ u1.scene # "none" => u1.scene = f.scene /\ u1.back = f
    /\ u1.scene # "none" /\ g1.ghosts # 0 =>
          /\ u.scene # "none" /\ u.scene = f.scene /\ ~baseline
          /\ (g1.inked = g.inked /\ f = u.back) \/ g1.inked = Panel!More(g.inked, Panel!Ink(f))
    /\ u1.scene # "none" /\ g1.ghosts = 0 => g1.inked = Panel!Ink(f)

\* A refresh, however it ends, leaves the driver and the paper in agreement; it
\* has drawn the frame, or the driver knows that it has not.
LEMMA RenderedFacts ==
    ASSUME Panel!ConstantsOK, NEW u, NEW g, Drawing(u, g), NEW f \in Frames, f.scene \in Scenes,
           NEW baseline \in BOOLEAN, NEW outcome \in Outcomes, NEW u1, NEW g1,
           u1 = Panel!Rendered(u, g, f, baseline, outcome)[1],
           g1 = Panel!Rendered(u, g, f, baseline, outcome)[2]
    PROVE  Renews(u, g, f, baseline, u1, g1)
  <1> DEFINE first == u.scene = "none"
             full == Panel!Full(u, f, baseline)
             soft == ~first /\ ~full /\ ~Panel!LimitReached(u)
             next == IF soft /\ outcome # "starved" THEN u.soft + 1 ELSE 0
             fresh == [scene |-> f.scene, upright |-> f.upright, back |-> f, soft |-> next]
             undrawn == [u EXCEPT !.scene = "none"]
             torn == [undrawn EXCEPT !.back = f, !.soft = next]
  <1>1. /\ u.scene \in Scenes \cup {"none"} /\ u.upright \in BOOLEAN /\ u.soft \in Nat /\ u.back \in Frames
        /\ g.frame \in Frames /\ g.ghosts \in Nat /\ g.inked \in Nat
        /\ g.ghosts < Soft /\ u.soft < Soft /\ Soft \in Nat \ {0}
    BY DEF Drawing, Drivers, Papers, Panel!ConstantsOK
  <1>2. /\ Panel!Ink(f) \in Nat /\ f.scene # "none" /\ f.upright \in BOOLEAN
    BY InkFacts DEF Frames
  <1>3. /\ soft => u.soft + 1 < Soft
        /\ next \in Nat /\ next < Soft
    BY <1>1 DEF Panel!LimitReached
  <1>4. fresh \in Drivers
    BY <1>1, <1>2, <1>3 DEF Drivers
  <1>5. undrawn \in Drivers /\ undrawn.scene = "none" /\ undrawn.soft = u.soft
    BY <1>1 DEF Drawing, Drivers
  <1>6. torn \in Drivers /\ torn.scene = "none" /\ torn.soft = next
    BY <1>3, <1>5 DEF Drivers
  <1>7. Panel!Torn \in Papers /\ Panel!Torn.ghosts = 0
    BY DEF Panel!Torn, Panel!Paper, Panel!Blank, Papers, Frames, Scenes, Pages, OtherContent
  <1>8. Panel!Driven(Panel!White, Panel!White.frame, f, FALSE) = [frame |-> f, ghosts |-> 0, inked |-> Panel!Ink(f)]
    BY DEF Panel!Driven
  <1>9. ~first => Panel!Driven(g, u.back, f, soft) =
            IF soft THEN [frame |-> f, ghosts |-> g.ghosts + 1, inked |-> Panel!More(g.inked, Panel!Ink(f))]
            ELSE [frame |-> f, ghosts |-> 0, inked |-> Panel!Ink(f)]
    BY DEF Panel!Driven, Drawing
  <1> HIDE DEF fresh, undrawn, torn
  <1>10. \/ ~full /\ f = u.back /\ u1 = u /\ g1 = g
         \/ u1 = undrawn /\ g1 = g
         \/ u1 = torn /\ g1 = Panel!Torn
         \/ /\ u1 = fresh /\ (outcome = "starved" \/ first)
            /\ g1 = Panel!Driven(Panel!White, Panel!White.frame, f, FALSE)
         \/ u1 = fresh /\ outcome # "starved" /\ ~first /\ g1 = Panel!Driven(g, u.back, f, soft)
    <2> DEFINE r == Panel!Rendered(u, g, f, baseline, outcome)
    <2>1. CASE ~full /\ f = u.back
      <3>1. r = <<u, g>>
        BY <2>1 DEF Panel!Rendered
      <3>2. u1 = u /\ g1 = g
        BY <3>1
      <3> HIDE DEF r, full, first
      <3> QED
        BY <2>1, <3>2
    <2>2. CASE ~(~full /\ f = u.back) /\ outcome = "norails"
      <3>1. r = <<undrawn, g>>
        BY <2>2 DEF Panel!Rendered, Panel!Failed, undrawn
      <3> QED
        BY <3>1
    <2>3. CASE ~(~full /\ f = u.back) /\ outcome = "failed"
      <3>1. r = <<torn, Panel!Torn>>
        BY <2>3 DEF Panel!Rendered, Panel!Failed, torn, undrawn
      <3> QED
        BY <3>1
    <2>4. CASE ~(~full /\ f = u.back) /\ (outcome = "starved" \/ (outcome = "ok" /\ first))
      <3>1. r = <<fresh, Panel!Driven(Panel!White, Panel!White.frame, f, FALSE)>>
        BY <2>4 DEF Panel!Rendered, fresh
      <3>2. u1 = fresh /\ g1 = Panel!Driven(Panel!White, Panel!White.frame, f, FALSE)
        BY <3>1
      <3> HIDE DEF r, full, first
      <3> QED
        BY <2>4, <3>2
    <2>5. CASE ~(~full /\ f = u.back) /\ outcome = "ok" /\ ~first
      <3>1. r = <<fresh, Panel!Driven(g, u.back, f, soft)>>
        BY <2>5 DEF Panel!Rendered, fresh
      <3>2. u1 = fresh /\ g1 = Panel!Driven(g, u.back, f, soft)
        BY <3>1
      <3> HIDE DEF r, full, first
      <3> QED
        BY <2>5, <3>2
    <2> QED
      BY <2>1, <2>2, <2>3, <2>4, <2>5 DEF Panel!ConstantsOK
  <1> DEFINE inked == Panel!More(g.inked, Panel!Ink(f))
  <1> SUFFICES /\ Drawing(u1, g1)
               /\ u1.scene # "none" => u1.scene = f.scene /\ u1.back = f
               /\ u1.scene # "none" /\ g1.ghosts # 0 =>
                     /\ u.scene # "none" /\ u.scene = f.scene /\ ~baseline
                     /\ (g1.inked = g.inked /\ f = u.back) \/ g1.inked = inked
               /\ u1.scene # "none" /\ g1.ghosts = 0 => g1.inked = Panel!Ink(f)
    BY DEF Renews
  <1>11. inked \in Nat
    BY <1>1, <1>2 DEF Panel!More
  <1>12. CASE ~full /\ f = u.back /\ u1 = u /\ g1 = g
    BY <1>12 DEF Drawing, Panel!Full
  <1>13. CASE u1 = undrawn /\ g1 = g
    BY <1>1, <1>5, <1>13 DEF Drawing
  <1>14. CASE u1 = torn /\ g1 = Panel!Torn
    BY <1>1, <1>3, <1>6, <1>7, <1>14 DEF Drawing
  <1>15. CASE u1 = fresh /\ g1 = [frame |-> f, ghosts |-> 0, inked |-> Panel!Ink(f)]
    <2>1. g1 \in Papers /\ g1.frame = f /\ g1.ghosts = 0 /\ g1.inked = Panel!Ink(f)
      BY <1>2, <1>15 DEF Papers
    <2>2. u1 \in Drivers /\ u1.scene = f.scene /\ u1.back = f /\ u1.upright = f.upright /\ u1.soft = next
      BY <1>4, <1>15 DEF fresh
    <2> QED
      BY <1>1, <1>3, <2>1, <2>2 DEF Drawing
  <1>16. CASE /\ u1 = fresh /\ outcome # "starved" /\ soft
              /\ g1 = [frame |-> f, ghosts |-> g.ghosts + 1, inked |-> inked]
    <2>1. g1 \in Papers /\ g1.frame = f /\ g1.ghosts = g.ghosts + 1 /\ g1.inked = inked
      BY <1>1, <1>11, <1>16 DEF Papers
    <2>2. /\ u1 \in Drivers /\ u1.scene = f.scene /\ u1.back = f /\ u1.upright = f.upright
          /\ u1.soft = u.soft + 1
      BY <1>4, <1>16 DEF fresh
    <2>3. u.scene # "none" /\ u.scene = f.scene /\ ~baseline
      BY <1>16 DEF Panel!Full
    <2>4. g1.ghosts # 0 /\ g1.ghosts <= u1.soft /\ u1.soft < Soft /\ g1.ghosts < Soft
      BY <1>1, <1>3, <1>16, <2>1, <2>2, <2>3 DEF Drawing
    <2> QED
      BY <2>1, <2>2, <2>3, <2>4 DEF Drawing
  <1> QED
    BY <1>8, <1>9, <1>10, <1>12, <1>13, <1>14, <1>15, <1>16

(***************************************************************************)
(* The handlers.  Each follows the view it is given: what it changes of    *)
(* the scene makes the frame due, and a bar that shrinks, or the end of a  *)
(* demonstration, asks for a thorough refresh, or the gap is noted.        *)
(***************************************************************************)
Due(v, w) ==
    ~w.force => /\ w.page = v.page /\ w.passkey = v.passkey /\ w.online = v.online
                /\ w.warning = v.warning /\ w.upright = v.upright /\ w.phase = v.phase
                /\ w.banner > 0 <=> v.banner > 0

Follows(v, w) ==
    /\ w \in Views /\ w.shown = w.used /\ w.rebootDrawn = v.rebootDrawn
    /\ v.force => w.force
    /\ v.gap => w.gap
    /\ v.baseline => w.baseline
    /\ Due(v, w)
    /\ ~w.gap /\ ~w.baseline => Panel!Bar(w.used) >= Panel!Bar(v.used)
    /\ v.diagnostic => w.diagnostic \/ (w.force /\ (w.gap \/ w.baseline))

LEMMA BarFacts == ASSUME NEW v \in Views PROVE Panel!Bar(v.used) \in Nat
  <1>1. v.used \in 0..255
    BY DEF Views
  <1> QED
    BY <1>1 DEF Panel!Bar

LEMMA FollowsOn ==
    ASSUME NEW v \in Views, NEW w, NEW x, Follows(v, w), Follows(w, x)
    PROVE  Follows(v, x)
  <1>1. Panel!Bar(v.used) \in Nat /\ Panel!Bar(w.used) \in Nat /\ Panel!Bar(x.used) \in Nat
    BY BarFacts DEF Follows
  <1>2. Due(v, x)
    BY DEF Follows, Due
  <1> QED
    BY <1>1, <1>2 DEF Follows

\* All handlers but the snapshot of the session and the one of published usage.
Edits(v, w) ==
    /\ w.used = v.used /\ w.shown = v.shown /\ w.phase = v.phase /\ w.rebootDrawn = v.rebootDrawn
    /\ v.force => w.force
    /\ v.gap => w.gap
    /\ v.baseline => w.baseline
    /\ Due(v, w)
    /\ v.diagnostic => w.diagnostic \/ (w.force /\ (w.gap \/ w.baseline))

LEMMA EditsFollow ==
    ASSUME NEW v \in Views, v.shown = v.used, NEW w \in Views, Edits(v, w)
    PROVE  Follows(v, w) /\ w.phase = v.phase
  <1>1. Panel!Bar(w.used) = Panel!Bar(v.used) /\ Panel!Bar(v.used) \in Nat
    BY BarFacts DEF Edits
  <1> QED
    BY <1>1 DEF Edits, Follows

LEMMA SnapshotFollows ==
    ASSUME Panel!ConstantsOK, NEW v \in Views, v.shown = v.used, ota \in Sessions, NEW dt \in 0..1
    PROVE  Follows(v, Panel!Snapshot(v, dt)) /\ Panel!Snapshot(v, dt).phase = ota.phase
  <1> DEFINE fresh == ota.failures # v.seen
             banner == IF fresh THEN 1 ELSE Panel!Less(v.banner, dt)
             quiet == Panel!Least(2, v.quiet + dt)
             still == Panel!Least(1, v.held + dt)
             force == v.force \/ fresh \/ (banner > 0) # (v.banner > 0) \/ ota.phase # v.phase
             w == [v EXCEPT !.quiet = quiet, !.held = still, !.banner = banner, !.seen = ota.failures,
                            !.phase = ota.phase, !.force = force]
  <1>1. /\ v.quiet \in 0..2 /\ v.held \in 0..1 /\ v.banner \in 0..1
        /\ ota.failures \in Nat /\ ota.phase \in Panel!Phases
    BY DEF Views, Sessions, Panel!ConstantsOK
  <1>2. quiet \in 0..2 /\ still \in 0..1 /\ banner \in 0..1
    BY <1>1 DEF Panel!Least, Panel!Less
  <1>3. w = Panel!Snapshot(v, dt)
    BY DEF Panel!Snapshot
  <1>4. force \in BOOLEAN
    OBVIOUS
  <1>5. (v.force => force) /\ (~force => (banner > 0 <=> v.banner > 0) /\ ota.phase = v.phase)
    OBVIOUS
  <1> HIDE DEF quiet, still, banner, force
  <1>6. w \in Views
    BY <1>1, <1>2, <1>4, ZenonT(30) DEF Views
  <1>7. /\ w.used = v.used /\ w.shown = v.shown /\ w.phase = ota.phase /\ w.rebootDrawn = v.rebootDrawn
        /\ w.force = force /\ w.banner = banner /\ w.gap = v.gap /\ w.baseline = v.baseline
        /\ w.diagnostic = v.diagnostic /\ w.page = v.page /\ w.passkey = v.passkey
        /\ w.online = v.online /\ w.warning = v.warning /\ w.upright = v.upright
    BY DEF Views
  <1> HIDE DEF w
  <1>8. Panel!Bar(w.used) >= Panel!Bar(v.used)
    BY <1>7, BarFacts
  <1> QED
    BY <1>3, <1>5, <1>6, <1>7, <1>8 DEF Follows, Due

LEMMA ReceivedFollows ==
    ASSUME NEW v \in Views, v.shown = v.used, NEW e, NEW o
    PROVE  Follows(v, Panel!Received(v, e, o)) /\ Panel!Received(v, e, o).phase = v.phase
  <1> DEFINE w == Panel!Received(v, e, o)
             passkey == e = "passkey"
             online == e = "link"
             base == v.baseline \/ v.online # online
             page == IF v.page = "clock" THEN "home" ELSE "clock"
  <1>1. \/ w = v
        \/ w = [v EXCEPT !.passkey = passkey, !.force = TRUE]
        \/ w = [v EXCEPT !.online = online, !.force = TRUE, !.baseline = base]
        \/ w = [v EXCEPT !.page = page, !.idleClock = FALSE, !.force = TRUE, !.quiet = 0]
    <2>1. CASE e = "toggle" /\ ~Panel!Busy(o) /\ ~v.passkey
      BY <2>1 DEF Panel!Received, Panel!Toggled
    <2>2. CASE ~(e = "toggle" /\ ~Panel!Busy(o) /\ ~v.passkey)
      BY <2>2 DEF Panel!Received
    <2> QED
      BY <2>1, <2>2
  <1>2. /\ passkey \in BOOLEAN /\ online \in BOOLEAN /\ base \in BOOLEAN /\ (v.baseline => base)
        /\ page \in Pages /\ 0 \in 0..2
    BY DEF Pages
  <1> SUFFICES Follows(v, w) /\ w.phase = v.phase
    OBVIOUS
  <1> HIDE DEF w, passkey, online, base, page
  <1>3. CASE w = v
    BY <1>3, EditsFollow DEF Edits, Due
  <1>4. CASE w = [v EXCEPT !.passkey = passkey, !.force = TRUE]
    <2>1. [v EXCEPT !.passkey = passkey, !.force = TRUE] \in Views
      BY <1>2, ZenonT(30) DEF Views
    <2>2. Edits(v, w)
      BY <1>4 DEF Edits, Due, Views
    <2> QED
      BY <1>4, <2>1, <2>2, EditsFollow
  <1>5. CASE w = [v EXCEPT !.online = online, !.force = TRUE, !.baseline = base]
    <2>1. [v EXCEPT !.online = online, !.force = TRUE, !.baseline = base] \in Views
      BY <1>2, ZenonT(30) DEF Views
    <2>2. Edits(v, w)
      BY <1>5, <1>2 DEF Edits, Due, Views
    <2> QED
      BY <1>5, <2>1, <2>2, EditsFollow
  <1>6. CASE w = [v EXCEPT !.page = page, !.idleClock = FALSE, !.force = TRUE, !.quiet = 0]
    <2>1. [v EXCEPT !.page = page, !.idleClock = FALSE, !.force = TRUE, !.quiet = 0] \in Views
      BY <1>2, ZenonT(30) DEF Views
    <2>2. Edits(v, w)
      BY <1>6 DEF Edits, Due, Views
    <2> QED
      BY <1>6, <2>1, <2>2, EditsFollow
  <1> QED
    BY <1>1, <1>3, <1>4, <1>5, <1>6 DEF w

LEMMA PublishedFollows ==
    ASSUME Panel!ConstantsOK, NEW v \in Views, v.shown = v.used, NEW used \in Used
    PROVE  Follows(v, Panel!Published(v, used)) /\ Panel!Published(v, used).phase = v.phase
  <1> DEFINE level == Panel!Warning(v.warning, IF used = Panel!Missing THEN 0 ELSE used)
             force == v.force \/ level # v.warning
             base == v.baseline \/ level # v.warning \/ Panel!Shrinks(v, used)
             gap == v.gap \/ (v.shown # Panel!Missing /\ used = Panel!Missing)
             w == [v EXCEPT !.used = used, !.shown = used, !.warning = level, !.force = force,
                            !.baseline = base, !.gap = gap]
  <1>1. used \in 0..255 /\ v.used \in 0..255 /\ level \in 0..2
    BY DEF Panel!ConstantsOK, Panel!Missing, Views, Panel!Warning
  <1>2. force \in BOOLEAN /\ base \in BOOLEAN /\ gap \in BOOLEAN
    OBVIOUS
  <1>3. w = Panel!Published(v, used)
    BY DEF Panel!Published
  <1>4. ~gap /\ ~base => Panel!Bar(used) >= Panel!Bar(v.used)
    <2> SUFFICES ASSUME ~gap, ~base PROVE Panel!Bar(used) >= Panel!Bar(v.used)
      OBVIOUS
    <2>1. v.used = Panel!Missing \/ used # Panel!Missing
      OBVIOUS
    <2>2. ~(v.used # Panel!Missing /\ used < v.used)
      BY DEF Panel!Shrinks
    <2> QED
      BY <1>1, <2>1, <2>2 DEF Panel!Bar, Panel!Missing
  <1>5. (v.force => force) /\ (v.baseline => base) /\ (v.gap => gap) /\ (~force => level = v.warning)
    OBVIOUS
  <1> HIDE DEF level, force, base, gap
  <1>6. w \in Views
    BY <1>1, <1>2, ZenonT(30) DEF Views
  <1>7. /\ w.used = used /\ w.shown = used /\ w.phase = v.phase /\ w.rebootDrawn = v.rebootDrawn
        /\ w.force = force /\ w.gap = gap /\ w.baseline = base /\ w.diagnostic = v.diagnostic
        /\ w.page = v.page /\ w.passkey = v.passkey /\ w.online = v.online /\ w.warning = level
        /\ w.upright = v.upright /\ w.banner = v.banner
    BY DEF Views
  <1> HIDE DEF w
  <1>8. Follows(v, w)
    BY <1>4, <1>5, <1>6, <1>7 DEF Follows, Due
  <1> QED
    BY <1>3, <1>7, <1>8

LEMMA TouchedFollows ==
    ASSUME NEW v \in Views, v.shown = v.used, NEW input, NEW o
    PROVE  Follows(v, Panel!Touched(v, input, o)) /\ Panel!Touched(v, input, o).phase = v.phase
  <1> DEFINE w == Panel!Touched(v, input, o)
             gap == v.gap \/ v.diagnostic
             t == [v EXCEPT !.quiet = 0, !.diagnostic = FALSE, !.force = TRUE, !.gap = gap]
             idle == 1 - v.idle
             rotation == (v.rotation + 1) % 3
             page == IF v.page = "clock" THEN "home" ELSE "clock"
  <1>1. /\ t.page = v.page /\ t.idle = v.idle /\ t.rotation = v.rotation
    BY DEF Views
  <1>2. t = [v EXCEPT !.quiet = 0, !.diagnostic = FALSE, !.force = TRUE, !.gap = @ \/ v.diagnostic]
    OBVIOUS
  <1>3. \/ w = v
        \/ w = t
        \/ w = [t EXCEPT !.page = v.returnPage]
        \/ w = [t EXCEPT !.baseline = TRUE]
        \/ w = [t EXCEPT !.idle = idle]
        \/ w = [t EXCEPT !.rotation = rotation]
        \/ v.page # "settings" /\ w = [t EXCEPT !.returnPage = v.page, !.page = "settings"]
        \/ w = [t EXCEPT !.page = page, !.idleClock = FALSE]
    <2> HIDE DEF t
    <2> QED
      BY <1>1, <1>2 DEF Panel!Touched, Panel!Chosen, Panel!Toggled
  <1>4. /\ gap \in BOOLEAN /\ (v.gap => gap) /\ (v.diagnostic => gap)
        /\ v.returnPage \in {"home", "clock"} /\ v.page \in Pages
    BY DEF Views
  <1>5. idle \in 0..1 /\ rotation \in 0..2 /\ page \in {"home", "clock"} /\ 0 \in 0..2
    BY DEF Views
  <1>6. {"home", "clock"} \subseteq Pages /\ "settings" \in Pages
        /\ (v.page # "settings" => v.page \in {"home", "clock"})
    BY <1>4 DEF Pages
  <1> SUFFICES Follows(v, w) /\ w.phase = v.phase
    OBVIOUS
  <1> HIDE DEF w, gap, idle, rotation, page
  <1>7. /\ t \in Views
    BY <1>4, <1>5, ZenonT(30) DEF Views
  <1>8. /\ t.used = v.used /\ t.shown = v.shown /\ t.phase = v.phase /\ t.rebootDrawn = v.rebootDrawn
        /\ t.force = TRUE /\ t.gap = gap /\ t.baseline = v.baseline
    BY DEF Views
  <1> HIDE DEF t
  <1>9. CASE w = v
    BY <1>9, EditsFollow DEF Edits, Due
  <1>10. CASE w = t
    BY <1>4, <1>7, <1>8, <1>10, EditsFollow DEF Edits, Due
  <1>11. CASE w = [t EXCEPT !.page = v.returnPage]
    <2>1. [t EXCEPT !.page = v.returnPage] \in Views
      BY <1>7, <1>4, <1>6, ZenonT(30) DEF Views
    <2>2. /\ w.used = t.used /\ w.shown = t.shown /\ w.phase = t.phase /\ w.rebootDrawn = t.rebootDrawn
          /\ w.force = t.force /\ w.gap = t.gap /\ (t.baseline => w.baseline)
      BY <1>7, <1>11 DEF Views
    <2> QED
      BY <1>4, <1>8, <1>11, <2>1, <2>2, EditsFollow DEF Edits, Due
  <1>12. CASE w = [t EXCEPT !.baseline = TRUE]
    <2>1. [t EXCEPT !.baseline = TRUE] \in Views
      BY <1>7, ZenonT(30) DEF Views
    <2>2. /\ w.used = t.used /\ w.shown = t.shown /\ w.phase = t.phase /\ w.rebootDrawn = t.rebootDrawn
          /\ w.force = t.force /\ w.gap = t.gap /\ (t.baseline => w.baseline)
      BY <1>7, <1>12 DEF Views
    <2> QED
      BY <1>4, <1>8, <1>12, <2>1, <2>2, EditsFollow DEF Edits, Due
  <1>13. CASE w = [t EXCEPT !.idle = idle]
    <2>1. [t EXCEPT !.idle = idle] \in Views
      BY <1>7, <1>5, ZenonT(30) DEF Views
    <2>2. /\ w.used = t.used /\ w.shown = t.shown /\ w.phase = t.phase /\ w.rebootDrawn = t.rebootDrawn
          /\ w.force = t.force /\ w.gap = t.gap /\ (t.baseline => w.baseline)
      BY <1>7, <1>13 DEF Views
    <2> QED
      BY <1>4, <1>8, <1>13, <2>1, <2>2, EditsFollow DEF Edits, Due
  <1>14. CASE w = [t EXCEPT !.rotation = rotation]
    <2>1. [t EXCEPT !.rotation = rotation] \in Views
      BY <1>7, <1>5, ZenonT(30) DEF Views
    <2>2. /\ w.used = t.used /\ w.shown = t.shown /\ w.phase = t.phase /\ w.rebootDrawn = t.rebootDrawn
          /\ w.force = t.force /\ w.gap = t.gap /\ (t.baseline => w.baseline)
      BY <1>7, <1>14 DEF Views
    <2> QED
      BY <1>4, <1>8, <1>14, <2>1, <2>2, EditsFollow DEF Edits, Due
  <1>15. CASE v.page # "settings" /\ w = [t EXCEPT !.returnPage = v.page, !.page = "settings"]
    <2>1. [t EXCEPT !.returnPage = v.page, !.page = "settings"] \in Views
      BY <1>7, <1>6, <1>15, ZenonT(30) DEF Views
    <2>2. /\ w.used = t.used /\ w.shown = t.shown /\ w.phase = t.phase /\ w.rebootDrawn = t.rebootDrawn
          /\ w.force = t.force /\ w.gap = t.gap /\ (t.baseline => w.baseline)
      BY <1>7, <1>15 DEF Views
    <2> QED
      BY <1>4, <1>8, <1>15, <2>1, <2>2, EditsFollow DEF Edits, Due
  <1>16. CASE w = [t EXCEPT !.page = page, !.idleClock = FALSE]
    <2>1. [t EXCEPT !.page = page, !.idleClock = FALSE] \in Views
      BY <1>7, <1>5, <1>6, ZenonT(30) DEF Views
    <2>2. /\ w.used = t.used /\ w.shown = t.shown /\ w.phase = t.phase /\ w.rebootDrawn = t.rebootDrawn
          /\ w.force = t.force /\ w.gap = t.gap /\ (t.baseline => w.baseline)
      BY <1>7, <1>16 DEF Views
    <2> QED
      BY <1>4, <1>8, <1>16, <2>1, <2>2, EditsFollow DEF Edits, Due
  <1> QED
    BY <1>3, <1>9, <1>10, <1>11, <1>12, <1>13, <1>14, <1>15, <1>16

LEMMA TurnedFollows ==
    ASSUME NEW v \in Views, v.shown = v.used, NEW tilt, NEW o
    PROVE  Follows(v, Panel!Turned(v, tilt, o)) /\ Panel!Turned(v, tilt, o).phase = v.phase
  <1> DEFINE w == Panel!Turned(v, tilt, o)
             p == tilt = "upright"
             fixed == v.rotation = 1
             force == v.force \/ v.upright # fixed
  <1>1. \/ w = [v EXCEPT !.upright = fixed, !.force = force]
        \/ w = [v EXCEPT !.held = 0]
        \/ w = [v EXCEPT !.candidate = p, !.held = 0]
        \/ w = [v EXCEPT !.upright = p, !.force = TRUE]
        \/ w = v
    BY DEF Panel!Turned
  <1>2. /\ p \in BOOLEAN /\ fixed \in BOOLEAN /\ force \in BOOLEAN /\ (v.force => force) /\ 0 \in 0..1
        /\ ~force => v.upright = fixed
    BY DEF Views
  <1> SUFFICES Follows(v, w) /\ w.phase = v.phase
    OBVIOUS
  <1> HIDE DEF w, p, fixed, force
  <1>3. CASE w = v
    BY <1>3, EditsFollow DEF Edits, Due
  <1>4. CASE w = [v EXCEPT !.upright = fixed, !.force = force]
    <2>1. [v EXCEPT !.upright = fixed, !.force = force] \in Views
      BY <1>2, ZenonT(30) DEF Views
    <2>2. Edits(v, w)
      BY <1>4, <1>2 DEF Edits, Due, Views
    <2> QED
      BY <1>4, <2>1, <2>2, EditsFollow
  <1>5. CASE w = [v EXCEPT !.held = 0]
    <2>1. [v EXCEPT !.held = 0] \in Views
      BY <1>2, ZenonT(30) DEF Views
    <2>2. Edits(v, w)
      BY <1>5 DEF Edits, Due, Views
    <2> QED
      BY <1>5, <2>1, <2>2, EditsFollow
  <1>6. CASE w = [v EXCEPT !.candidate = p, !.held = 0]
    <2>1. [v EXCEPT !.candidate = p, !.held = 0] \in Views
      BY <1>2, ZenonT(30) DEF Views
    <2>2. Edits(v, w)
      BY <1>6 DEF Edits, Due, Views
    <2> QED
      BY <1>6, <2>1, <2>2, EditsFollow
  <1>7. CASE w = [v EXCEPT !.upright = p, !.force = TRUE]
    <2>1. [v EXCEPT !.upright = p, !.force = TRUE] \in Views
      BY <1>2, ZenonT(30) DEF Views
    <2>2. Edits(v, w)
      BY <1>7 DEF Edits, Due, Views
    <2> QED
      BY <1>7, <2>1, <2>2, EditsFollow
  <1> QED
    BY <1>1, <1>3, <1>4, <1>5, <1>6, <1>7

LEMMA PickedUpFollows ==
    ASSUME NEW v \in Views, v.shown = v.used, NEW moved
    PROVE  /\ Follows(v, Panel!PickedUp(v, moved)) /\ Panel!PickedUp(v, moved).phase = v.phase
  <1> DEFINE w == Panel!PickedUp(v, moved)
  <1>1. w = v \/ w = [v EXCEPT !.page = "home", !.idleClock = FALSE, !.force = TRUE, !.quiet = 0]
    BY DEF Panel!PickedUp
  <1>2. "home" \in Pages /\ "clock" \in Pages /\ 0 \in 0..2
    BY DEF Pages
  <1> SUFFICES Follows(v, w) /\ w.phase = v.phase
    OBVIOUS
  <1> HIDE DEF w
  <1>4. CASE w = v
    BY <1>4, EditsFollow DEF Edits, Due
  <1>5. CASE w = [v EXCEPT !.page = "home", !.idleClock = FALSE, !.force = TRUE, !.quiet = 0]
    <2>1. [v EXCEPT !.page = "home", !.idleClock = FALSE, !.force = TRUE, !.quiet = 0] \in Views
      BY <1>2, ZenonT(30) DEF Views
    <2>2. Edits(v, w)
      BY <1>5 DEF Edits, Due, Views
    <2> QED
      BY <1>5, <2>1, <2>2, EditsFollow
  <1> QED
    BY <1>1, <1>4, <1>5

LEMMA TimedOutFollows ==
    ASSUME NEW v \in Views, v.shown = v.used, NEW o
    PROVE  /\ Follows(v, Panel!TimedOut(v, o)) /\ Panel!TimedOut(v, o).phase = v.phase
  <1> DEFINE w == Panel!TimedOut(v, o)
  <1>1. w = v \/ w = [v EXCEPT !.page = "clock", !.idleClock = TRUE, !.force = TRUE]
    BY DEF Panel!TimedOut
  <1>2. "home" \in Pages /\ "clock" \in Pages /\ 0 \in 0..2
    BY DEF Pages
  <1> SUFFICES Follows(v, w) /\ w.phase = v.phase
    OBVIOUS
  <1> HIDE DEF w
  <1>4. CASE w = v
    BY <1>4, EditsFollow DEF Edits, Due
  <1>5. CASE w = [v EXCEPT !.page = "clock", !.idleClock = TRUE, !.force = TRUE]
    <2>1. [v EXCEPT !.page = "clock", !.idleClock = TRUE, !.force = TRUE] \in Views
      BY <1>2, ZenonT(30) DEF Views
    <2>2. Edits(v, w)
      BY <1>5 DEF Edits, Due, Views
    <2> QED
      BY <1>5, <2>1, <2>2, EditsFollow
  <1> QED
    BY <1>1, <1>4, <1>5

LEMMA CommandedFollows ==
    ASSUME NEW v \in Views, v.shown = v.used, NEW c, NEW o
    PROVE  /\ Follows(v, Panel!Commanded(v, c, o)) /\ Panel!Commanded(v, c, o).phase = v.phase
           /\ c \notin {"none", "r"} /\ ~Panel!Busy(o) => Panel!Commanded(v, c, o).diagnostic
  <1> DEFINE w == Panel!Commanded(v, c, o)
  <1>1. w = v \/ w = [v EXCEPT !.diagnostic = FALSE, !.force = TRUE, !.baseline = TRUE] \/ w = [v EXCEPT !.diagnostic = TRUE]
    BY DEF Panel!Commanded
  <1>2. "home" \in Pages /\ "clock" \in Pages /\ 0 \in 0..2
    BY DEF Pages
  <1>3. c \notin {"none", "r"} /\ ~Panel!Busy(o) => Panel!Commanded(v, c, o).diagnostic
    BY DEF Panel!Commanded, Views
  <1> SUFFICES Follows(v, w) /\ w.phase = v.phase
    BY <1>3
  <1> HIDE DEF w
  <1>4. CASE w = v
    BY <1>4, EditsFollow DEF Edits, Due
  <1>5. CASE w = [v EXCEPT !.diagnostic = FALSE, !.force = TRUE, !.baseline = TRUE]
    <2>1. [v EXCEPT !.diagnostic = FALSE, !.force = TRUE, !.baseline = TRUE] \in Views
      BY ZenonT(30) DEF Views
    <2>2. Edits(v, w)
      BY <1>5 DEF Edits, Due, Views
    <2> QED
      BY <1>5, <2>1, <2>2, EditsFollow
  <1>6. CASE w = [v EXCEPT !.diagnostic = TRUE]
    <2>1. [v EXCEPT !.diagnostic = TRUE] \in Views
      BY ZenonT(30) DEF Views
    <2>2. Edits(v, w)
      BY <1>6 DEF Edits, Due, Views
    <2> QED
      BY <1>6, <2>1, <2>2, EditsFollow
  <1> QED
    BY <1>1, <1>4, <1>5, <1>6

LEMMA PromptedFollows ==
    ASSUME NEW v \in Views, v.shown = v.used, NEW o
    PROVE  /\ Follows(v, Panel!Prompted(v, o)) /\ Panel!Prompted(v, o).phase = v.phase
           /\ v.diagnostic => \/ Panel!Prompted(v, o).diagnostic
                              \/ Panel!Prompted(v, o).force /\ Panel!Prompted(v, o).baseline
           /\ Panel!Prompted(v, o).diagnostic => ~Panel!Busy(o) /\ ~Panel!Prompted(v, o).passkey
  <1> DEFINE w == Panel!Prompted(v, o)
  <1>1. w = v \/ w = [v EXCEPT !.diagnostic = FALSE, !.force = TRUE, !.baseline = TRUE]
    BY DEF Panel!Prompted
  <1>2. "home" \in Pages /\ "clock" \in Pages /\ 0 \in 0..2
    BY DEF Pages
  <1>3. /\ v.diagnostic => \/ Panel!Prompted(v, o).diagnostic
                           \/ Panel!Prompted(v, o).force /\ Panel!Prompted(v, o).baseline
        /\ Panel!Prompted(v, o).diagnostic => ~Panel!Busy(o) /\ ~Panel!Prompted(v, o).passkey
    BY DEF Panel!Prompted, Views
  <1> SUFFICES Follows(v, w) /\ w.phase = v.phase
    BY <1>3
  <1> HIDE DEF w
  <1>4. CASE w = v
    BY <1>4, EditsFollow DEF Edits, Due
  <1>5. CASE w = [v EXCEPT !.diagnostic = FALSE, !.force = TRUE, !.baseline = TRUE]
    <2>1. [v EXCEPT !.diagnostic = FALSE, !.force = TRUE, !.baseline = TRUE] \in Views
      BY ZenonT(30) DEF Views
    <2>2. Edits(v, w)
      BY <1>5 DEF Edits, Due, Views
    <2> QED
      BY <1>5, <2>1, <2>2, EditsFollow
  <1> QED
    BY <1>1, <1>4, <1>5

(***************************************************************************)
(* The session and the iteration.                                          *)
(***************************************************************************)
LEMMA SessionFacts ==
    ASSUME Panel!ConstantsOK, NEW o \in Sessions, NEW v, NEW input
    PROVE  /\ Panel!Moved(o) \subseteq Sessions
           /\ o.phase = "rebooting" => Panel!Moved(o) = {}
           /\ Panel!Answered(v, input, o) \subseteq Sessions
           /\ v.phase # "confirming" => Panel!Answered(v, input, o) = {o}
  <1>1. o.phase \in Panel!Phases /\ o.failures \in 0..Failures /\ Failures \in Nat
    BY DEF Sessions, Panel!ConstantsOK
  <1>2. Panel!Fail(o) \subseteq Sessions
    BY <1>1 DEF Panel!Fail, Sessions, Panel!Phases
  <1>3. /\ [o EXCEPT !.phase = "confirming"] \in Sessions
        /\ [o EXCEPT !.phase = "receiving"] \in Sessions
        /\ [o EXCEPT !.phase = "rebooting"] \in Sessions
        /\ Panel!Given(o) \in Sessions
    BY DEF Sessions, Panel!Phases, Panel!Given
  <1>4. Panel!Moved(o) \subseteq Sessions
    BY <1>2, <1>3 DEF Panel!Moved
  <1>5. o.phase = "rebooting" => Panel!Moved(o) = {}
    BY DEF Panel!Moved
  <1>6. Panel!Answered(v, input, o) \subseteq Sessions
    BY <1>2, <1>3 DEF Panel!Answered
  <1>7. v.phase # "confirming" => Panel!Answered(v, input, o) = {o}
    BY DEF Panel!Answered
  <1> QED
    BY <1>4, <1>5, <1>6, <1>7

\* The frame of a demonstration.
LEMMA DemoFacts ==
    ASSUME NEW v \in Views, NEW c
    PROVE  Panel!Demo(v, c) \in Frames /\ Panel!Demo(v, c).scene \in Scenes
  <1> DEFINE phase == IF c = "6" THEN "receiving" ELSE "idle"
             w == [v EXCEPT !.phase = phase, !.passkey = FALSE, !.page = "home", !.used = 96,
                            !.warning = 2, !.online = TRUE, !.banner = 0, !.upright = TRUE]
  <1>1. phase \in Panel!Phases /\ 96 \in 0..255 /\ 2 \in 0..2 /\ 0 \in 0..1 /\ "home" \in Pages
    BY DEF Panel!Phases, Pages
  <1>2. Panel!Demo(v, c) = Panel!Frame(w)
    BY DEF Panel!Demo
  <1> HIDE DEF phase
  <1>3. w \in Views
    BY <1>1, ZenonT(30) DEF Views
  <1> HIDE DEF w
  <1> QED
    BY <1>2, <1>3, FrameFacts

\* The iteration reads and edits the view, shows what it shows, and draws or
\* waits.
LEMMA IterationFacts ==
    ASSUME Panel!ConstantsOK, PanelInv, Panel!Iteration
    PROVE  \E done, u, g :
              /\ ota' \in Sessions /\ Follows(view, done) /\ ~done.rebootDrawn
              /\ done.phase = "rebooting" => ota'.phase = "rebooting"
              /\ done.diagnostic => ~Panel!Busy(ota') /\ ~done.passkey
              /\ Drawing(u, g) /\ Bars(done, u, g)
              /\ (u = ui /\ g = glass) \/ done.diagnostic \/ done.force
              /\ Panel!Draws(done, u, g) \/ Panel!Waits(done, u, g)
  <1>0. /\ ota \in Sessions /\ view \in Views /\ view.shown = view.used
        /\ Drawing(ui, glass) /\ Bars(view, ui, glass) /\ Drawn(view, ui) /\ Final
    BY DEF PanelInv
  <1>1. PICK dt \in 0..1, late \in {ota} \cup (IF "update" \in Events THEN Panel!Moved(ota) ELSE {}) :
           \E begun \in {Panel!Snapshot(view, dt)} :
           /\ ~Panel!Restarts(begun)
           /\ \E event \in Events \cup {"none"}, used \in Used :
              \E heard \in {Panel!Published(Panel!Received(begun, event, late), used)} :
                 Panel!Reacts(heard, event, late)
    BY DEF Panel!Iteration
  <1> DEFINE begun == Panel!Snapshot(view, dt)
  <1>2. PICK event \in Events \cup {"none"}, used \in Used :
              \E heard \in {Panel!Published(Panel!Received(begun, event, late), used)} :
                 Panel!Reacts(heard, event, late)
    BY <1>1
  <1>3. ~Panel!Restarts(begun)
    BY <1>1
  <1> DEFINE received == Panel!Received(begun, event, late)
             heard == Panel!Published(received, used)
  <1>4. Panel!Reacts(heard, event, late)
    BY <1>2
  <1>5. late \in Sessions /\ (ota.phase = "rebooting" => late = ota)
    BY <1>0, SessionFacts
  <1>6. Follows(view, begun) /\ begun.phase = ota.phase
    BY <1>0, SnapshotFollows
  <1> HIDE DEF begun
  <1>7. begun \in Views /\ begun.shown = begun.used
    BY <1>6 DEF Follows
  <1>8. Follows(begun, received) /\ received.phase = ota.phase
    BY <1>6, <1>7, ReceivedFollows
  <1> HIDE DEF received
  <1>9. received \in Views /\ received.shown = received.used
    BY <1>8 DEF Follows
  <1>10. Follows(received, heard) /\ heard.phase = ota.phase
    BY <1>8, <1>9, PublishedFollows
  <1> HIDE DEF heard
  <1>11. heard \in Views /\ heard.shown = heard.used
    BY <1>10 DEF Follows
  <1>12. Follows(view, heard)
    BY <1>0, <1>6, <1>8, <1>10, <1>7, <1>9, FollowsOn
  <1>13. PICK input, tilt, command :
            /\ ota' \in Panel!Answered(heard, input, late)
            /\ \E turned \in {Panel!PickedUp(Panel!Turned(Panel!Touched(heard, input, late), tilt, ota'),
                                             event = "tilt")} :
               \E asked \in {Panel!Commanded(Panel!TimedOut(turned, ota'), command, ota')} :
               \E demo \in Panel!Demonstrated(asked, command), done \in {Panel!Prompted(asked, ota')} :
               Panel!Draws(done, demo[1], demo[2]) \/ Panel!Waits(done, demo[1], demo[2])
    BY <1>4 DEF Panel!Reacts
  <1>14. ota' \in Sessions /\ (ota.phase = "rebooting" => ota'.phase = "rebooting")
    BY <1>5, <1>10, <1>13, SessionFacts
  <1> DEFINE touched == Panel!Touched(heard, input, late)
             moved == Panel!Turned(touched, tilt, ota')
             turned == Panel!PickedUp(moved, event = "tilt")
             waited == Panel!TimedOut(turned, ota')
             asked == Panel!Commanded(waited, command, ota')
             done == Panel!Prompted(asked, ota')
  <1>15. PICK demo \in Panel!Demonstrated(asked, command) :
            Panel!Draws(done, demo[1], demo[2]) \/ Panel!Waits(done, demo[1], demo[2])
    BY <1>13
  <1>16. Follows(heard, touched) /\ touched.phase = ota.phase
    BY <1>10, <1>11, TouchedFollows
  <1> HIDE DEF touched
  <1>17. touched \in Views /\ touched.shown = touched.used
    BY <1>16 DEF Follows
  <1>18. Follows(touched, moved) /\ moved.phase = ota.phase
    BY <1>16, <1>17, TurnedFollows
  <1> HIDE DEF moved
  <1>19. moved \in Views /\ moved.shown = moved.used
    BY <1>18 DEF Follows
  <1>20. Follows(moved, turned) /\ turned.phase = ota.phase
    BY <1>18, <1>19, PickedUpFollows
  <1> HIDE DEF turned
  <1>21. turned \in Views /\ turned.shown = turned.used
    BY <1>20 DEF Follows
  <1>22. Follows(turned, waited) /\ waited.phase = ota.phase
    BY <1>20, <1>21, TimedOutFollows
  <1> HIDE DEF waited
  <1>23. waited \in Views /\ waited.shown = waited.used
    BY <1>22 DEF Follows
  <1>24. /\ Follows(waited, asked) /\ asked.phase = ota.phase
         /\ command \notin {"none", "r"} /\ ~Panel!Busy(ota') => asked.diagnostic
    BY <1>22, <1>23, CommandedFollows
  <1> HIDE DEF asked
  <1>25. asked \in Views /\ asked.shown = asked.used
    BY <1>24 DEF Follows
  <1>26. /\ Follows(asked, done) /\ done.phase = ota.phase
         /\ asked.diagnostic => done.diagnostic \/ (done.force /\ done.baseline)
         /\ done.diagnostic => ~Panel!Busy(ota') /\ ~done.passkey
    BY <1>24, <1>25, PromptedFollows
  <1> HIDE DEF done
  <1>27. Follows(view, done)
    <2>1. Follows(view, moved)
      BY <1>0, <1>11, <1>12, <1>16, <1>17, <1>18, FollowsOn
    <2>2. Follows(view, waited)
      BY <2>1, <1>0, <1>19, <1>20, <1>21, <1>22, FollowsOn
    <2> QED
      BY <2>2, <1>0, <1>23, <1>24, <1>25, <1>26, FollowsOn
  <1>28. ~view.rebootDrawn
    <2> SUFFICES ASSUME view.rebootDrawn PROVE FALSE
      OBVIOUS
    <2>1. begun.phase = "rebooting"
      BY <1>0, <1>6 DEF Final
    <2>2. begun.rebootDrawn = view.rebootDrawn
      BY <1>6 DEF Follows
    <2> QED
      BY <1>3, <2>1, <2>2 DEF Panel!Restarts
  <1>29. ~done.rebootDrawn
    BY <1>27, <1>28 DEF Follows
  <1>30. /\ Drawing(demo[1], demo[2]) /\ Bars(done, demo[1], demo[2])
         /\ (demo[1] = ui /\ demo[2] = glass) \/ done.diagnostic \/ done.force
    <2>1. CASE command \notin {"none", "r"} /\ ~Panel!Busy(ota')
      <3>1. PICK outcome \in Outcomes :
               demo = Panel!Rendered(ui, glass, Panel!Demo(asked, command), TRUE, outcome)
        BY <1>15, <2>1 DEF Panel!Demonstrated
      <3>2. Panel!Demo(asked, command) \in Frames /\ Panel!Demo(asked, command).scene \in Scenes
        BY <1>25, DemoFacts
      <3> DEFINE f == Panel!Demo(asked, command)
                 u == demo[1]
                 g == demo[2]
      <3>3. u = Panel!Rendered(ui, glass, f, TRUE, outcome)[1] /\ g = Panel!Rendered(ui, glass, f, TRUE, outcome)[2]
        BY <3>1
      <3> HIDE DEF f, u, g
      <3>4. f \in Frames /\ f.scene \in Scenes
        BY <3>2 DEF f
      <3>5. /\ Drawing(u, g) /\ (u.scene # "none" => u.back = f) /\ ~(u.scene # "none" /\ g.ghosts # 0)
            /\ u.scene # "none" /\ g.ghosts = 0 => g.inked = Panel!Ink(f)
        <4>1. TRUE \in BOOLEAN /\ Drawing(ui, glass) /\ outcome \in Outcomes
          BY <1>0
        <4>2. Renews(ui, glass, f, TRUE, u, g)
          BY <3>3, <3>4, <4>1, RenderedFacts
        <4> QED
          BY <4>2 DEF Renews
      <3>6. done.diagnostic \/ (done.force /\ done.baseline)
        BY <1>24, <1>26, <2>1
      <3>7. Bars(done, u, g)
        BY <3>5, <3>6 DEF Bars
      <3> QED
        BY <3>5, <3>6, <3>7 DEF u, g
    <2>2. CASE ~(command \notin {"none", "r"} /\ ~Panel!Busy(ota'))
      <3>1. demo = <<ui, glass>>
        BY <1>15, <2>2 DEF Panel!Demonstrated
      <3>2. demo[1] = ui /\ demo[2] = glass
        BY <3>1
      <3>3. Bars(done, ui, glass)
        <4>1. Panel!Bar(view.used) \in Nat /\ Panel!Bar(done.used) \in Nat
          BY <1>0, <1>27, BarFacts DEF Follows
        <4>2. ui.scene # "none" => Panel!Ink(ui.back) \in Nat
          BY <1>0, InkFacts DEF Drawing, Drivers
        <4> QED
          BY <4>1, <4>2, <1>0, <1>27 DEF Bars, Follows
      <3> QED
        BY <1>0, <3>2, <3>3
    <2> QED
      BY <2>1, <2>2
  <1> QED
    BY <1>14, <1>15, <1>26, <1>27, <1>29, <1>30

\* Drawing the frame of the view.
LEMMA DrawsKeep ==
    ASSUME Panel!ConstantsOK, ota' \in Sessions, NEW done \in Views, done.shown = done.used,
           done.phase = "rebooting" => ota'.phase = "rebooting",
           NEW u, NEW g, Drawing(u, g), Bars(done, u, g), Panel!Draws(done, u, g)
    PROVE  PanelInv' /\ view'.diagnostic = done.diagnostic
  <1> DEFINE f == Panel!Frame(done)
  <1>1. /\ f \in Frames /\ f.scene = Panel!Scene(done) /\ f.scene \in Scenes /\ Matches(f, done)
        /\ Panel!Ink(f) = (IF f.scene \in {"home", "clock"} THEN Panel!Bar(done.used) ELSE 0)
    BY FrameFacts
  <1>2. ~done.diagnostic
    BY DEF Panel!Draws
  <1> HIDE DEF f
  <1>3. PICK last \in {Panel!Rendered(u, g, f, done.baseline, outcome) : outcome \in Outcomes} :
              /\ ui' = last[1] /\ glass' = last[2]
              /\ view' = [done EXCEPT !.force = FALSE, !.baseline = FALSE,
                                      !.rebootDrawn = Panel!RebootDrawn(last[1], done),
                                      !.gap = @ /\ last[2].ghosts # 0]
    BY DEF Panel!Draws, f
  <1>4. /\ ui' = last[1] /\ glass' = last[2]
        /\ view' = [done EXCEPT !.force = FALSE, !.baseline = FALSE,
                                !.rebootDrawn = Panel!RebootDrawn(ui', done),
                                !.gap = done.gap /\ glass'.ghosts # 0]
    BY <1>3
  <1>5. done.baseline \in BOOLEAN /\ done.gap \in BOOLEAN
    BY DEF Views
  <1>51. PICK outcome \in Outcomes : last = Panel!Rendered(u, g, f, done.baseline, outcome)
    BY <1>3
  <1>52. Renews(u, g, f, done.baseline, ui', glass')
    BY <1>1, <1>4, <1>5, <1>51, RenderedFacts
  <1>6. /\ Drawing(ui', glass')
        /\ ui'.scene # "none" => ui'.scene = f.scene /\ ui'.back = f
        /\ ui'.scene # "none" /\ glass'.ghosts # 0 =>
              /\ u.scene # "none" /\ u.scene = f.scene /\ ~done.baseline
              /\ (glass'.inked = g.inked /\ f = u.back)
                 \/ glass'.inked = Panel!More(g.inked, Panel!Ink(f))
        /\ ui'.scene # "none" /\ glass'.ghosts = 0 => glass'.inked = Panel!Ink(f)
    BY <1>52 DEF Renews
  <1> DEFINE final == Panel!RebootDrawn(ui', done)
             gap == done.gap /\ glass'.ghosts # 0
  <1>7. final \in BOOLEAN /\ gap \in BOOLEAN
    BY DEF Panel!RebootDrawn
  <1>8. view' = [done EXCEPT !.force = FALSE, !.baseline = FALSE, !.rebootDrawn = final, !.gap = gap]
    BY <1>4
  <1>9. gap <=> done.gap /\ glass'.ghosts # 0
    OBVIOUS
  <1>10. final <=> ui'.scene # "none" /\ done.phase = "rebooting"
    BY DEF Panel!RebootDrawn
  <1> HIDE DEF final, gap
  <1>11. [done EXCEPT !.force = FALSE, !.baseline = FALSE, !.rebootDrawn = final, !.gap = gap] \in Views
    BY <1>7, ZenonT(30) DEF Views
  <1>12. view' \in Views
    BY <1>8, <1>11
  <1>13. /\ view'.used = done.used /\ view'.shown = done.shown /\ view'.phase = done.phase
         /\ view'.force = FALSE /\ view'.baseline = FALSE /\ view'.rebootDrawn = final /\ view'.gap = gap
         /\ view'.diagnostic = done.diagnostic /\ view'.page = done.page
         /\ view'.passkey = done.passkey /\ view'.online = done.online
         /\ view'.warning = done.warning /\ view'.upright = done.upright
         /\ view'.banner = done.banner
    BY <1>8 DEF Views
  <1>14. Bars(view, ui, glass)'
    <2> SUFFICES ASSUME ui'.scene # "none", ~view'.gap
                 PROVE  /\ glass'.inked = Panel!Ink(ui'.back)
                        /\ Panel!Bar(view'.used) >= Panel!Ink(ui'.back)
      BY DEF Bars
    <2>1. ui'.back = f /\ ui'.scene = f.scene /\ Panel!Bar(view'.used) = Panel!Bar(done.used)
      BY <1>6, <1>13
    <2>2. Panel!Bar(done.used) \in Nat /\ Panel!Ink(f) \in Nat
      BY <1>1, BarFacts, InkFacts
    <2>3. Panel!Bar(done.used) >= Panel!Ink(f)
      BY <1>1, <2>2
    <2>4. CASE glass'.ghosts = 0
      BY <1>6, <2>1, <2>3, <2>4
    <2>5. CASE glass'.ghosts # 0
      <3>1. ~done.gap /\ u.scene # "none" /\ u.scene = f.scene /\ ~done.baseline
        BY <1>6, <1>9, <1>13, <2>5
      <3>2. g.inked = Panel!Ink(u.back) /\ Panel!Bar(done.used) >= Panel!Ink(u.back)
        BY <1>2, <3>1 DEF Bars
      <3>3. u.back \in Frames /\ u.back.scene = f.scene
        BY <3>1 DEF Drawing, Drivers
      <3>4. Panel!Ink(u.back) \in Nat /\ (f.scene \notin {"home", "clock"} => Panel!Ink(u.back) = 0)
        BY <3>3, InkFacts
      <3>5. Panel!More(Panel!Ink(u.back), Panel!Ink(f)) = Panel!Ink(f)
        BY <1>1, <2>2, <3>2, <3>4 DEF Panel!More
      <3> QED
        BY <1>6, <2>1, <2>3, <2>5, <3>2, <3>5
    <2> QED
      BY <1>6, <2>4, <2>5
  <1>15. Matches(f, view')
    BY <1>1, <1>13 DEF Matches, Panel!Scene
  <1>16. Drawn(view, ui)'
    BY <1>6, <1>13, <1>15 DEF Drawn
  <1>17. Final'
    <2> SUFFICES ASSUME view'.rebootDrawn
                 PROVE  ota'.phase = "rebooting" /\ view'.phase = "rebooting" /\ ui'.scene = "rebooting"
      BY DEF Final
    <2>1. ui'.scene # "none" /\ done.phase = "rebooting"
      BY <1>10, <1>13
    <2>2. f.scene = "rebooting"
      BY <1>1, <2>1 DEF Panel!Scene
    <2> QED
      BY <1>6, <1>13, <2>1, <2>2
  <1> QED
    BY <1>6, <1>12, <1>13, <1>14, <1>16, <1>17 DEF PanelInv

\* An iteration that draws nothing.
LEMMA WaitsKeep ==
    ASSUME PanelInv, ota' \in Sessions, NEW done, Follows(view, done), ~done.rebootDrawn,
           NEW u, NEW g, Drawing(u, g), Bars(done, u, g), (u = ui /\ g = glass) \/ done.diagnostic \/ done.force,
           Panel!Waits(done, u, g)
    PROVE  PanelInv' /\ view' = done
  <1>1. ui' = u /\ glass' = g /\ view' = done /\ (done.diagnostic \/ ~done.force)
    BY DEF Panel!Waits
  <1>2. Drawing(ui, glass)' /\ Bars(view, ui, glass)'
    BY <1>1 DEF Drawing, Bars
  <1>3. Drawn(view, ui)'
    <2> SUFFICES ASSUME u.scene # "none", ~done.diagnostic
                 PROVE  ~done.force /\ Matches(u.back, done)
      BY <1>1 DEF Drawn
    <2>1. ~done.force /\ u = ui
      BY <1>1
    <2>2. ~view.diagnostic /\ Matches(ui.back, view) /\ Due(view, done)
      BY <2>1 DEF Follows, PanelInv, Drawn
    <2> QED
      BY <2>1, <2>2 DEF Matches, Due, Panel!Scene
  <1>4. Final'
    BY <1>1 DEF Final
  <1> QED
    BY <1>1, <1>2, <1>3, <1>4 DEF PanelInv, Follows

LEMMA IterationKeeps ==
    ASSUME Panel!ConstantsOK, PanelInv, Panel!Iteration
    PROVE  PanelInv' /\ (view'.diagnostic => ~Panel!Busy(ota') /\ ~view'.passkey) /\ boots' = boots
  <1>1. PICK done, u, g :
              /\ ota' \in Sessions /\ Follows(view, done) /\ ~done.rebootDrawn
              /\ done.phase = "rebooting" => ota'.phase = "rebooting"
              /\ done.diagnostic => ~Panel!Busy(ota') /\ ~done.passkey
              /\ Drawing(u, g) /\ Bars(done, u, g)
              /\ (u = ui /\ g = glass) \/ done.diagnostic \/ done.force
              /\ Panel!Draws(done, u, g) \/ Panel!Waits(done, u, g)
    BY IterationFacts
  <1>2. boots' = boots
    BY DEF Panel!Iteration
  <1>3. CASE Panel!Draws(done, u, g)
    <2>1. done \in Views /\ done.shown = done.used
      BY <1>1 DEF Follows
    <2>2. PanelInv' /\ view'.diagnostic = done.diagnostic
      BY <1>1, <1>3, <2>1, DrawsKeep
    <2>3. ~done.diagnostic
      BY <1>3 DEF Panel!Draws
    <2> QED
      BY <1>2, <2>2, <2>3
  <1>4. CASE Panel!Waits(done, u, g)
    <2>1. PanelInv' /\ view' = done
      BY <1>1, <1>4, WaitsKeep
    <2> QED
      BY <1>1, <1>2, <2>1
  <1> QED
    BY <1>1, <1>3, <1>4

\* A start with any saved settings.
LEMMA BootFacts ==
    ASSUME NEW rotation \in 0..2, NEW idle \in 0..1, NEW upright \in BOOLEAN
    PROVE  LET w == Panel!Boot(rotation, idle, upright)
           IN  w \in Views /\ w.shown = w.used /\ ~w.rebootDrawn /\ ~w.diagnostic
  <1>1. "home" \in Pages /\ "idle" \in Panel!Phases /\ Panel!Missing \in 0..255 /\ 0 \in 0..1 /\ 0 \in 0..2 /\ 0 \in Nat
    BY DEF Pages, Panel!Phases, Panel!Missing
  <1>2. Panel!Boot(rotation, idle, upright) \in Views
    BY <1>1, ZenonT(30) DEF Views, Panel!Boot
  <1> QED
    BY <1>2 DEF Panel!Boot

LEMMA NothingDrawnFacts ==
    ASSUME Panel!ConstantsOK
    PROVE  /\ Panel!NothingDrawn.scene = "none" /\ Panel!NoOta \in Sessions
           /\ \A g \in Papers : g.ghosts < Soft => Drawing(Panel!NothingDrawn, g)
           /\ Panel!Paper(Panel!Blank("unknown")) \in Papers
           /\ Panel!Paper(Panel!Blank("unknown")).ghosts = 0
  <1>1. Panel!Blank("white") \in Frames /\ Panel!Blank("unknown") \in Frames
    BY DEF Panel!Blank, Frames, Scenes, Pages, OtherContent
  <1>2. Panel!NothingDrawn \in Drivers /\ Panel!NothingDrawn.scene = "none" /\ Panel!NothingDrawn.soft = 0
    BY <1>1 DEF Panel!NothingDrawn, Drivers
  <1>3. Panel!Paper(Panel!Blank("unknown")) \in Papers /\ Panel!Paper(Panel!Blank("unknown")).ghosts = 0
    BY <1>1 DEF Panel!Paper, Papers
  <1>4. Panel!NoOta \in Sessions
    BY DEF Panel!NoOta, Sessions, Panel!Phases, Panel!ConstantsOK
  <1> QED
    BY <1>2, <1>3, <1>4 DEF Drawing, Panel!ConstantsOK

LEMMA PanelInit ==
    ASSUME Panel!ConstantsOK, Panel!Init
    PROVE  PanelInv
  <1>1. PICK rotation \in 0..2, idle \in 0..1, measured \in BOOLEAN :
           /\ view = Panel!Boot(rotation, idle, measured)
           /\ ota = Panel!NoOta /\ ui = Panel!NothingDrawn /\ glass = Panel!Paper(Panel!Blank("unknown"))
    BY DEF Panel!Init
  <1>2. view \in Views /\ view.shown = view.used /\ ~view.rebootDrawn
    BY <1>1, BootFacts
  <1>3. ota \in Sessions /\ ui.scene = "none" /\ Drawing(ui, glass)
    BY <1>1, NothingDrawnFacts DEF Panel!ConstantsOK
  <1> QED
    BY <1>2, <1>3 DEF PanelInv, Bars, Drawn, Final

LEMMA ReloadKeeps ==
    ASSUME Panel!ConstantsOK, PanelInv, Panel!Restart
    PROVE  PanelInv' /\ ~view'.diagnostic /\ glass.frame.scene = "rebooting"
  <1>1. /\ view \in Views /\ view.rotation \in 0..2 /\ view.idle \in 0..1 /\ view.upright \in BOOLEAN
        /\ glass \in Papers /\ glass.ghosts < Soft
    BY DEF PanelInv, Views, Drawing
  <1>2. view' = Panel!Boot(view.rotation, view.idle, view.upright)
        /\ ota' = Panel!NoOta /\ ui' = Panel!NothingDrawn /\ glass' = glass
    BY DEF Panel!Restart
  <1>3. view' \in Views /\ view'.shown = view'.used /\ ~view'.rebootDrawn /\ ~view'.diagnostic
    BY <1>1, <1>2, BootFacts
  <1>4. ota' \in Sessions /\ ui'.scene = "none" /\ Drawing(ui', glass')
    BY <1>1, <1>2, NothingDrawnFacts
  <1>5. Drawing(ui, glass)' /\ Bars(view, ui, glass)' /\ Drawn(view, ui)' /\ Final'
    BY <1>3, <1>4 DEF Bars, Drawn, Final, Drawing
  <1>6. glass.frame.scene = "rebooting"
    <2>1. Follows(view, Panel!Snapshot(view, 0))
      BY SnapshotFollows DEF PanelInv
    <2>2. view.rebootDrawn
      BY <2>1 DEF Panel!Restart, Panel!Restarts, Follows
    <2> QED
      BY <2>2 DEF PanelInv, Final, Drawing
  <1> QED
    BY <1>3, <1>4, <1>5, <1>6 DEF PanelInv

LEMMA OtaMovesKeeps ==
    ASSUME Panel!ConstantsOK, PanelInv, Panel!OtaMoves
    PROVE  PanelInv' /\ view' = view /\ boots' = boots
  <1>1. ota' \in Panel!Moved(ota) /\ view' = view /\ ui' = ui /\ glass' = glass /\ boots' = boots
    BY DEF Panel!OtaMoves
  <1>2. ota' \in Sessions /\ ota.phase # "rebooting"
    BY <1>1, SessionFacts DEF PanelInv
  <1> QED
    BY <1>1, <1>2 DEF PanelInv, Drawing, Bars, Drawn, Final

LEMMA PanelNext ==
    ASSUME Panel!ConstantsOK, PanelInv, [Panel!Next]_(Panel!vars)
    PROVE  PanelInv'
  <1>1. CASE Panel!OtaMoves
    BY <1>1, OtaMovesKeeps
  <1>2. CASE Panel!Iteration
    BY <1>2, IterationKeeps
  <1>3. CASE Panel!Restart
    BY <1>3, ReloadKeeps
  <1>4. CASE UNCHANGED Panel!vars
    BY <1>4 DEF Panel!vars, PanelInv, Drawing, Bars, Drawn, Final
  <1> QED
    BY <1>1, <1>2, <1>3, <1>4 DEF Panel!Next

\* The inductive invariant of the Read Pico's loop and its paper.
THEOREM PanelInvariant == ASSUME Panel!ConstantsOK PROVE Panel!Spec => []PanelInv
  <1>1. Panel!Init => PanelInv
    BY PanelInit
  <1>2. PanelInv /\ [Panel!Next]_(Panel!vars) => PanelInv'
    BY PanelNext
  <1> QED
    BY <1>1, <1>2, PTL DEF Panel!Spec

\* The loop's and the driver's types.
THEOREM PanelTypes == ASSUME Panel!ConstantsOK PROVE Panel!Spec => []Panel!TypeOK
  <1>1. PanelInv => Panel!TypeOK
    <2> SUFFICES ASSUME PanelInv PROVE Panel!TypeOK
      OBVIOUS
    <2>1. ota \in Sessions /\ view \in Views /\ Drawing(ui, glass) /\ Soft \in Nat
      BY DEF PanelInv, Panel!ConstantsOK
    <2>2. ui.soft \in 0..Soft /\ glass.ghosts \in 0..Soft
      BY <2>1 DEF Drawing, Drivers, Papers
    <2> QED
      BY <2>1, <2>2 DEF Panel!TypeOK, Sessions, Views, Pages
  <1> QED
    BY <1>1, PanelInvariant, PTL

\* "The frame must not count as displayed": however refreshes fail, what the
\* driver takes for the frame on the paper is there; never as many soft
\* refreshes in a row as the limit; and no shrunken bar shines through unless
\* the loop let it.
THEOREM PanelPaper ==
    ASSUME Panel!ConstantsOK
    PROVE  Panel!Spec => [](Panel!GlassIsFrame /\ Panel!GhostsBounded /\ Panel!BarsAreClean)
  <1>1. PanelInv => Panel!GlassIsFrame /\ Panel!GhostsBounded /\ Panel!BarsAreClean
    BY DEF PanelInv, Drawing, Bars, Panel!GlassIsFrame, Panel!GhostsBounded, Panel!BarsAreClean
  <1> QED
    BY <1>1, PanelInvariant, PTL

\* Page, prompt, link, warning, orientation and failure are on the paper at the
\* end of every iteration, unless a demonstration or a failed refresh is.
THEOREM PanelScene == ASSUME Panel!ConstantsOK PROVE Panel!Spec => []Panel!SceneIsDrawn
  <1>1. PanelInv => Panel!SceneIsDrawn
    <2> SUFFICES ASSUME PanelInv, ~view.diagnostic, ui.scene # "none"
                 PROVE  LET f == Panel!Frame(view)
                        IN  /\ glass.frame.scene = f.scene /\ glass.frame.upright = f.upright
                            /\ glass.frame.banner = f.banner /\ glass.frame.content.online = view.online
                            /\ f.scene \in {"home", "clock"} => glass.frame.content.warning = view.warning
      BY DEF Panel!SceneIsDrawn
    <2>1. Matches(ui.back, view) /\ glass.frame = ui.back /\ view \in Views
      BY DEF PanelInv, Drawn, Drawing
    <2>2. Matches(Panel!Frame(view), view)
      BY <2>1, FrameFacts
    <2> QED
      BY <2>1, <2>2 DEF Matches
  <1> QED
    BY <1>1, PanelInvariant, PTL

\* A demonstration never covers the passkey or a prompt of the session.
THEOREM PanelPrompts ==
    ASSUME Panel!ConstantsOK
    PROVE  Panel!Spec => [][Panel!PromptsAreSeen]_(Panel!vars)
  <1>1. PanelInv /\ [Panel!Next]_(Panel!vars) => [Panel!PromptsAreSeen]_(Panel!vars)
    <2> SUFFICES ASSUME PanelInv, Panel!Next PROVE Panel!PromptsAreSeen
      OBVIOUS
    <2>1. CASE Panel!OtaMoves
      BY <2>1, OtaMovesKeeps DEF Panel!PromptsAreSeen
    <2>2. CASE Panel!Iteration
      BY <2>2, IterationKeeps DEF Panel!PromptsAreSeen
    <2>3. CASE Panel!Restart
      BY <2>3, ReloadKeeps DEF Panel!PromptsAreSeen
    <2> QED
      BY <2>1, <2>2, <2>3 DEF Panel!Next
  <1> QED
    BY <1>1, PanelInvariant, PTL DEF Panel!Spec

\* When the chip restarts, the paper shows that it does.
THEOREM PanelFinal ==
    ASSUME Panel!ConstantsOK
    PROVE  Panel!Spec => [][Panel!FinalFrameIsSeen]_(Panel!vars)
  <1>1. PanelInv /\ [Panel!Next]_(Panel!vars) => [Panel!FinalFrameIsSeen]_(Panel!vars)
    <2> SUFFICES ASSUME PanelInv, Panel!Next PROVE Panel!FinalFrameIsSeen
      OBVIOUS
    <2>1. CASE Panel!OtaMoves
      BY <2>1, OtaMovesKeeps DEF Panel!FinalFrameIsSeen
    <2>2. CASE Panel!Iteration
      BY <2>2, IterationKeeps DEF Panel!FinalFrameIsSeen
    <2>3. CASE Panel!Restart
      BY <2>3, ReloadKeeps DEF Panel!FinalFrameIsSeen
    <2> QED
      BY <2>1, <2>2, <2>3 DEF Panel!Next
  <1> QED
    BY <1>1, PanelInvariant, PTL DEF Panel!Spec
-----------------------------------------------------------------------------
(***************************************************************************)
(* The card: the history that is shown is the one of the card that is      *)
(* mounted, which one task at a time sees to, for any cards, whenever      *)
(* their user changes them and the slot's pin cannot be read.              *)
(*                                                                         *)
(* Who may work on the card is said by probe_state (Turns).  A card that   *)
(* was out is not the mounted one when it is back (Mounted): a sample of   *)
(* the empty slot invalidates what is mounted or being mounted, and no     *)
(* card goes in before such a sample.  The loop, which remembers more than *)
(* the state it copies, forgets it whenever a card appears (Absent).       *)
(***************************************************************************)
CONSTANTS Cards, Swaps, Glitches, Patient
VARIABLES slot, card, state, probe, main, loop, swaps, glitches

Sd == INSTANCE SdCard

Errors == {"none", "busy", "absent", "invalid", "mount"}

Infos == [present : BOOLEAN, mounted : BOOLEAN, error : Errors]

States == [probe : 0 .. 2, invalid : BOOLEAN, info : Infos]

Probes ==
    [at : {"none", "sample", "mount", "again", "info", "publish"},
     present : BOOLEAN, error : Errors]

Mains ==
    [at : {"idle", "get", "remount", "close", "reset", "start", "sample"},
     present : BOOLEAN, first : BOOLEAN]

Loops == [present : BOOLEAN, sd : BOOLEAN, loaded : Cards \cup {0}]

CardTypes ==
    /\ slot \in Cards \cup {0} /\ card \in Cards \cup {0}
    /\ state \in States /\ probe \in Probes /\ main \in Mains /\ loop \in Loops
    /\ glitches \in 0 .. Glitches

\* The probe's task and the loop take turns, as probe_state says.
Turns ==
    /\ probe.at # "none" => state.probe = 1 /\ main.at \notin {"close", "reset", "start"}
    /\ main.at \in {"close", "reset"} => state.probe = 1
    /\ main.at = "start" => state = [probe |-> 0, invalid |-> FALSE, info |-> Sd!NoInfo]
    /\ state.probe = 1 /\ main.at \notin {"close", "reset"} => probe.at # "none"

\* A probe starts without a card, and the loop leaves none behind.
Closed ==
    /\ probe.at \in {"sample", "mount", "again"} => card = 0
    /\ main.at \in {"reset", "start"} => card = 0

\* What is mounted, or about to be, is the card in the slot.
Holds == card # 0 /\ (slot # 0 => slot = card)

Mounted ==
    /\ state.info.mounted => ~state.invalid /\ state.info.error = "none"
    /\ state.info.mounted /\ state.probe = 2 => Holds
    /\ probe.at # "none" /\ ~state.invalid => state.info.error # "absent"
    /\ probe.at \in {"info", "publish"} /\ probe.error = "none" /\ ~state.invalid => Holds

\* The loop has asked for the card at least once.
Asked == ~(main.first /\ main.at \in {"idle", "get"})

\* When the loop has seen no card, none is mounted, nor will be by a probe that
\* still runs; it has its probe started anew only for a card it has seen.
Absent ==
    Asked /\ ~loop.present =>
        /\ ~state.info.mounted
        /\ probe.at # "none" => state.invalid
        /\ main.at \notin {"remount", "close", "reset", "start"}

\* What the loop remembers of the card it shows.
Remembers ==
    /\ loop.loaded # 0 => loop.loaded = card
    /\ main.at \in {"remount", "close", "reset", "start"} =>
          loop.loaded = 0 /\ (loop.sd => main.first)
    /\ main.at = "sample" /\ loop.sd /\ ~main.first =>
          loop.present /\ state.info.mounted /\ state.probe = 2

\* Nobody is hasty and every sample of the slot is right.
Calm == Patient /\ Glitches = 0

\* Then a card that was invalidated is one the loop has yet to see, or is
\* seeing to.
Tried ==
    Calm =>
        /\ state.invalid /\ slot # 0 =>
              /\ probe.at = "none"
              /\ ~loop.present \/ main.at \in {"remount", "close", "reset"}
        /\ probe.at = "publish" /\ ~probe.present => slot = 0
        /\ main.at = "get" /\ ~main.present => slot = 0 \/ ~Sd!MayBeUsed(state)

CardInv == CardTypes /\ Turns /\ Closed /\ Mounted /\ Absent /\ Remembers /\ Tried

-----------------------------------------------------------------------------
\* What a sample of the slot may say.
Sampled(present) ==
    /\ present \in BOOLEAN
    /\ present => slot # 0
    /\ ~present /\ slot # 0 => Glitches # 0
    /\ glitches' \in 0 .. Glitches

\* observe_media_locked(): a sample of an empty slot invalidates a card that is
\* mounted or being mounted, and nothing mounts it again but a reset.
LEMMA ObservedIs ==
  ASSUME NEW s \in States, NEW present \in BOOLEAN
  PROVE  /\ Sd!Observed(s, present) \in States
         /\ Sd!Observed(s, present).probe = s.probe
         /\ Sd!Observed(s, present).invalid
               <=> s.invalid \/ (~present /\ (s.info.mounted \/ s.probe = 1))
         /\ Sd!Observed(s, present).info.mounted
               <=> s.info.mounted /\ present /\ ~Sd!Observed(s, present).invalid
         /\ Sd!Observed(s, present).info.error =
               IF present /\ ~Sd!Observed(s, present).invalid THEN s.info.error
               ELSE IF present THEN "invalid" ELSE "absent"
  <1> DEFINE invalid == s.invalid \/ (~present /\ Sd!MayBeUsed(s))
  <1>1. CASE present /\ ~invalid
    BY <1>1 DEF Sd!Observed, Sd!MayBeUsed, States, Infos, Errors
  <1>2. CASE ~(present /\ ~invalid)
    BY <1>2 DEF Sd!Observed, Sd!MayBeUsed, States, Infos, Errors
  <1> QED BY <1>1, <1>2

\* The probe looks at the slot before it mounts.
LEMMA ProbeSampleKeeps ==
  ASSUME Sd!ConstantsOK, CardInv, Sd!ProbeSample
  PROVE  CardInv'
  <1> DEFINE Took(present) == probe' = IF present THEN [probe EXCEPT !.at = "mount"]
                              ELSE [probe EXCEPT !.at = "info", !.error = "absent"]
  <1>a. (Sampled(slot # 0) /\ Took(slot # 0)) \/ (Sampled(FALSE) /\ Took(FALSE))
    BY DEF Sd!ProbeSample, Sd!Samples, Sampled, CardInv, CardTypes, Sd!ConstantsOK
  <1>0. PICK present \in BOOLEAN : Sampled(present) /\ Took(present)
    BY <1>a
  <1>1. CardTypes'
    <2>1. probe' \in Probes
      BY <1>0 DEF CardInv, CardTypes, Probes, Errors
    <2> QED BY <1>0, <2>1 DEF Sd!ProbeSample, Sampled, CardInv, CardTypes, Sd!ConstantsOK
  <1>2. Turns'
    BY <1>0 DEF Sd!ProbeSample, CardInv, Turns
  <1>3. Closed'
    BY <1>0 DEF Sd!ProbeSample, CardInv, Closed
  <1>4. Mounted'
    BY <1>0 DEF Sd!ProbeSample, CardInv, Turns, Mounted
  <1>5. Absent'
    BY <1>0 DEF Sd!ProbeSample, CardInv, Absent, Asked
  <1>6. Remembers'
    BY <1>0 DEF Sd!ProbeSample, CardInv, Remembers
  <1>7. Tried'
    BY <1>0 DEF Sd!ProbeSample, CardInv, Tried
  <1> QED BY <1>1, <1>2, <1>3, <1>4, <1>5, <1>6, <1>7 DEF CardInv

\* What is mounted is the card in the slot.
LEMMA MountKeeps ==
  ASSUME Sd!ConstantsOK, CardInv, Sd!Mount
  PROVE  CardInv'
  <1>1. CardTypes'
    <2>1. probe' \in Probes
      BY DEF Sd!Mount, CardInv, CardTypes, Probes, Errors
    <2> QED BY <2>1 DEF Sd!Mount, CardInv, CardTypes, Sd!ConstantsOK
  <1>2. Turns'
    BY DEF Sd!Mount, CardInv, CardTypes, Probes, Turns
  <1>3. Closed'
    BY DEF Sd!Mount, CardInv, CardTypes, Probes, Turns, Closed
  <1>4. Mounted'
    BY DEF Sd!Mount, CardInv, CardTypes, Probes, Closed, Mounted, Holds
  <1>5. Absent'
    BY DEF Sd!Mount, CardInv, Absent, Asked
  <1>6. Remembers'
    BY DEF Sd!Mount, CardInv, Remembers
  <1>7. Tried'
    BY DEF Sd!Mount, CardInv, CardTypes, Probes, Tried
  <1> QED BY <1>1, <1>2, <1>3, <1>4, <1>5, <1>6, <1>7 DEF CardInv

\* The probe looks at the slot again before it reports.
LEMMA ProbeInfoKeeps ==
  ASSUME Sd!ConstantsOK, CardInv, Sd!ProbeInfo
  PROVE  CardInv'
  <1> DEFINE Took(present) == probe' = [probe EXCEPT !.at = "publish", !.present = present]
  <1>a. (Sampled(slot # 0) /\ Took(slot # 0)) \/ (Sampled(FALSE) /\ Took(FALSE))
    BY DEF Sd!ProbeInfo, Sd!Samples, Sampled, CardInv, CardTypes, Sd!ConstantsOK
  <1>0. PICK present \in BOOLEAN : Sampled(present) /\ Took(present)
    BY <1>a
  <1>1. CardTypes'
    <2>1. probe' \in Probes
      BY <1>0 DEF CardInv, CardTypes, Probes
    <2> QED BY <1>0, <2>1 DEF Sd!ProbeInfo, Sampled, CardInv, CardTypes, Sd!ConstantsOK
  <1>2. Turns'
    BY <1>0 DEF Sd!ProbeInfo, CardInv, Turns
  <1>3. Closed'
    BY <1>0 DEF Sd!ProbeInfo, CardInv, Closed
  <1>4. Mounted'
    BY <1>0 DEF Sd!ProbeInfo, CardInv, Mounted, Holds
  <1>5. Absent'
    BY <1>0 DEF Sd!ProbeInfo, CardInv, Absent, Asked
  <1>6. Remembers'
    BY <1>0 DEF Sd!ProbeInfo, CardInv, Remembers
  <1>7. Tried'
    BY <1>0 DEF Sd!ProbeInfo, Sampled, CardInv, Tried, Calm
  <1> QED BY <1>1, <1>2, <1>3, <1>4, <1>5, <1>6, <1>7 DEF CardInv

\* The report of a card that was out in the meantime does not count.
LEMMA PublishKeeps ==
  ASSUME Sd!ConstantsOK, CardInv, Sd!Publish
  PROVE  CardInv'
  <1> DEFINE found == [present |-> probe.present, mounted |-> probe.error = "none", error |-> probe.error]
             before == [state EXCEPT !.info = found]
             o == Sd!Observed(before, probe.present)
  <1>1. found \in Infos /\ (found.mounted <=> probe.error = "none") /\ found.error = probe.error
    BY DEF CardInv, CardTypes, Probes, Infos
  <1>2. before \in States /\ before.info = found /\ before.probe = 1 /\ before.invalid = state.invalid
    BY <1>1 DEF Sd!Publish, CardInv, CardTypes, States, Turns
  <1>3. probe.present \in BOOLEAN
    BY DEF CardInv, CardTypes, Probes
  <1>4. /\ state' = [o EXCEPT !.probe = 2] /\ probe' = [probe EXCEPT !.at = "none"]
        /\ probe.at = "publish" /\ UNCHANGED <<slot, card, main, loop, swaps, glitches>>
    BY DEF Sd!Publish
  <1> HIDE DEF found, before
  <1>5. /\ o \in States
        /\ (o.invalid <=> state.invalid \/ ~probe.present)
        /\ (o.info.mounted <=> probe.error = "none" /\ probe.present /\ ~o.invalid)
        /\ o.info.error = IF probe.present /\ ~o.invalid THEN probe.error
                          ELSE IF probe.present THEN "invalid" ELSE "absent"
    <2>1. /\ o \in States
          /\ o.invalid <=> before.invalid \/ (~probe.present /\ (before.info.mounted \/ before.probe = 1))
          /\ o.info.mounted <=> before.info.mounted /\ probe.present /\ ~o.invalid
          /\ o.info.error = IF probe.present /\ ~o.invalid THEN before.info.error
                            ELSE IF probe.present THEN "invalid" ELSE "absent"
      BY <1>2, <1>3, ObservedIs
    <2> HIDE DEF o
    <2> QED BY <1>1, <1>2, <2>1
  <1>6. state' \in States /\ state'.probe = 2 /\ state'.invalid = o.invalid /\ state'.info = o.info
    BY <1>4, <1>5 DEF States
  <1> HIDE DEF o
  <1>7. CardTypes'
    BY <1>4, <1>5, <1>6 DEF CardInv, CardTypes, Probes
  <1>8. Turns'
    BY <1>4, <1>5, <1>6 DEF CardInv, CardTypes, Probes, Turns
  <1>9. Closed'
    BY <1>4, <1>5, <1>6 DEF CardInv, CardTypes, Probes, Closed
  <1>10. Mounted'
    BY <1>4, <1>5, <1>6 DEF CardInv, Mounted, Holds
  <1>11. Absent'
    BY <1>4, <1>5, <1>6 DEF CardInv, Absent, Asked
  <1>12. Remembers'
    BY <1>4, <1>5, <1>6 DEF CardInv, Turns, Remembers
  <1>13. Tried'
    BY <1>4, <1>5, <1>6 DEF CardInv, Turns, Tried, Sd!MayBeUsed
  <1> QED BY <1>7, <1>8, <1>9, <1>10, <1>11, <1>12, <1>13 DEF CardInv

\* The loop looks at the slot.
LEMMA PollSampleKeeps ==
  ASSUME Sd!ConstantsOK, CardInv, Sd!PollSample
  PROVE  CardInv'
  <1> DEFINE Took(present) == main' = [main EXCEPT !.at = "get", !.present = present]
  <1>a. (Sampled(slot # 0) /\ Took(slot # 0)) \/ (Sampled(FALSE) /\ Took(FALSE))
    BY DEF Sd!PollSample, Sd!Samples, Sampled, CardInv, CardTypes, Sd!ConstantsOK
  <1>0. PICK present \in BOOLEAN : Sampled(present) /\ Took(present)
    BY <1>a
  <1>1. CardTypes'
    <2>1. main' \in Mains
      BY <1>0 DEF Sd!PollSample, Sampled, CardInv, CardTypes, Mains
    <2> QED BY <1>0, <2>1 DEF Sd!PollSample, Sampled, CardInv, CardTypes, Sd!ConstantsOK
  <1>2. Turns'
    BY <1>0 DEF Sd!PollSample, CardInv, Turns
  <1>3. Closed'
    BY <1>0 DEF Sd!PollSample, CardInv, Closed
  <1>4. Mounted'
    BY <1>0 DEF Sd!PollSample, CardInv, Mounted, Holds
  <1>5. Absent'
    BY <1>0 DEF Sd!PollSample, CardInv, Absent, Asked
  <1>6. Remembers'
    BY <1>0 DEF Sd!PollSample, CardInv, Remembers
  <1>7. Tried'
    BY <1>0 DEF Sd!PollSample, Sampled, CardInv, Tried, Calm
  <1> QED BY <1>1, <1>2, <1>3, <1>4, <1>5, <1>6, <1>7 DEF CardInv

\* The loop copies the state; a card that appears takes its history away.
LEMMA GetKeeps ==
  ASSUME Sd!ConstantsOK, CardInv, Sd!Get
  PROVE  CardInv'
  <1>1. CardTypes'
    <2>1. state' \in States
      BY DEF Sd!Get, Sd!Observed, CardInv, CardTypes, States, Infos, Errors, Mains
    <2>2. loop' \in Loops
      BY DEF Sd!Get, Sd!Observed, Sd!HistoryGone, CardInv, CardTypes, Loops, Mains
    <2>3. main' \in Mains
      BY DEF Sd!Get, CardInv, CardTypes, Mains
    <2> QED BY <2>1, <2>2, <2>3 DEF Sd!Get, CardInv, CardTypes
  <1>2. Turns'
    BY DEF Sd!Get, Sd!Observed, CardInv, Turns
  <1>3. Closed'
    BY DEF Sd!Get, CardInv, Closed
  <1>4. Mounted'
    BY DEF Sd!Get, Sd!Observed, Sd!MayBeUsed, CardInv, CardTypes, States, Infos, Turns, Mounted, Holds
  <1>5. Absent'
    BY DEF Sd!Get, Sd!Observed, Sd!MayBeUsed, CardInv, CardTypes, States, Infos, Mains, Turns, Absent
  <1>6. Remembers'
    BY DEF Sd!Get, Sd!Observed, Sd!HistoryGone, CardInv, CardTypes, Mains, Absent, Asked, Remembers
  <1>7. Tried'
    BY DEF Sd!Get, Sd!Observed, CardInv, CardTypes, States, Tried
  <1> QED BY <1>1, <1>2, <1>3, <1>4, <1>5, <1>6, <1>7 DEF CardInv

\* The loop takes its turn, unless the probe has it.
LEMMA RemountKeeps ==
  ASSUME Sd!ConstantsOK, CardInv, Sd!Remount
  PROVE  CardInv'
  <1>1. CardTypes'
    <2>1. state' \in States
      BY DEF Sd!Remount, CardInv, CardTypes, States
    <2>2. main' \in Mains
      BY DEF Sd!Remount, Sd!Ready, CardInv, CardTypes, Mains
    <2> QED BY <2>1, <2>2 DEF Sd!Remount, Sd!Ready, CardInv, CardTypes, Sd!ConstantsOK
  <1>2. Turns'
    BY DEF Sd!Remount, Sd!Ready, CardInv, CardTypes, States, Mains, Turns
  <1>3. Closed'
    BY DEF Sd!Remount, CardInv, CardTypes, Mains, Closed
  <1>4. Mounted'
    BY DEF Sd!Remount, CardInv, CardTypes, States, Mounted, Holds
  <1>5. Absent'
    BY DEF Sd!Remount, CardInv, Absent, Asked
  <1>6. Remembers'
    BY DEF Sd!Remount, CardInv, CardTypes, Mains, Remembers
  <1>7. Tried'
    BY DEF Sd!Remount, Sd!Ready, CardInv, CardTypes, Mains, Turns, Tried
  <1> QED BY <1>1, <1>2, <1>3, <1>4, <1>5, <1>6, <1>7 DEF CardInv

\* The card is closed while the loop has its turn.
LEMMA CloseKeeps ==
  ASSUME Sd!ConstantsOK, CardInv, Sd!Close
  PROVE  CardInv'
  <1>1. CardTypes'
    <2>1. main' \in Mains
      BY DEF Sd!Close, CardInv, CardTypes, Mains
    <2> QED BY <2>1 DEF Sd!Close, CardInv, CardTypes, Sd!ConstantsOK
  <1>2. Turns'
    BY DEF Sd!Close, CardInv, Turns
  <1>3. Closed'
    BY DEF Sd!Close, Closed
  <1>4. Mounted'
    BY DEF Sd!Close, CardInv, Turns, Mounted
  <1>5. Absent'
    BY DEF Sd!Close, CardInv, Absent, Asked
  <1>6. Remembers'
    BY DEF Sd!Close, CardInv, Remembers
  <1>7. Tried'
    BY DEF Sd!Close, CardInv, Tried
  <1> QED BY <1>1, <1>2, <1>3, <1>4, <1>5, <1>6, <1>7 DEF CardInv

\* The state starts anew, with no card.
LEMMA CardResetKeeps ==
  ASSUME Sd!ConstantsOK, CardInv, Sd!Reset
  PROVE  CardInv'
  <1> DEFINE Took(present) == main' = [main EXCEPT !.at = "start", !.present = present]
  <1>a. (Sampled(slot # 0) /\ Took(slot # 0)) \/ (Sampled(FALSE) /\ Took(FALSE))
    BY DEF Sd!Reset, Sd!Samples, Sampled, CardInv, CardTypes, Sd!ConstantsOK
  <1>0. PICK present \in BOOLEAN : Sampled(present) /\ Took(present)
    BY <1>a
  <1>1. CardTypes'
    <2>1. state' \in States
      BY <1>0 DEF Sd!Reset, Sd!NoInfo, States, Infos, Errors
    <2>2. main' \in Mains
      BY <1>0 DEF CardInv, CardTypes, Mains
    <2> QED BY <1>0, <2>1, <2>2 DEF Sd!Reset, Sampled, CardInv, CardTypes
  <1>2. Turns'
    BY <1>0 DEF Sd!Reset, CardInv, Turns
  <1>3. Closed'
    BY <1>0 DEF Sd!Reset, CardInv, Closed
  <1>4. Mounted'
    BY <1>0 DEF Sd!Reset, Sd!NoInfo, CardInv, Turns, Mounted
  <1>5. Absent'
    BY <1>0 DEF Sd!Reset, CardInv, Absent, Asked
  <1>6. Remembers'
    BY <1>0 DEF Sd!Reset, CardInv, Remembers
  <1>7. Tried'
    BY <1>0 DEF Sd!Reset, CardInv, Tried
  <1> QED BY <1>1, <1>2, <1>3, <1>4, <1>5, <1>6, <1>7 DEF CardInv

\* The probe gets its turn when there is a card.
LEMMA CardStartKeeps ==
  ASSUME Sd!ConstantsOK, CardInv, Sd!Start
  PROVE  CardInv'
  <1> DEFINE o == Sd!Observed(state, main.present)
             busy == [Sd!NoInfo EXCEPT !.present = TRUE, !.error = "busy"]
  <1>1. /\ main.at = "start" /\ probe.at = "none" /\ card = 0
        /\ state = [probe |-> 0, invalid |-> FALSE, info |-> Sd!NoInfo]
    BY DEF Sd!Start, CardInv, Turns, Closed
  <1>2. state \in States /\ main.present \in BOOLEAN /\ ~Sd!NoInfo.mounted
    BY DEF CardInv, CardTypes, Mains, Sd!NoInfo
  <1>3. o \in States /\ o.probe = 0 /\ ~o.invalid
        /\ ~o.info.mounted /\ (~main.present => o.info.error = "absent")
    <2>1. state.probe = 0 /\ ~state.invalid /\ ~state.info.mounted
      BY <1>1, <1>2
    <2> QED BY <1>2, <2>1, ObservedIs
  <1>4. busy \in Infos /\ ~busy.mounted /\ busy.error = "busy"
    BY DEF Sd!NoInfo, Infos, Errors
  <1>5. main' = [main EXCEPT !.at = "sample"] /\ UNCHANGED <<slot, card, loop, glitches>>
    BY DEF Sd!Start
  <1>6. IF main.present
        THEN state' = [o EXCEPT !.probe = 1, !.info = busy] /\ probe' = [probe EXCEPT !.at = "sample"]
        ELSE state' = [o EXCEPT !.probe = 2] /\ probe' = probe
    BY <1>1, <1>3 DEF Sd!Start
  <1> HIDE DEF o, busy
  <1>7. CASE main.present
    <2>1. /\ state' \in States /\ state'.probe = 1 /\ ~state'.invalid
          /\ ~state'.info.mounted /\ state'.info.error = "busy"
          /\ probe' \in Probes /\ probe'.at = "sample"
      <3>1. state' \in States /\ state'.probe = 1 /\ state'.invalid = o.invalid /\ state'.info = busy
        <4>1. state' = [[o EXCEPT !.probe = 1] EXCEPT !.info = busy]
          BY <1>6, <1>7
        <4>2. 1 \in 0 .. 2
          OBVIOUS
        <4> QED BY <1>3, <1>4, <4>1, <4>2 DEF States
      <3>2. probe' \in Probes /\ probe'.at = "sample"
        BY <1>6, <1>7 DEF CardInv, CardTypes, Probes
      <3> QED BY <1>3, <1>4, <3>1, <3>2
    <2>2. CardTypes'
      BY <1>5, <2>1 DEF CardInv, CardTypes, Mains
    <2> QED BY <1>1, <1>5, <2>1, <2>2
        DEF CardInv, CardTypes, Mains, Turns, Closed, Mounted, Absent, Asked, Remembers, Tried
  <1>8. CASE ~main.present
    <2>1. /\ state' \in States /\ state'.probe = 2 /\ ~state'.invalid
          /\ ~state'.info.mounted /\ probe' = probe
      BY <1>3, <1>6, <1>8 DEF States
    <2>2. CardTypes'
      BY <1>5, <2>1 DEF CardInv, CardTypes, Mains
    <2> QED BY <1>1, <1>5, <2>1, <2>2
        DEF CardInv, CardTypes, Mains, Turns, Closed, Mounted, Absent, Asked, Remembers, Tried
  <1> QED BY <1>7, <1>8

\* The history is read from the card that is mounted.
LEMMA LoadKeeps ==
  ASSUME Sd!ConstantsOK, CardInv, Sd!Load
  PROVE  CardInv'
  <1>1. CardTypes'
    <2>1. main' \in Mains
      BY DEF Sd!Load, CardInv, CardTypes, Mains
    <2>2. loop' \in Loops
      BY DEF Sd!Load, CardInv, CardTypes, Loops
    <2> QED BY <2>1, <2>2 DEF Sd!Load, CardInv, CardTypes, Sd!ConstantsOK
  <1>2. Turns'
    BY DEF Sd!Load, CardInv, Turns
  <1>3. Closed'
    BY DEF Sd!Load, CardInv, Closed
  <1>4. Mounted'
    BY DEF Sd!Load, CardInv, Mounted, Holds
  <1>5. Absent'
    BY DEF Sd!Load, CardInv, Absent, Asked
  <1>6. Remembers'
    BY DEF Sd!Load, CardInv, Remembers
  <1>7. Tried'
    BY DEF Sd!Load, CardInv, Tried
  <1> QED BY <1>1, <1>2, <1>3, <1>4, <1>5, <1>6, <1>7 DEF CardInv

\* A card is taken out: nothing is said of the slot until it is sampled.
LEMMA TakeOutKeeps ==
  ASSUME Sd!ConstantsOK, CardInv, Sd!TakeOut
  PROVE  CardInv'
  <1>1. CardTypes'
    <2> QED BY DEF Sd!TakeOut, CardInv, CardTypes, Sd!ConstantsOK
  <1>2. Turns'
    BY DEF Sd!TakeOut, CardInv, Turns
  <1>3. Closed'
    BY DEF Sd!TakeOut, CardInv, Closed
  <1>4. Mounted'
    BY DEF Sd!TakeOut, CardInv, Mounted, Holds
  <1>5. Absent'
    BY DEF Sd!TakeOut, CardInv, Absent, Asked
  <1>6. Remembers'
    BY DEF Sd!TakeOut, CardInv, Remembers
  <1>7. Tried'
    BY DEF Sd!TakeOut, Tried
  <1> QED BY <1>1, <1>2, <1>3, <1>4, <1>5, <1>6, <1>7 DEF CardInv

\* A card goes into a slot that was seen empty.
LEMMA PutInKeeps ==
  ASSUME Sd!ConstantsOK, CardInv, Sd!PutIn
  PROVE  CardInv'
  <1>1. CardTypes'
    <2> QED BY DEF Sd!PutIn, CardInv, CardTypes, Sd!ConstantsOK
  <1>2. Turns'
    BY DEF Sd!PutIn, CardInv, Turns
  <1>3. Closed'
    BY DEF Sd!PutIn, CardInv, Closed
  <1>4. Mounted'
    BY DEF Sd!PutIn, CardInv, Mounted
  <1>5. Absent'
    BY DEF Sd!PutIn, CardInv, Absent, Asked
  <1>6. Remembers'
    BY DEF Sd!PutIn, CardInv, Remembers
  <1>7. Tried'
    BY DEF Sd!PutIn, CardInv, Turns, Mounted, Tried, Calm, Sd!MayBeUsed
  <1> QED BY <1>1, <1>2, <1>3, <1>4, <1>5, <1>6, <1>7 DEF CardInv

\* The first state, a probe that begins, satisfies the invariant.
LEMMA CardStarts == ASSUME Sd!ConstantsOK, Sd!Init PROVE CardInv
  <1>1. CardTypes
    <2>1. state \in States
      <3>1. [Sd!NoInfo EXCEPT !.present = TRUE, !.error = "busy"] \in Infos
        BY DEF Infos, Errors, Sd!NoInfo
      <3> QED BY <3>1 DEF Sd!Init, States
    <2>2. probe \in Probes /\ main \in Mains /\ loop \in Loops
      BY DEF Sd!Init, Probes, Mains, Loops, Errors
    <2> QED BY <2>1, <2>2 DEF Sd!Init, CardTypes, Sd!ConstantsOK
  <1>2. Turns /\ Closed /\ Mounted /\ Absent /\ Remembers
    BY DEF Sd!Init, Turns, Closed, Mounted, Absent, Asked, Remembers, Sd!NoInfo
  <1>3. Tried
    BY DEF Sd!Init, Tried
  <1> QED BY <1>1, <1>2, <1>3 DEF CardInv

\* Every step keeps the invariant.
LEMMA CardKeeps ==
  ASSUME Sd!ConstantsOK, CardInv, [Sd!Next]_(Sd!vars)
  PROVE  CardInv'
  <1>1. CASE Sd!Task
    BY <1>1, ProbeSampleKeeps, MountKeeps, ProbeInfoKeeps, PublishKeeps DEF Sd!Task
  <1>2. CASE Sd!Loop
    BY <1>2, PollSampleKeeps, GetKeeps, RemountKeeps, CloseKeeps, CardResetKeeps, CardStartKeeps, LoadKeeps
       DEF Sd!Loop
  <1>3. CASE Sd!User
    BY <1>3, TakeOutKeeps, PutInKeeps DEF Sd!User
  <1>4. CASE UNCHANGED Sd!vars
    BY <1>4 DEF Sd!vars, CardInv, CardTypes, Turns, Closed, Mounted, Holds, Absent, Asked, Remembers, Tried,
                Sd!MayBeUsed
  <1> QED BY <1>1, <1>2, <1>3, <1>4 DEF Sd!Next

\* The slot, the task and the loop keep the invariant.
THEOREM CardInvariant == ASSUME Sd!ConstantsOK PROVE Sd!Spec => []CardInv
  <1>1. Sd!Init => CardInv
    BY CardStarts
  <1>2. CardInv /\ [Sd!Next]_(Sd!vars) => CardInv'
    BY CardKeeps
  <1> QED BY <1>1, <1>2, PTL DEF Sd!Spec

\* One task at a time mounts or closes the card (begin_operation()).
THEOREM CardOneMounter == ASSUME Sd!ConstantsOK PROVE Sd!Spec => []Sd!OneMounter
  <1>1. CardInv => Sd!OneMounter
    BY DEF CardInv, Turns, Sd!OneMounter
  <1> QED BY <1>1, CardInvariant, PTL

\* When the history is read or written its card is mounted, and is the one in
\* the slot if there is one (read_pico_sd_get_info(), Board::poll()).
THEOREM CardShown == ASSUME Sd!ConstantsOK PROVE Sd!Spec => []Sd!ShownIsMounted
  <1>1. CardInv => Sd!ShownIsMounted
    BY DEF CardInv, Remembers, Mounted, Holds, Sd!ShownIsMounted
  <1> QED BY <1>1, CardInvariant, PTL

\* The history that is shown was read from the card that is mounted.
THEOREM CardHistory == ASSUME Sd!ConstantsOK PROVE Sd!Spec => []Sd!HistoryIsTheCards
  <1>1. CardInv => Sd!HistoryIsTheCards
    BY DEF CardInv, Remembers, Sd!HistoryIsTheCards
  <1> QED BY <1>1, CardInvariant, PTL

\* A card that was put in without haste, and seen, is mounted or was tried.
THEOREM CardTried == ASSUME Sd!ConstantsOK PROVE Sd!Spec => []Sd!CardIsTried
  <1>1. CardInv => Sd!CardIsTried
    BY DEF CardInv, Tried, Calm, Sd!CardIsTried
  <1> QED BY <1>1, CardInvariant, PTL
-----------------------------------------------------------------------------
(***************************************************************************)
(* The history on the card of Read Pico and RLCD.                          *)
(*                                                                         *)
(* The file and its backup are never both gone: the backup is removed only *)
(* when there is a file (Guarded), a file takes its name only from a       *)
(* temporary file that is complete (Replacing), and no file is newer than    *)
(* the half hour that is counted (Ordered), so that the file that replaces *)
(* them is the newest.  What memory shows follows the card (Stored).       *)
(***************************************************************************)
CONSTANTS Board, Buckets, MaxSwaps
VARIABLES files, trend, loaded, bucket, writes, shelf

Trend == INSTANCE TrendStore WITH card <- shelf, pc <- writes

\* The file and its backup are missing or whole; nothing is from the future.
Ordered ==
    /\ \A f \in {"bin", "bak"} : files[f] = Trend!Missing \/ files[f] \in 1 .. bucket
    /\ files["tmp"] <= bucket

\* A replacement is for the half hour of now, and its file is complete once
\* it is written.
Replacing ==
    /\ writes # "idle" => loaded /\ bucket > 0
    /\ writes \in {"stat", "remove", "keep", "install"} => files["tmp"] = bucket

\* Before the backup goes, and until it is replaced, there is a file.
Guarded == writes \in {"remove", "keep"} => files["bin"] # Trend!Missing

\* What is shown can be found on the card, also during a replacement.
Stored == loaded => trend <= Trend!Found(files)

TrendInv == Trend!TypeOK /\ Ordered /\ Replacing /\ Guarded /\ Stored

\* What the next boot finds when the file is there, and when it is not.
LEMMA FoundIs ==
  ASSUME NEW fs, fs["bin"] \in Int, fs["bak"] \in Int
  PROVE  Trend!Found(fs) = IF fs["bin"] > 0 THEN fs["bin"] ELSE IF fs["bak"] > 0 THEN fs["bak"] ELSE 0
  <1> DEFINE S == {fs["bak"], 0}
             m == IF fs["bak"] > 0 THEN fs["bak"] ELSE 0
  <1>1. m \in S /\ \A y \in S : m >= y
    OBVIOUS
  <1>2. \A x \in S : (\A y \in S : x >= y) => x = m
    OBVIOUS
  <1>3. Trend!Max(S) = m
    BY <1>1, <1>2 DEF Trend!Max
  <1> QED BY <1>3 DEF Trend!Found

\* The three names are three, and hold what TypeOK says.
LEMMA Card ==
  ASSUME Trend!ConstantsOK, TrendInv
  PROVE  /\ files["bin"] \in Int /\ files["bak"] \in Int /\ files["tmp"] \in Int
         /\ bucket \in Nat /\ trend \in Nat /\ Buckets \in Nat
         /\ Trend!Found(files) = IF files["bin"] = Trend!Missing
                           THEN IF files["bak"] = Trend!Missing THEN 0 ELSE files["bak"]
                           ELSE files["bin"]
  <1>1. files["bin"] \in Int /\ files["bak"] \in Int /\ files["tmp"] \in Int
        /\ bucket \in Nat /\ trend \in Nat /\ Buckets \in Nat
    BY DEF Trend!ConstantsOK, TrendInv, Trend!TypeOK, Trend!Missing
  <1>2. \A f \in {"bin", "bak"} : files[f] = Trend!Missing \/ files[f] \in 1 .. bucket
    BY DEF TrendInv, Ordered
  <1> QED BY <1>1, <1>2, FoundIs DEF Trend!Missing

\* The first state satisfies the invariant.
LEMMA TrendStarts == ASSUME Trend!ConstantsOK PROVE Trend!Init => TrendInv
  <1> SUFFICES ASSUME Trend!Init PROVE TrendInv
    OBVIOUS
  <1>1. Trend!TypeOK
    <2>1. /\ Trend!Missing \in Trend!Missing .. Buckets
          /\ 0 \in 0 .. Buckets /\ 0 \in 0 .. MaxSwaps
      BY DEF Trend!ConstantsOK, Trend!Missing
    <2>2. files \in [{"bin", "bak", "tmp"} -> Trend!Missing .. Buckets]
      BY <2>1 DEF Trend!Init
    <2> QED BY <2>1, <2>2 DEF Trend!Init, Trend!TypeOK, Trend!Steps
  <1>2. Ordered /\ Replacing /\ Guarded /\ Stored
    BY DEF Trend!Init, Ordered, Replacing, Guarded, Stored, Trend!Missing
  <1> QED BY <1>1, <1>2 DEF TrendInv

\* A step that leaves the card alone changes nothing a boot finds there.
LEMMA SameCard ==
  ASSUME files' = files
  PROVE  Trend!Found(files') = Trend!Found(files) /\ (Trend!Found(files))' = Trend!Found(files)
  BY DEF Trend!Found

\* What is on the card after a step that changes it.
LEMMA NewCard ==
  ASSUME files' \in [{"bin", "bak", "tmp"} -> Int]
  PROVE  /\ Trend!Found(files') = (Trend!Found(files))'
         /\ Trend!Found(files') = IF files'["bin"] > 0 THEN files'["bin"]
                            ELSE IF files'["bak"] > 0 THEN files'["bak"] ELSE 0
  <1>1. files'["bin"] \in Int /\ files'["bak"] \in Int
    OBVIOUS
  <1> QED BY <1>1, FoundIs DEF Trend!Found

\* Every step keeps the invariant, and no step makes a boot find less on the
\* same card.
LEMMA TrendKeeps ==
  ASSUME Trend!ConstantsOK, TrendInv, [Trend!Next]_(Trend!vars)
  PROVE  TrendInv' /\ Trend!NothingIsForgotten
  <1> USE Card DEF TrendInv, Trend!Missing
  <1>1. CASE Trend!Time
    BY <1>1, SameCard DEF Trend!Time, Trend!TypeOK, Ordered, Replacing, Guarded, Stored, Trend!NothingIsForgotten
  <1>2. CASE Trend!Load
    BY <1>2, SameCard DEF Trend!Load, Trend!TypeOK, Ordered, Replacing, Guarded, Stored, Trend!NothingIsForgotten
  <1>3. CASE Trend!Sample
    BY <1>3, SameCard DEF Trend!Sample, Trend!ConstantsOK, Trend!TypeOK, Trend!Steps, Ordered, Replacing, Guarded, Stored, Trend!NothingIsForgotten
  <1>4. CASE Trend!Write
    <2>1. PICK x \in {bucket, 0, files["tmp"]} :
            files' = [files EXCEPT !["tmp"] = x] /\ (writes' # "idle" => x = bucket)
      BY <1>4 DEF Trend!Write, Trend!TypeOK
    <2>2. /\ files'["bin"] = files["bin"] /\ files'["bak"] = files["bak"] /\ files'["tmp"] = x
          /\ x \in Int /\ x \in Trend!Missing .. Buckets
      BY <2>1 DEF Trend!TypeOK
    <2>3. Trend!TypeOK'
      BY <1>4, <2>1, <2>2 DEF Trend!Write, Trend!TypeOK, Trend!Steps
    <2>4. Trend!Found(files') = Trend!Found(files) /\ (Trend!Found(files))' = Trend!Found(files)
      BY <2>2, <2>3, NewCard DEF Trend!TypeOK, Ordered
    <2>5. Ordered' /\ Replacing' /\ Guarded'
      BY <1>4, <2>1, <2>2 DEF Trend!Write, Trend!ConstantsOK, Ordered, Replacing, Guarded
    <2> QED BY <1>4, <2>3, <2>4, <2>5 DEF Trend!Write, Stored, Trend!NothingIsForgotten
  <1>5. CASE Trend!Stat
    BY <1>5, SameCard DEF Trend!Stat, Trend!Replaces, Trend!TypeOK, Trend!Steps, Ordered, Replacing, Guarded, Stored, Trend!NothingIsForgotten
  <1>6. CASE Trend!Remove
    <2>1. /\ files'["bin"] = files["bin"] /\ files'["bin"] # Trend!Missing /\ files'["tmp"] = files["tmp"]
          /\ files'["bak"] \in {Trend!Missing, files["bak"]}
      BY <1>6 DEF Trend!Remove, Trend!TypeOK, Guarded
    <2>2. Trend!TypeOK'
      BY <1>6 DEF Trend!Remove, Trend!TypeOK, Trend!Steps
    <2>3. Trend!Found(files') = Trend!Found(files) /\ (Trend!Found(files))' = Trend!Found(files)
      BY <2>1, <2>2, NewCard DEF Trend!TypeOK, Ordered
    <2>4. Ordered' /\ Replacing' /\ Guarded'
      BY <1>6, <2>1 DEF Trend!Remove, Ordered, Replacing, Guarded
    <2> QED BY <1>6, <2>2, <2>3, <2>4 DEF Trend!Remove, Stored, Trend!NothingIsForgotten
  <1>7. CASE Trend!Keep
    <2>1. CASE files' = files
      <3>1. Trend!TypeOK'
        BY <1>7, <2>1 DEF Trend!Keep, Trend!TypeOK, Trend!Steps
      <3> QED BY <1>7, <2>1, <3>1, SameCard DEF Trend!Keep, Ordered, Replacing, Guarded, Stored, Trend!NothingIsForgotten
    <2>2. CASE files' = Trend!Renamed(files, "bin", "bak") /\ writes' = "install"
      <3>1. /\ files'["bin"] = Trend!Missing /\ files'["bak"] = files["bin"] /\ files'["tmp"] = files["tmp"]
            /\ files["bin"] # Trend!Missing
        BY <1>7, <2>2 DEF Trend!Keep, Trend!Renamed, Trend!TypeOK, Guarded
      <3>2. Trend!TypeOK'
        BY <1>7, <2>2 DEF Trend!Keep, Trend!Renamed, Trend!TypeOK, Trend!Steps
      <3>3. Trend!Found(files') = Trend!Found(files) /\ (Trend!Found(files))' = Trend!Found(files)
        BY <3>1, <3>2, NewCard DEF Trend!TypeOK, Ordered
      <3>4. Ordered' /\ Replacing' /\ Guarded'
        BY <1>7, <2>2, <3>1 DEF Trend!Keep, Ordered, Replacing, Guarded
      <3> QED BY <1>7, <3>2, <3>3, <3>4 DEF Trend!Keep, Stored, Trend!NothingIsForgotten
    <2> QED BY <1>7, <2>1, <2>2 DEF Trend!Keep
  <1>8. CASE Trend!Install
    <2>1. CASE files' = files /\ trend' = trend
      <3>1. Trend!TypeOK'
        BY <1>8, <2>1 DEF Trend!Install, Trend!TypeOK, Trend!Steps
      <3> QED BY <1>8, <2>1, <3>1, SameCard DEF Trend!Install, Ordered, Replacing, Guarded, Stored, Trend!NothingIsForgotten
    <2>2. CASE files' = Trend!Renamed(files, "tmp", "bin") /\ trend' = files["tmp"]
      <3>1. /\ files'["bin"] = bucket /\ files'["bak"] = files["bak"] /\ files'["tmp"] = Trend!Missing
            /\ bucket > 0 /\ trend' = bucket
        BY <1>8, <2>2 DEF Trend!Install, Trend!Renamed, Trend!TypeOK, Replacing
      <3>2. Trend!TypeOK'
        BY <1>8, <2>2, <3>1 DEF Trend!Install, Trend!Renamed, Trend!TypeOK, Trend!Steps
      <3>3. Trend!Found(files') = bucket /\ (Trend!Found(files))' = bucket
        BY <3>1, <3>2, NewCard DEF Trend!TypeOK, Ordered
      <3>4. Trend!Found(files) <= bucket
        BY DEF Ordered
      <3>5. Ordered' /\ Replacing' /\ Guarded'
        BY <1>8, <2>2, <3>1 DEF Trend!Install, Ordered, Replacing, Guarded
      <3> QED BY <1>8, <3>1, <3>2, <3>3, <3>4, <3>5 DEF Trend!Install, Stored, Trend!NothingIsForgotten
    <2> QED BY <1>8, <2>1, <2>2 DEF Trend!Install, Trend!Commits
  <1>9. CASE Trend!Crash
    <2>1. PICK x \in {0, files["tmp"]} : files' = [files EXCEPT !["tmp"] = x]
      BY <1>9 DEF Trend!Crash, Trend!TypeOK
    <2>2. /\ files'["bin"] = files["bin"] /\ files'["bak"] = files["bak"] /\ files'["tmp"] = x
          /\ x \in Int /\ x \in Trend!Missing .. Buckets
      BY <2>1 DEF Trend!TypeOK
    <2>3. Trend!TypeOK'
      <3>1. files' \in [{"bin", "bak", "tmp"} -> Trend!Missing .. Buckets]
        BY <2>1, <2>2 DEF Trend!TypeOK
      <3>2. writes' = "idle" /\ loaded' = FALSE /\ trend' = 0 /\ bucket' = bucket /\ shelf' = shelf
        BY <1>9 DEF Trend!Crash
      <3>3. writes' \in Trend!Steps /\ loaded' \in BOOLEAN
        BY <3>2 DEF Trend!Steps
      <3>4. trend' \in 0 .. Buckets /\ bucket' \in 0 .. Buckets /\ shelf' \in 0 .. MaxSwaps
        BY <3>2 DEF Trend!TypeOK
      <3> QED BY <3>1, <3>3, <3>4 DEF Trend!TypeOK
    <2>4. Trend!Found(files') = Trend!Found(files)
      BY <2>2, <2>3, NewCard DEF Trend!TypeOK, Ordered
    <2>5. Ordered' /\ Replacing' /\ Guarded' /\ Stored'
      BY <1>9, <2>1, <2>2 DEF Trend!Crash, Ordered, Replacing, Guarded, Stored
    <2> QED BY <2>3, <2>4, <2>5 DEF Trend!NothingIsForgotten
  <1>10. CASE Trend!Swap
    <2>1. PICK n \in {Trend!Missing} \cup 1 .. bucket :
            files' = [files EXCEPT !["bin"] = n, !["bak"] = Trend!Missing]
      BY <1>10 DEF Trend!Swap
    <2>2. /\ files'["bin"] = n /\ files'["bak"] = Trend!Missing /\ files'["tmp"] = files["tmp"]
          /\ n \in Trend!Missing .. Buckets /\ Trend!Missing \in Trend!Missing .. Buckets
      BY <2>1 DEF Trend!TypeOK
    <2>3. Trend!TypeOK'
      <3>1. files' \in [{"bin", "bak", "tmp"} -> Trend!Missing .. Buckets]
        BY <2>1, <2>2 DEF Trend!TypeOK
      <3>2. shelf' \in 0 .. MaxSwaps
        BY <1>10 DEF Trend!Swap, Trend!ConstantsOK, Trend!TypeOK
      <3> QED BY <1>10, <3>1, <3>2 DEF Trend!Swap, Trend!TypeOK
    <2>4. Ordered' /\ Replacing' /\ Guarded' /\ Stored'
      BY <1>10, <2>2 DEF Trend!Swap, Ordered, Replacing, Guarded, Stored
    <2>5. shelf' # shelf
      BY <1>10 DEF Trend!Swap, Trend!TypeOK, Trend!ConstantsOK
    <2> QED BY <2>3, <2>4, <2>5 DEF Trend!NothingIsForgotten
  <1>11. CASE UNCHANGED Trend!vars
    BY <1>11, SameCard DEF Trend!vars, Trend!TypeOK, Ordered, Replacing, Guarded, Stored, Trend!NothingIsForgotten
  <1> QED BY <1>1, <1>2, <1>3, <1>4, <1>5, <1>6, <1>7, <1>8, <1>9, <1>10, <1>11 DEF Trend!Next

\* The history's steps never leave the card in another state than these.
THEOREM TrendInvariant == ASSUME Trend!ConstantsOK PROVE Trend!Spec => []TrendInv
  <1>1. Trend!Init => TrendInv
    BY TrendStarts
  <1>2. TrendInv /\ [Trend!Next]_(Trend!vars) => TrendInv'
    BY TrendKeeps
  <1> QED BY <1>1, <1>2, PTL DEF Trend!Spec

\* Every variable of the history's steps keeps its type (sample_trend()).
THEOREM TrendTypes == ASSUME Trend!ConstantsOK PROVE Trend!Spec => []Trend!TypeOK
  <1>1. TrendInv => Trend!TypeOK
    BY DEF TrendInv
  <1> QED BY <1>1, TrendInvariant, PTL

\* Whatever step fails and whenever power goes, what a boot finds on a card
\* never falls back (sample_trend() of Read Pico and RLCD).
THEOREM TrendSurvives == ASSUME Trend!ConstantsOK PROVE Trend!Spec => [][Trend!NothingIsForgotten]_(Trend!vars)
  <1>1. TrendInv /\ [Trend!Next]_(Trend!vars) => [Trend!NothingIsForgotten]_(Trend!vars)
    BY TrendKeeps
  <1> QED BY <1>1, TrendInvariant, PTL DEF Trend!Spec

\* A sample that is on the screen is on the card.
THEOREM TrendIsStored == ASSUME Trend!ConstantsOK PROVE Trend!Spec => []Trend!ShownIsStored
  <1>1. TrendInv => Trend!ShownIsStored
    BY DEF TrendInv, Stored, Trend!ShownIsStored
  <1> QED BY <1>1, TrendInvariant, PTL
=============================================================================
