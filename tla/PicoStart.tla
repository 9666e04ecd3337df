----------------------------- MODULE PicoStart -----------------------------
(***************************************************************************)
(* The Read Pico comes up: board_init() with the expander's self-test,     *)
(* epd_init(), read_pico_init() and Board::begin(), after a power cut or   *)
(* after a restart that leaves the expander, the panel's power chip and    *)
(* the other slaves as they were.  A transfer may fail, and may have been  *)
(* carried out all the same.  What happens to the rails later is PicoRails. *)
(***************************************************************************)
EXTENDS Integers, Sequences

CONSTANTS
    Faults,       \* bounds the failed transfers
    Crashes,      \* bounds the restarts that no transfer causes, and the power cuts
    Held          \* the most clocks a slave still has to send when it is cut off

ConstantsOK == Faults \in Nat /\ Crashes \in Nat /\ Held \in 0..9

VARIABLES
    pc, step,     \* what runs, and where in it
    again,        \* whether the self-test runs for the second time
    cache,        \* ioe_output
    port,         \* FCA9555: the output register, and whether its pins are outputs
    chip,         \* whether the SY7636A's converters run
    held,         \* clocks until the slave that holds SDA lets it go
    sensor,       \* SC7A20H: measures; the driver's `powered'
    hw,           \* which of the handle's devices are ready
    vcom,         \* the VCOM in force: "none", the "board"'s, the "panel"'s
    tries,        \* attempts left to ask the PMU for it
    faults, crashes,
    lost          \* failed transfers since the start

start == <<pc, step, again, cache, hw, vcom, tries, lost>>
vars == <<start, port, chip, held, sensor, faults, crashes>>

Devices == {"sensor", "pmu", "touch"}
Pins == {"MODE", "XOE", "EN", "VCOM", "TP"}
Voltages == {"XOE", "EN", "VCOM"}

\* Mistake: the bits of the rails are kept as they were found.
KeepsBits == {"MODE", "TP"} \cup (port.out \cap Voltages)

\* IOE_MODE | IOE_TP_RST.
Boot == {"MODE", "TP"}

\* fca9555_selftest(), and the writes of board_init() after it.
Test == <<"probe", "read", "drive", "read", "inputs", "read", "boot", "read", "mode", "read", "boot", "read">>
Reset == <<"drive", "boot", "hold", "release">>

\* The cache, and the port, after a step.
Cached(s) ==
    CASE s = "boot" -> Boot [] s = "hold" -> cache \ {"TP"} [] s = "release" -> cache \cup {"TP"} [] OTHER -> cache
Ported(s) ==
    CASE s = "drive" -> [port EXCEPT !.driven = TRUE]
      [] s = "mode" -> [port EXCEPT !.out = Boot \ {"TP"}]
      [] s = "boot" -> [port EXCEPT !.out = Boot]
      [] s \in {"hold", "release"} -> [port EXCEPT !.out = Cached(s)]
      [] OTHER -> port

\* The power chip forgets when it is not enabled.
Becomes(p) == port' = p /\ chip' = (chip /\ p.driven /\ "EN" \in p.out)

Stays == UNCHANGED <<port, chip>>

Passes == UNCHANGED <<faults, lost>>

Loses == faults > 0 /\ faults' = faults - 1 /\ lost' = lost + 1

\* One transfer to the expander.
Transfer(p, ok) == IF ok THEN Becomes(p) /\ Passes ELSE Loses /\ (Becomes(p) \/ Stays)

\* The program starts from its first line; a slave may be cut off.
Restarts ==
    /\ pc' = "recover" /\ step' = 1 /\ again' = FALSE /\ cache' = {} /\ hw' = {} /\ vcom' = "none"
    /\ tries' = 3 /\ lost' = 0 /\ sensor' = [sensor EXCEPT !.powered = FALSE] /\ held' \in 0..Held

Init ==
    /\ pc = "recover" /\ step = 1 /\ again = FALSE /\ cache = {} /\ hw = {} /\ vcom = "none"
    /\ tries = 3 /\ lost = 0 /\ held = 0 /\ chip = FALSE
    /\ port = [out |-> Pins, driven |-> FALSE] /\ sensor = [on |-> FALSE, powered |-> FALSE]
    /\ faults = Faults /\ crashes = Crashes

(***************************************************************************)
(* board_init().                                                           *)
(***************************************************************************)

\* Mistake: one clock less.
EightClocks == 8

Clocks == 9

\* i2c_bus_recover().
Recover ==
    /\ pc = "recover" /\ pc' = "test"
    /\ held' = IF held > Clocks THEN held - Clocks ELSE 0
    /\ UNCHANGED <<step, again, cache, port, chip, sensor, hw, vcom, tries, faults, crashes, lost>>

\* A transfer to a bus that is held times out.  A timeout has the test run once
\* more; any other failure, and the second one, has the program start again.
SelfTest ==
    /\ pc = "test"
    /\ \/ /\ held = 0 /\ Transfer(Ported(Test[step]), TRUE)
          /\ IF step < Len(Test) THEN step' = step + 1 /\ pc' = pc ELSE step' = 1 /\ pc' = "reset"
          /\ UNCHANGED <<again, cache, held, sensor, hw, vcom, tries>>
       \/ /\ ~again /\ Transfer(Ported(Test[step]), FALSE)
          /\ again' = TRUE /\ step' = 1
          /\ UNCHANGED <<pc, cache, held, sensor, hw, vcom, tries>>
       \/ /\ faults > 0 /\ faults' = faults - 1
          /\ Becomes(Ported(Test[step])) \/ Stays
          /\ Restarts
    /\ UNCHANGED crashes

\* The outputs through the cache; the touch panel is reset.
ResetTouch ==
    /\ pc = "reset"
    /\ \/ /\ Transfer(Ported(Reset[step]), TRUE) /\ cache' = Cached(Reset[step])
          /\ IF step < Len(Reset) THEN step' = step + 1 /\ pc' = pc ELSE step' = 1 /\ pc' = "display"
          /\ UNCHANGED <<again, held, sensor, hw, vcom, tries>>
       \/ /\ faults > 0 /\ faults' = faults - 1
          /\ Becomes(Ported(Reset[step])) \/ Stays
          /\ Restarts
    /\ UNCHANGED crashes

(***************************************************************************)
(* The rest of epd_init() and of read_pico_init().                         *)
(***************************************************************************)

\* Memory, a peripheral or a task that is not to be had ends the program.
Obtains(next) ==
    \/ pc' = next /\ UNCHANGED <<step, again, cache, held, sensor, hw, vcom, tries, crashes, lost>>
    \/ crashes > 0 /\ crashes' = crashes - 1 /\ Restarts

Sets(here, next) == pc = here /\ Obtains(next) /\ Stays /\ UNCHANGED faults

\* sy7636a_init() leaves the chip alone.  Then the LCD peripheral: buffers and
\* interrupts, DMA and pins.
PowerHandle == Sets("display", "lcd")
Lcd == Sets("lcd", "dma")
Dma == Sets("dma", "control")

\* epd_control_reg_init(): a failure is only logged.
Control ==
    /\ pc = "control" /\ pc' = "render" /\ cache' = cache \ {"MODE", "XOE"}
    /\ \E ok \in BOOLEAN : Transfer([port EXCEPT !.out = cache \ {"MODE", "XOE"}], ok)
    /\ UNCHANGED <<step, again, held, sensor, hw, vcom, tries, crashes>>

\* The renderer's tables, queues and tasks.
Render == Sets("render", "default")

\* epd_set_vcom() of the board's value; the power chip sleeps, so it is cached.
DefaultVcom ==
    /\ pc = "default" /\ pc' = "waveform" /\ vcom' = "board"
    /\ UNCHANGED <<step, again, cache, port, chip, held, sensor, hw, tries, faults, crashes, lost>>

\* The trimmed waveform has the length that is expected; the framebuffers.
Waveform == Sets("waveform", "buffers")
Buffers == Sets("buffers", "sensor")

\* sc7a20h_init(): what a failure leaves of the chip is not known.
Sensor ==
    /\ pc = "sensor"
    /\ \/ Passes /\ pc' = "sleep" /\ sensor' = [on |-> TRUE, powered |-> TRUE]
       \/ Loses /\ pc' = "pmu" /\ \E on \in BOOLEAN : sensor' = [on |-> on, powered |-> FALSE]
    /\ UNCHANGED <<step, again, cache, port, chip, held, hw, vcom, tries, crashes>>

\* sc7a20h_power_down(): its result is not looked at.
SensorSleep ==
    /\ pc = "sleep" /\ pc' = "pmu" /\ hw' = hw \cup {"sensor"}
    /\ \/ Passes /\ sensor' = [on |-> FALSE, powered |-> FALSE]
       \/ Loses /\ \E on \in BOOLEAN : sensor' = [on |-> on, powered |-> TRUE]
    /\ UNCHANGED <<step, again, cache, port, chip, held, vcom, tries, crashes>>

\* read_pico_pmu_init(): five attempts, here one.
Pmu ==
    /\ pc = "pmu" /\ pc' = "touch"
    /\ (Passes /\ hw' = hw \cup {"pmu"}) \/ (Loses /\ UNCHANGED hw)
    /\ UNCHANGED <<step, again, cache, port, chip, held, sensor, vcom, tries, crashes>>

\* cst836u_init(): a chip in reset does not answer.
Touch ==
    /\ pc = "touch" /\ pc' = "vcom"
    /\ \/ Passes /\ hw' = IF "TP" \in port.out THEN hw \cup {"touch"} ELSE hw
       \/ Loses /\ UNCHANGED hw
    /\ UNCHANGED <<step, again, cache, port, chip, held, sensor, vcom, tries, crashes>>

(***************************************************************************)
(* Board::begin().                                                         *)
(***************************************************************************)

\* Mistake: the power unit is asked once.
AsksOnce == tries = 3

Asks == tries > 0

\* read_pico_pmu_vcom_get(), until it answers; what it answers is cached, and
\* written when the rails are raised.
Vcom ==
    /\ pc = "vcom"
    /\ IF "pmu" \in hw /\ Asks
       THEN \/ Passes /\ vcom' = "panel" /\ pc' = "wake" /\ UNCHANGED tries
            \/ Loses /\ tries' = tries - 1 /\ UNCHANGED <<vcom, pc>>
       ELSE Passes /\ pc' = "wake" /\ UNCHANGED <<vcom, tries>>
    /\ UNCHANGED <<step, again, cache, port, chip, held, sensor, hw, crashes>>

\* Mistake: a sensor that measures is woken, and one that sleeps is not.
WakesPowered == sensor.powered

Asleep == ~sensor.powered

\* read_pico_sensor_wake().
Wake ==
    /\ pc = "wake" /\ pc' = "up"
    /\ IF "sensor" \in hw /\ Asleep
       THEN \/ Passes /\ sensor' = [on |-> TRUE, powered |-> TRUE]
            \/ Loses /\ \E on \in BOOLEAN : sensor' = [sensor EXCEPT !.on = on]
       ELSE Passes /\ UNCHANGED sensor
    /\ UNCHANGED <<step, again, cache, port, chip, held, hw, vcom, tries, crashes>>

(***************************************************************************)
(* Then frames raise and lower the rails, until something ends the run.    *)
(***************************************************************************)
Frame ==
    /\ pc = "up"
    /\ IF chip THEN cache' = cache \ Voltages /\ chip' = FALSE
       ELSE cache' = cache \cup Voltages /\ chip' = TRUE
    /\ port' = [port EXCEPT !.out = cache']
    /\ UNCHANGED <<pc, step, again, held, sensor, hw, vcom, tries, faults, crashes, lost>>

\* A reset of the program alone, wherever it is.
Crash ==
    /\ crashes > 0 /\ crashes' = crashes - 1 /\ Restarts
    /\ UNCHANGED <<port, chip, faults>>

PowerCut ==
    /\ crashes > 0 /\ crashes' = crashes - 1
    /\ pc' = "recover" /\ step' = 1 /\ again' = FALSE /\ cache' = {} /\ hw' = {} /\ vcom' = "none"
    /\ tries' = 3 /\ lost' = 0 /\ held' = 0 /\ chip' = FALSE
    /\ port' = [out |-> Pins, driven |-> FALSE] /\ sensor' = [on |-> FALSE, powered |-> FALSE]
    /\ UNCHANGED faults

Begin ==
    \/ Recover \/ SelfTest \/ ResetTouch \/ PowerHandle \/ Lcd \/ Dma \/ Control \/ Render
    \/ DefaultVcom \/ Waveform \/ Buffers \/ Sensor \/ SensorSleep \/ Pmu \/ Touch \/ Vcom \/ Wake

Next == Begin \/ Frame \/ Crash \/ PowerCut

Spec == Init /\ [][Next]_vars

(***************************************************************************)
(* Properties.                                                             *)
(***************************************************************************)
TypeOK ==
    /\ pc \in {"recover", "test", "reset", "display", "lcd", "dma", "control", "render", "default",
               "waveform", "buffers", "sensor", "sleep", "pmu", "touch", "vcom", "wake", "up"}
    /\ step \in 1..12 /\ again \in BOOLEAN /\ cache \subseteq Pins /\ chip \in BOOLEAN /\ held \in 0..Held
    /\ port \in [out : SUBSET Pins, driven : BOOLEAN]
    /\ sensor \in [on : BOOLEAN, powered : BOOLEAN] /\ hw \subseteq Devices
    /\ vcom \in {"none", "board", "panel"} /\ tries \in 0..3
    /\ faults \in 0..Faults /\ crashes \in 0..Crashes /\ lost \in 0..Faults

\* However the last run was cut off, with a frame being driven or a write
\* half done, the high voltages are down once the self-test has passed, and the
\* cache says so: the rails start from where PicoRails has them start.
StartsDark ==
    pc \notin {"recover", "test", "up"} =>
        ~chip /\ port.driven /\ port.out \cap Voltages = {} /\ cache \cap Voltages = {}

\* A slave that was cut off in the middle of a byte has let the bus go before
\* anything is sent.
BusIsFreed == pc # "recover" => held = 0

\* A start that loses no transfer leaves nothing out: all devices are there, the
\* sensor that was put to sleep measures again, and the panel has its own VCOM.
\* That one it has also if the power unit is there and answers once in three.
StartIsWhole ==
    pc = "up" => /\ lost = 0 => hw = Devices /\ sensor.on /\ vcom = "panel"
                 /\ "pmu" \in hw /\ lost < 3 => vcom = "panel"
=============================================================================
