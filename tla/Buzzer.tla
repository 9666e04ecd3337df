-------------------------------- MODULE Buzzer --------------------------------
(***************************************************************************)
(* The Read Pico's buzzer (read_pico_buzzer.c) over pwm_audio.c.  Tasks    *)
(* call tone(), which sounds while it waits, or start a job, which has a   *)
(* task of its own: a square wave, a schedule of pulses for the RMT, or    *)
(* samples, which it writes to a ring that a timer's interrupt plays.      *)
(* Both hold s_lock for as long as they drive the transistor's gate.       *)
(*                                                                         *)
(* A sample is 0 (off), 1 (the bias) or 2 (sound).  lock_once() is taken   *)
(* to have run: two first calls at once would make two locks.              *)
(***************************************************************************)
EXTENDS Integers, Sequences

CONSTANTS Callers, Kinds, \* tasks that call, jobs they start
          Chunk,          \* CHUNK, and the length of a ramp; even
          Chunks,         \* of a job
          Slots,          \* samples the ring has room for, one too many
          Least,          \* BUFFER_MIN_SIZE, in samples
          Underruns,      \* 8: failed writes a job endures
          MaxFaults,      \* bounds the drivers that are not to be had
          MaxLate         \* bounds the waits that last too long

VARIABLES lock,   \* s_lock: who holds it, or "free"
          flags,  \* s_score_playing, s_score_stop, s_job, s_ledc_ready
          caller, \* where each caller is
          job,    \* the job's task; what is left to write, to this call, and of this batch
          pin,    \* what GPIO2 is connected to, and the LEDC channel's duty
          pwm,    \* pwm_audio: handle, timer, ring buffer and its semaphore
          count   \* faults and late waits so far

vars == <<lock, flags, caller, job, pin, pwm, count>>

ConstantsOK ==
    /\ "free" \notin Callers /\ "job" \notin Callers
    /\ Kinds \subseteq {"score", "square", "classic", "bits"}
    /\ Chunk \in Nat \ {0} /\ Chunk % 2 = 0 /\ Slots > Chunk /\ Least \in 1..Slots - 1

NoJob == [pc |-> "none", todo |-> 0, left |-> <<>>, begun |-> <<>>, room |-> 0, batch |-> 0,
          fading |-> FALSE, missed |-> 0]
NoPwm == [handle |-> FALSE, running |-> FALSE, ring |-> <<>>, given |-> FALSE, sem |-> FALSE]

Init ==
    /\ lock = "free"
    /\ flags = [playing |-> FALSE, stop |-> FALSE, kind |-> "score", ready |-> FALSE]
    /\ caller = [c \in Callers |-> "idle"]
    /\ job = NoJob
    /\ pin = [route |-> "low", duty |-> 0]
    /\ pwm = NoPwm
    /\ count = [faults |-> 0, late |-> 0]

TypeOK ==
    /\ lock \in Callers \cup {"free", "job"}
    /\ flags \in [playing : BOOLEAN, stop : BOOLEAN, kind : Kinds \cup {"score"}, ready : BOOLEAN]
    /\ \A c \in Callers : caller[c] \in {"idle", "create", "tone", "sounding", "stop", "stopping"}
    /\ pin \in [route : {"low", "ledc", "rmt"}, duty : 0..2]
    /\ Len(pwm.ring) < Slots /\ Len(job.left) <= Chunk /\ job.batch \in 0..Chunk
    /\ job.missed \in 0..Underruns + 1

\* A driver, memory or a task that is not to be had.
Fault == count.faults < MaxFaults /\ count' = [count EXCEPT !.faults = @ + 1]
Late == count.late < MaxLate /\ count' = [count EXCEPT !.late = @ + 1]

gpio_idle == [pin EXCEPT !.route = "low"]

(***************************************************************************)
(* The calls.                                                              *)
(***************************************************************************)
Goes(c, pc) == caller' = [caller EXCEPT ![c] = pc]

Calls(c, pc) ==
    /\ caller[c] = "idle"
    /\ Goes(c, pc)

\* A call that finds the lock taken, or a job, leaves that one alone.
MayStart(c) == lock = "free" /\ ~flags.playing

\* start_job, with the lock.
Start(c) ==
    /\ MayStart(c)
    /\ Calls(c, "create")
    /\ \E k \in Kinds : flags' = [flags EXCEPT !.kind = k, !.stop = FALSE, !.playing = TRUE]
    /\ UNCHANGED <<lock, job, pin, pwm, count>>

\* start_job, without.
Create(c) ==
    /\ caller[c] = "create"
    /\ Goes(c, "idle")
    /\ \/ /\ job' = [NoJob EXCEPT !.pc = "lock"]
          /\ UNCHANGED <<flags, count>>
       \/ /\ Fault
          /\ flags' = [flags EXCEPT !.playing = FALSE]
          /\ UNCHANGED job
    /\ UNCHANGED <<lock, pin, pwm>>

ToneChecks(c) ==
    /\ ~flags.playing
    /\ Calls(c, "tone")
    /\ UNCHANGED <<lock, flags, job, pin, pwm, count>>

\* ledc_tone_init and the duty.
Tuned == IF flags.ready THEN [pin EXCEPT !.duty = 2] ELSE [route |-> "ledc", duty |-> 2]

Tone(c) ==
    /\ caller[c] = "tone"
    /\ \/ /\ lock # "free"
          /\ Goes(c, "idle")
          /\ UNCHANGED <<lock, flags, pin, count>>
       \/ /\ lock = "free"
          /\ lock' = c /\ pin' = Tuned
          /\ flags' = [flags EXCEPT !.ready = TRUE]
          /\ Goes(c, "sounding")
          /\ UNCHANGED count
       \/ /\ lock = "free" /\ ~flags.ready /\ Fault
          /\ pin' = gpio_idle
          /\ Goes(c, "idle")
          /\ UNCHANGED <<lock, flags>>
    /\ UNCHANGED <<job, pwm>>

ToneEnds(c) ==
    /\ caller[c] = "sounding"
    /\ pin' = [pin EXCEPT !.duty = 0]
    /\ lock' = "free"
    /\ Goes(c, "idle")
    /\ UNCHANGED <<flags, job, pwm, count>>

StopChecks(c) ==
    /\ flags.playing
    /\ Calls(c, "stop")
    /\ UNCHANGED <<lock, flags, job, pin, pwm, count>>

StopSets(c) ==
    /\ caller[c] = "stop"
    /\ flags' = [flags EXCEPT !.stop = TRUE]
    /\ Goes(c, "stopping")
    /\ UNCHANGED <<lock, job, pin, pwm, count>>

StopReturns(c) ==
    /\ caller[c] = "stopping"
    /\ \/ ~flags.playing /\ UNCHANGED <<pin, count>>
       \/ flags.playing /\ Late /\ pin' = gpio_idle
    /\ Goes(c, "idle")
    /\ UNCHANGED <<lock, flags, job, pwm>>

Call(c) ==
    Start(c) \/ Create(c) \/ ToneChecks(c) \/ Tone(c) \/ ToneEnds(c) \/ StopChecks(c) \/ StopSets(c)
    \/ StopReturns(c)

(***************************************************************************)
(* pwm_audio: the interrupt, and a write of what is left.                  *)
(***************************************************************************)

\* rb_get_free, and whole pairs of samples only: a byte of the ring is never used.
Room == Slots - Len(pwm.ring)
Pairs(room) == 2 * ((room - 1) \div 2)

\* timer_group_isr, on the core of the job's task.
Tick ==
    /\ pwm.running
    /\ LET played == IF pwm.ring = <<>> THEN <<>> ELSE Tail(pwm.ring)
           gives  == ~pwm.given /\ Slots - Len(played) > Least
       IN  pwm' = [pwm EXCEPT !.ring = played, !.given = @ \/ gives, !.sem = @ \/ gives]
    /\ pin' = IF pwm.ring = <<>> THEN pin ELSE [pin EXCEPT !.duty = Head(pwm.ring)]
    /\ UNCHANGED <<lock, flags, caller, job, count>>

Does(pc) == job.pc = pc
Then(pc) == job' = [job EXCEPT !.pc = pc]

\* Mistake: the flag is cleared once the semaphore has been taken.
AsItWas(given) == given

\* rb_wait_semaphore, before it waits.
MayGive(given) == FALSE

\* The room is read before the wait.
AsksForRoom ==
    /\ Does("call") /\ job.left # <<>>
    /\ job' = [job EXCEPT !.pc = "wait", !.room = Room]
    /\ pwm' = [pwm EXCEPT !.given = MayGive(@)]
    /\ UNCHANGED <<lock, flags, caller, pin, count>>

\* Mistake: all that is left is written.
Everything(left, room) == left

Batch(left, room) == IF left > Pairs(room) THEN Pairs(room) ELSE left

\* "Discard the last misaligned bytes": all of it, if there was no room.
Admitted ==
    /\ Does("wait") /\ pwm.sem
    /\ pwm' = [pwm EXCEPT !.sem = FALSE]
    /\ LET n == Batch(Len(job.left), job.room)
       IN  job' = IF n = 0 THEN [job EXCEPT !.pc = "write", !.left = <<>>]
                  ELSE [job EXCEPT !.pc = "copy", !.batch = n]
    /\ UNCHANGED <<lock, flags, caller, pin, count>>

\* rb_write_byte, which leaves out what the ring has no room for.
Copies ==
    /\ Does("copy")
    /\ pwm' = [pwm EXCEPT !.ring = IF Room > 1 THEN Append(@, Head(job.left)) ELSE @]
    /\ job' = [job EXCEPT !.left = Tail(@), !.batch = @ - 1,
                          !.pc = IF job.batch = 1 THEN "call" ELSE "copy"]
    /\ UNCHANGED <<lock, flags, caller, pin, count>>

\* The call returns what it wrote: all of it, or what it could in its time.
Returns ==
    /\ Does("call")
    /\ \/ job.left = <<>> /\ UNCHANGED count
       \/ job.left \notin {<<>>, job.begun} /\ Late
    /\ Then("write")
    /\ UNCHANGED <<lock, flags, caller, pin, pwm>>

\* The wait was too long, and the call fails, whatever it has written: write_hw
\* begins it again, a few times.
Misses ==
    /\ Does("wait") /\ Late
    /\ job' = [job EXCEPT !.left = job.begun, !.missed = @ + 1,
                          !.pc = CASE job.missed < Underruns -> "write"
                                   [] job.missed >= Underruns /\ job.fading -> "drain"
                                   [] OTHER -> "close"]
    /\ UNCHANGED <<lock, flags, caller, pin, pwm>>

(***************************************************************************)
(* The job's task.                                                         *)
(***************************************************************************)

\* It waits 50 ms for the lock, and gives up.
Locks ==
    /\ Does("lock")
    /\ \/ /\ lock = "free"
          /\ lock' = "job" /\ Then("begin")
          /\ UNCHANGED flags
       \/ /\ lock # "free"
          /\ flags' = [flags EXCEPT !.playing = FALSE]
          /\ job' = NoJob /\ UNCHANGED lock
    /\ UNCHANGED <<caller, pin, pwm, count>>

\* play_classic.
Square ==
    /\ Does("begin") /\ flags.kind = "classic"
    /\ \/ /\ pin' = [route |-> "ledc", duty |-> 2]
          /\ flags' = [flags EXCEPT !.ready = TRUE]
          /\ Then("tone") /\ UNCHANGED count
       \/ /\ Fault /\ pin' = gpio_idle
          /\ flags' = [flags EXCEPT !.ready = FALSE]
          /\ Then("done")
    /\ UNCHANGED <<lock, caller, pwm>>

SquareEnds ==
    /\ Does("tone")
    /\ pin' = [route |-> "low", duty |-> 0]
    /\ flags' = [flags EXCEPT !.ready = FALSE]
    /\ Then("done")
    /\ UNCHANGED <<lock, caller, pwm, count>>

\* play_1bit, which does not know of s_ledc_ready.
Pulses ==
    /\ Does("begin") /\ flags.kind = "bits"
    /\ \/ /\ pin' = [pin EXCEPT !.route = "rmt"]
          /\ Then("pulses") /\ UNCHANGED count
       \/ Fault /\ pin' = gpio_idle /\ Then("done")
    /\ UNCHANGED <<lock, flags, caller, pwm>>

\* Mistake: the channel is released and the pin left as it is.
Attached == pin

Released == gpio_idle

PulsesEnd ==
    /\ Does("pulses")
    /\ pin' = Released
    /\ Then("done")
    /\ UNCHANGED <<lock, flags, caller, pwm, count>>

Plays == Does("begin") /\ flags.kind \in {"score", "square"}

\* buzzer_score_prepare stops early.
Abandons ==
    /\ Plays /\ flags.kind = "score" /\ flags.stop
    /\ Then("done")
    /\ UNCHANGED <<lock, flags, caller, pin, pwm, count>>

\* score_setup.
Setup ==
    /\ Plays /\ ~pwm.handle
    /\ pin' = [route |-> "ledc", duty |-> 0]
    /\ pwm' = [NoPwm EXCEPT !.handle = TRUE, !.running = TRUE]
    /\ flags' = [flags EXCEPT !.ready = FALSE]
    /\ job' = [job EXCEPT !.pc = IF flags.stop THEN "close" ELSE "chunk",
                          !.todo = IF flags.kind = "score" THEN Chunks + 1 ELSE Chunks]
    /\ UNCHANGED <<lock, caller, count>>

\* Half of pwm_audio_init leaves a handle, which every later one fails for.
SetupFails ==
    /\ Plays
    /\ \/ pwm.handle /\ UNCHANGED <<pwm, count>>
       \/ ~pwm.handle /\ Fault /\ \E half \in BOOLEAN : pwm' = [NoPwm EXCEPT !.handle = half]
    /\ pin' = gpio_idle
    /\ flags' = [flags EXCEPT !.ready = FALSE]
    /\ Then("done")
    /\ UNCHANGED <<lock, caller>>

Ramp(from, to) == [i \in 1..Chunk |-> IF i = Chunk THEN to ELSE from]

Rendered ==
    CASE flags.kind = "square" -> [i \in 1..Chunk |-> IF 2 * i <= Chunk THEN 2 ELSE 0]
      [] flags.kind = "score" /\ job.todo > Chunks -> Ramp(0, 1)
      [] OTHER -> [i \in 1..Chunk |-> 2]

\* play_hf_pcm_loop, play_pen_b; play_score_job fades out if nothing went wrong.
Continues ==
    /\ Does("chunk")
    /\ job' = CASE job.fading -> [job EXCEPT !.pc = "drain"]
                [] ~job.fading /\ ~flags.stop /\ job.todo > 0 ->
                     [job EXCEPT !.pc = "write", !.left = Rendered, !.todo = @ - 1]
                [] ~job.fading /\ ~flags.stop /\ job.todo = 0 /\ flags.kind = "score" ->
                     [job EXCEPT !.pc = "write", !.left = Ramp(1, 0), !.fading = TRUE]
                [] OTHER -> [job EXCEPT !.pc = "close"]
    /\ UNCHANGED <<lock, flags, caller, pin, pwm, count>>

\* write_hw.
Writes ==
    /\ Does("write")
    /\ job' = CASE job.left = <<>> -> [job EXCEPT !.pc = "chunk", !.begun = <<>>]
                [] job.left # <<>> /\ flags.stop /\ ~job.fading -> [job EXCEPT !.pc = "close"]
                [] OTHER -> [job EXCEPT !.pc = "call", !.begun = job.left]
    /\ UNCHANGED <<lock, flags, caller, pin, pwm, count>>

\* DRAIN_MS is longer than a full ring plays.
Drains ==
    /\ Does("drain") /\ pwm.ring = <<>>
    /\ Then("close")
    /\ UNCHANGED <<lock, flags, caller, pin, pwm, count>>

\* Mistake: the timer is left running.
Flushed == [pwm EXCEPT !.ring = <<>>]

Stopped == [pwm EXCEPT !.running = FALSE, !.ring = <<>>]

\* score_teardown: pwm_audio_stop, then pwm_audio_deinit.
Closes ==
    /\ Does("close")
    /\ pwm' = Stopped
    /\ Then("deinit")
    /\ UNCHANGED <<lock, flags, caller, pin, count>>

Deinit ==
    /\ Does("deinit")
    /\ pwm' = [NoPwm EXCEPT !.running = pwm.running]
    /\ pin' = [route |-> "low", duty |-> 0]
    /\ flags' = [flags EXCEPT !.ready = FALSE]
    /\ Then("done")
    /\ UNCHANGED <<lock, caller, count>>

Done ==
    /\ Does("done")
    /\ flags' = [flags EXCEPT !.playing = FALSE]
    /\ Then("give")
    /\ UNCHANGED <<lock, caller, pin, pwm, count>>

Gives ==
    /\ Does("give")
    /\ lock' = "free" /\ job' = NoJob
    /\ UNCHANGED <<flags, caller, pin, pwm, count>>

Job ==
    \/ AsksForRoom \/ Admitted \/ Copies \/ Returns \/ Misses \/ Locks \/ Square \/ SquareEnds
    \/ Pulses \/ PulsesEnd \/ Abandons \/ Setup \/ SetupFails \/ Continues \/ Writes \/ Drains
    \/ Closes \/ Deinit \/ Done \/ Gives

Next == Job \/ Tick \/ \E c \in Callers : Call(c)

Spec == Init /\ [][Next]_vars

(***************************************************************************)
(* Properties                                                              *)
(***************************************************************************)
Sounding == pin.route = "rmt" \/ (pin.route = "ledc" /\ pin.duty # 0)

\* "Stop must disable PWM and drive the pin low": the gate is driven only by the
\* one that holds the lock, and by a job only while it is said to play.
SilentUnlessPlaying ==
    Sounding => lock \in Callers \/ (lock = "job" /\ flags.playing)

\* The timer's interrupt has a ring to play from, until it is stopped.
RingOutlivesTimer == pwm.running => pwm.handle

\* The ring has room for what a write has been granted, so that no half of a
\* sample is left out.
GrantedFits == job.batch < Room
=============================================================================
