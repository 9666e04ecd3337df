------------------------------ MODULE PicoPmu ------------------------------
(***************************************************************************)
(* The Read Pico and its power management unit: read_pico_pmu.c, whose     *)
(* commands are numbered, answered in one register and sent again with a   *)
(* recovered number, and Board's use of it for the time, which is kept in  *)
(* two places: UTC by the unit, the offset of the local time in NVS.       *)
(* Either side may be restarted at any moment; a restart of the ESP takes  *)
(* longer than an answer of the unit.                                      *)
(***************************************************************************)
EXTENDS Integers

CONSTANTS
    Numbers,      \* numbers of commands, 1 to 65535 in the firmware
    Attempts,     \* of a command
    Reads,        \* of its response
    Times,        \* that are given: each has an instant and an offset of its own
    Faults,       \* bounds the transfers that fail
    Restarts,     \* bounds the restarts of either side
    Slow          \* whether the unit may still be at a command when it is first
                  \* asked; then it is not restarted, and can always be read

VARIABLES
    pmu,          \* the unit: its session, last number, a frame, the response, UTC
    host,         \* s_snap and s_seq: session, last number known, the next one
    op,           \* the command that is being given
    clock, nvs,   \* the instant and offset Board shows, the offset it stored
    last,         \* the last time that was given, and whether Board said it is kept
    faults, restarts

vars == <<pmu, host, op, clock, nvs, last, faults, restarts>>

After(n) == IF n >= Numbers THEN 1 ELSE n + 1

Idle == [at |-> "idle", code |-> "none", arg |-> 0, attempt |-> 0, reads |-> 0, number |-> 0]

Start(code, arg) == [Idle EXCEPT !.at = "write", !.code = code, !.arg = arg, !.attempt = 1]

\* What was sent before is not what this command waits for.
Stale == [pmu EXCEPT !.reply.own = FALSE, !.inbox.own = FALSE]

NoFrame == [number |-> 0, session |-> 0, code |-> "none", arg |-> 0, own |-> FALSE]
NoReply == [number |-> 0, status |-> "none", code |-> "none", arg |-> 0, own |-> FALSE]

\* The ESP has just been started, for the first time, or once more (Restart).
Fresh(session) == [session |-> session, last |-> 0, inbox |-> NoFrame, reply |-> NoReply, utc |-> 0]
Reset == [session |-> 0, last |-> 0, next |-> 1, ready |-> FALSE]

Init ==
    /\ pmu = Fresh(1) /\ host = Reset /\ op = [Idle EXCEPT !.at = "identity"]
    /\ clock = << >> /\ nvs = << >> /\ last = << >> /\ faults = Faults /\ restarts = Restarts

Fails == faults > 0 /\ faults' = faults - 1
Works == UNCHANGED faults

(***************************************************************************)
(* The unit (external): it answers a frame of its session with a new       *)
(* number, refuses another one, and takes the time.                        *)
(***************************************************************************)
Execute ==
    /\ pmu.inbox.number # 0
    /\ LET frame == pmu.inbox
           status == IF frame.session # pmu.session THEN "stale"
                     ELSE IF frame.number = pmu.last THEN "conflict" ELSE "ok"
           done == status = "ok" IN
       pmu' = [pmu EXCEPT
           !.inbox = NoFrame,
           !.last = IF done THEN frame.number ELSE @,
           !.utc = IF done /\ frame.code = "sync" THEN frame.arg ELSE @,
           !.reply = [number |-> frame.number, status |-> status, code |-> frame.code,
                      arg |-> IF frame.code = "get" THEN pmu.utc ELSE 0, own |-> frame.own]]
    /\ UNCHANGED <<host, op, clock, nvs, last, faults, restarts>>

\* It is without power for a moment: a new session, and no time.
PmuRestart ==
    /\ ~Slow /\ restarts > 0 /\ restarts' = restarts - 1
    /\ pmu' = Fresh(pmu.session + 1)
    /\ UNCHANGED <<host, op, clock, nvs, last, faults>>

\* parse_identity() and parse_status(): what the unit says of itself, when it was
\* not torn.
Identified(h) == [h EXCEPT !.session = pmu.session]

Known(h) == [h EXCEPT !.last = pmu.last]

(***************************************************************************)
(* read_pico_pmu_cmd().                                                    *)
(***************************************************************************)
\* recover_seq(): identity and status, each of which may fail or be torn.
Recover ==
    /\ op.at = "recover"
    /\ \E identity, status \in BOOLEAN :
        /\ IF identity /\ status THEN Works ELSE Fails /\ ~Slow
        /\ LET h == IF identity THEN Identified(host) ELSE host
               known == IF status THEN Known(h) ELSE h IN
           host' = [known EXCEPT !.next = After(known.last)]
    /\ op' = [op EXCEPT !.at = "write"]
    /\ UNCHANGED <<pmu, clock, nvs, last, restarts>>

\* The frame is written; a transfer that fails may have been carried out.
Write ==
    /\ op.at = "write"
    /\ LET frame == [number |-> host.next, session |-> host.session, code |-> op.code, arg |-> op.arg, own |-> TRUE] IN
       \/ /\ Works /\ pmu' = [pmu EXCEPT !.inbox = frame]
          /\ op' = [op EXCEPT !.at = "read", !.reads = 0, !.number = host.next]
       \/ /\ Fails /\ pmu' \in {pmu, [pmu EXCEPT !.inbox = frame]}
          /\ op' = [op EXCEPT !.at = "failed"]
    /\ host' = [host EXCEPT !.next = After(@)]
    /\ UNCHANGED <<clock, nvs, last, restarts>>

\* After an attempt that was not answered there is another, or none.
Again == IF op.attempt < Attempts THEN [op EXCEPT !.at = "recover", !.attempt = @ + 1] ELSE [op EXCEPT !.at = "failed"]

\* Mistake: the response that is there is taken.
AnyResponse(reply) == TRUE

Answers(reply) == reply.number = op.number

\* read_response_for().  The unit has answered when the last read comes.
Read ==
    /\ op.at = "read"
    /\ op.reads = Reads - 1 \/ ~Slow => pmu.inbox.number = 0
    /\ \/ Fails /\ op' \in {Again, [op EXCEPT !.at = "failed"]}
       \/ /\ Works
          /\ op' =
              IF ~Answers(pmu.reply)
              THEN IF op.reads + 1 < Reads THEN [op EXCEPT !.reads = @ + 1] ELSE Again
              ELSE IF pmu.reply.status = "ok" THEN [op EXCEPT !.at = "done"] ELSE Again
    /\ UNCHANGED <<pmu, host, clock, nvs, last, restarts>>

(***************************************************************************)
(* read_pico_pmu_init(): identity, recover_seq(), HOST_READY, and a poll   *)
(* that finds the unit RUNNING and its identity whole.                     *)
(***************************************************************************)
Identity ==
    /\ op.at = "identity" /\ (Slow => pmu.inbox.number = 0)
    /\ \/ /\ Works /\ host' = Identified(host)
          /\ op' = [Start("ready", 0) EXCEPT !.at = "recover"]
       \/ Fails /\ op' = [Idle EXCEPT !.at = "begin"] /\ UNCHANGED host
    /\ pmu' = Stale /\ UNCHANGED <<clock, nvs, last, restarts>>

\* After HOST_READY, or without it: the unit is not used then.
Ready ==
    /\ op.code = "ready" /\ op.at \in {"done", "failed"}
    /\ \/ /\ op.at = "done" /\ Works /\ pmu' = Stale /\ op' = Start("get", 0)
          /\ host' = [Known(Identified(host)) EXCEPT !.ready = TRUE]
       \/ /\ op.at = "failed" \/ faults > 0
          /\ op' = [Idle EXCEPT !.at = "begin"] /\ UNCHANGED <<pmu, faults>>
          /\ host' = [host EXCEPT !.ready = FALSE]
    /\ UNCHANGED <<clock, nvs, last, restarts>>

(***************************************************************************)
(* Board.                                                                  *)
(***************************************************************************)
\* Mistake: the time is believed without its offset.
AnyOffset == TRUE

OffsetValid == nvs # << >>

\* begin(): the time of the unit, with the offset that was stored.
Begin ==
    /\ op.at = "begin" \/ (op.code = "get" /\ op.at \in {"done", "failed"})
    /\ clock' =
        IF op.at = "done" /\ pmu.reply.arg # 0 /\ OffsetValid
        THEN <<pmu.reply.arg, IF nvs = << >> THEN 0 ELSE nvs[1]>> ELSE << >>
    /\ op' = Idle /\ UNCHANGED <<pmu, host, nvs, last, faults, restarts>>

\* poll(): the loop's, which brings identity and status up to date.
Poll ==
    /\ op.at = "idle" /\ host.ready
    /\ host' = Known(Identified(host))
    /\ UNCHANGED <<pmu, op, clock, nvs, last, faults, restarts>>

\* sync(): the time is shown at once, given to the unit, and its offset stored.
Sync(time) ==
    /\ op.at = "idle"
    /\ clock' = <<time, time>> /\ last' = <<time, FALSE>>
    /\ op' = IF host.ready THEN Start("sync", time) ELSE [Start("sync", time) EXCEPT !.at = "failed"]
    /\ pmu' = Stale /\ UNCHANGED <<host, nvs, faults, restarts>>

\* Mistake: it is enough that the offset was stored.
OffsetOnly(done) == TRUE

SyncOk(done) == done

Store ==
    /\ op.code = "sync" /\ op.at \in {"done", "failed"}
    /\ \/ Works /\ nvs' = <<clock[2]>> /\ last' = [last EXCEPT ![2] = SyncOk(op.at = "done")]
       \/ Fails /\ nvs' \in {nvs, <<clock[2]>>} /\ UNCHANGED last
    /\ op' = Idle /\ UNCHANGED <<pmu, host, clock, restarts>>

\* The ESP is restarted, by USB, an update or the watchdog; the unit is not.
Restart ==
    /\ restarts > 0 /\ restarts' = restarts - 1
    /\ host' = Reset /\ op' = [Idle EXCEPT !.at = "identity"] /\ clock' = << >>
    /\ UNCHANGED <<pmu, nvs, last, faults>>

Next ==
    \/ Execute \/ PmuRestart \/ Recover \/ Write \/ Read \/ Identity \/ Ready \/ Begin \/ Poll
    \/ (\E time \in Times : Sync(time)) \/ Store \/ Restart

Spec == Init /\ [][Next]_vars

TypeOK ==
    /\ pmu.last \in 0..Numbers /\ host.next \in 1..Numbers /\ host.last \in 0..Numbers
    /\ op.attempt \in 0..Attempts /\ op.reads \in 0..(Reads - 1)
    /\ pmu.utc \in Times \cup {0} /\ (nvs # << >> => nvs[1] \in Times)
    /\ faults \in 0..Faults /\ restarts \in 0..Restarts

(***************************************************************************)
(* Properties.                                                             *)
(***************************************************************************)

\* A command that succeeds was answered: its response is the unit's to this
\* command, not to an earlier one, whichever side was restarted meanwhile.
AnsweredIsMine == op.at = "done" /\ pmu.reply.number # 0 => pmu.reply.own /\ pmu.reply.code = op.code

\* A time that Board said is kept is what it shows after any restart, or none.
SyncIsKept ==
    last # << >> /\ op.at = "idle" /\ clock # << >> => (last[2] => clock = <<last[1], last[1]>>)

\* The local time is not shown without an offset that was once given.
TimeHasOffset == clock # << >> => clock[2] \in Times
=============================================================================
