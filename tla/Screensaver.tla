----------------------------- MODULE Screensaver -----------------------------
(***************************************************************************)
(* The idle policy of the touch panels: usage_panel_state's                *)
(* ScreensaverController, as operators on a record.                        *)
(*                                                                         *)
(* The code keeps absolute times.  Here `guard' and `lock' are what is     *)
(* left of ignore_touch_until_ms_ and ignore_wake_until_ms_, and `idle' is *)
(* the time since last_activity_ms_, counted up to the longest delay.  The *)
(* hint's fade and the burn-in offset change only what the clock draws.    *)
(***************************************************************************)
EXTENDS Integers

CONSTANTS TouchGuard,    \* kTouchGuardMs
          WakeGuard,     \* kWakeGuardMs
          IdleCap        \* the longest idle delay that is configured

Pages == {"overview", "codex", "claude"}

Savers == [active : BOOLEAN, consume : BOOLEAN, guard : 0..TouchGuard,
           lock : 0..WakeGuard, idle : 0..IdleCap, restore : Pages]

Reset(p) == [active |-> FALSE, consume |-> FALSE, guard |-> 0, lock |-> 0,
             idle |-> 0, restore |-> p]

\* The guard of an earlier wake keeps running: enter() does not touch it.
Enter(s, p) ==
    [s EXCEPT !.active = TRUE, !.restore = p, !.consume = FALSE, !.lock = 0]

EnterClock(s, p) == IF s.active THEN s ELSE Enter(s, p)

Exit(s) == [s EXCEPT !.active = FALSE, !.idle = 0]

NoteRemoteToggle(s, p) == IF s.active THEN Exit(s) ELSE Enter(s, p)

NotePowerKey(s, p) ==
    LET t == NoteRemoteToggle(s, p)
    IN  IF t.active THEN [t EXCEPT !.lock = WakeGuard] ELSE t

NoteTouchDown(s) ==
    CASE s.active /\ s.lock > 0 -> s
      [] s.active /\ s.lock = 0 ->
            [Exit(s) EXCEPT !.consume = TRUE, !.guard = TouchGuard]
      [] ~s.active /\ s.guard > 0 -> [s EXCEPT !.consume = TRUE]
      [] OTHER -> [s EXCEPT !.consume = FALSE, !.idle = 0]

NoteShake(s) ==
    CASE s.active /\ s.lock > 0 -> s
      [] s.active /\ s.lock = 0 -> Exit(s)
      [] OTHER -> [s EXCEPT !.idle = 0]

\* Mistake: pairing and updates only keep an awake panel awake.
KeepAwakeOnly(s, p, delay, awake) ==
    CASE awake -> [s EXCEPT !.idle = 0, !.consume = FALSE]
      [] ~awake /\ ~s.active /\ delay # 0 /\ s.idle >= delay -> Enter(s, p)
      [] OTHER -> s

Update(s, p, delay, awake) ==
    CASE awake -> [(IF s.active THEN Exit(s) ELSE s)
                      EXCEPT !.idle = 0, !.consume = FALSE]
      [] ~awake /\ ~s.active /\ delay # 0 /\ s.idle >= delay -> Enter(s, p)
      [] OTHER -> s

\* What view() shows of the guard, and whether touch_allowed() lets input in.
Consumes(s)     == s.consume /\ s.guard > 0
TouchAllowed(s) == s.guard = 0

\* Mistake: the difference of two unsigned times.
Difference(n) == n - 1

Elapsed(n) == IF n = 0 THEN 0 ELSE n - 1

\* One unit of time passes.
Aged(s) == [s EXCEPT !.guard = Elapsed(@), !.lock = Elapsed(@),
                     !.idle = IF @ < IdleCap THEN @ + 1 ELSE @]
=============================================================================
