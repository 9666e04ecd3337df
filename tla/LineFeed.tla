------------------------------ MODULE LineFeed ------------------------------
(***************************************************************************)
(* How a refresh of the Read Pico's paper is fed (epdiy: render.c,         *)
(* render_lcd.c, line_queue.c, lcd_driver.c).  In each phase of a waveform *)
(* two tasks, one on each core, turn lines into driving voltages and queue *)
(* them; interrupts move lines from the queues to two bounce buffers which *)
(* the LCD peripheral scans out and cannot be made to wait for.  The times *)
(* of a line follow from the pixel clock and the profile of the waveform.  *)
(***************************************************************************)
EXTENDS Integers, Sequences

CONSTANTS Height,  \* lines of the panel
          Lines,   \* lines_total: the same, rounded up
          Bounce,  \* BOUNCE_BUF_LINES; divides Lines and Batch
          Batch,   \* LINE_BATCH
          Size,    \* of a line queue, which holds one line less
          Prefill, \* s_prefill_lines
          Phases,  \* cycle_frames
          Misses   \* bounds the bounce buffers of a phase not refilled in time

VARIABLES main,   \* the loop's task: epd_draw_base, lcd_do_update, epd_push_pixels_lcd
          ctx,    \* render_context
          queue,  \* line_queues
          feeder, \* the two tasks: where they are and the line in hand
          sem,    \* frame_done, feed_done_smphr and the tasks' notifications
          lcd,    \* lcd: callbacks, bounce buffers, the scan
          glass   \* the lines this phase has driven

vars == <<main, ctx, queue, feeder, sem, lcd, glass>>

NUM_RENDER_THREADS == 2
Feeders == 0..NUM_RENDER_THREADS - 1

Blank == Lines
Stale == Lines + 1
Content(l) == IF l < Height THEN l ELSE Blank
Empty == [t \in Feeders |-> <<>>]
AllWhite == [i \in 1..Bounce |-> Blank]

\* prepare_context_for_next_frame.
Prepared(error) ==
    [error |-> error, prepared |-> 0, consumed |-> 0,
     owner |-> [l \in 0..Lines - 1 |-> l % NUM_RENDER_THREADS]]

Init ==
    /\ main = [pc |-> "idle", retry |-> FALSE, phase |-> 0]
    /\ ctx = Prepared(FALSE)
    /\ queue = Empty
    /\ feeder = [t \in Feeders |-> [pc |-> "asleep", line |-> 0]]
    /\ sem = [frame |-> FALSE, fed |-> {}, notified |-> {}]
    /\ lcd = [source |-> "none", callback |-> FALSE, on |-> FALSE, left |-> 0, batches |-> 0,
              next |-> 1, eof |-> 1, buffers |-> <<AllWhite, AllWhite>>, missed |-> 0]
    /\ glass = <<>>

TypeOK ==
    /\ main.phase \in 0..Phases /\ ctx.prepared \in 0..Lines + 2
    /\ ctx.consumed \in 0..Lines + 2 * Bounce
    /\ \A t \in Feeders : Len(queue[t]) < Size
    /\ Len(glass) <= Lines /\ lcd.missed \in 0..Misses

(***************************************************************************)
(* Interrupts.                                                             *)
(***************************************************************************)

\* retrieve_line_isr, push_pixels_isr: one line for a slot that holds `old`.
Supplied(source, c, q, old) ==
    LET t == c.owner[c.consumed]
        one == [c EXCEPT !.consumed = @ + 1]
    IN  CASE source = "none" -> <<c, q, Blank>>
          [] source = "push" -> <<one, q, Blank>>
          [] source = "retrieve" /\ c.consumed >= Lines -> <<c, q, old>>
          [] source = "retrieve" /\ c.consumed < Lines /\ q[t] = <<>> ->
               <<[one EXCEPT !.error = TRUE], q, Blank>>
          [] OTHER -> <<one, [q EXCEPT ![t] = Tail(@)],
                        IF c.consumed >= Height THEN Blank ELSE Head(q[t])>>

\* fill_bounce_buffer: <<context, queues, buffer>>.
Filled(source, c, q, buffer) ==
    LET fill[i \in 0..Bounce] ==
            IF i = 0 THEN <<c, q, buffer>>
            ELSE LET before == fill[i - 1]
                     line == Supplied(source, before[1], before[2], before[3][i])
                 IN  <<line[1], line[2], [before[3] EXCEPT ![i] = line[3]]>>
    IN  fill[Bounce]

\* epd_lcd_start_frame.
StartFrame(source, c) ==
    LET first  == Filled(source, c, queue, lcd.buffers[1])
        second == Filled(source, first[1], first[2], lcd.buffers[2])
    IN  /\ ctx' = second[1] /\ queue' = second[2]
        /\ lcd' = [lcd EXCEPT !.source = source, !.callback = TRUE, !.on = TRUE,
                              !.left = IF Batch < Lines THEN Batch ELSE Lines,
                              !.batches = 0, !.next = 1, !.eof = 1,
                              !.buffers = <<first[3], second[3]>>]

Scanned == [lcd EXCEPT !.left = @ - Bounce, !.next = 3 - @]

\* A bounce buffer has gone out; lcd_rgb_panel_eof_handler refills it.
Scan ==
    /\ lcd.on /\ lcd.left > 0
    /\ glass' = glass \o lcd.buffers[lcd.next]
    /\ LET refill == Filled(lcd.source, ctx, queue, lcd.buffers[lcd.eof])
       IN  /\ ctx' = refill[1] /\ queue' = refill[2]
           /\ lcd' = [Scanned EXCEPT !.buffers[lcd.eof] = refill[3], !.eof = 3 - @]
    /\ UNCHANGED <<main, feeder, sem>>

\* The interrupt comes so late that it stands for the next one too.
Miss ==
    /\ lcd.on /\ lcd.left > 0 /\ lcd.missed < Misses
    /\ glass' = glass \o lcd.buffers[lcd.next]
    /\ lcd' = [Scanned EXCEPT !.missed = @ + 1]
    /\ UNCHANGED <<main, ctx, queue, feeder, sem>>

\* Mistake: "using ceil made short panels run a duplicate second batch".
RoundedUp == (Lines + Batch - 1) \div Batch

BatchesNeeded == Lines \div Batch

LastLines == IF Lines % Batch = 0 THEN Batch ELSE Lines % Batch

\* lcd_isr_vsync, between batches.
NextBatch ==
    /\ lcd.on /\ lcd.left = 0 /\ lcd.batches < BatchesNeeded
    /\ lcd' = [lcd EXCEPT !.left = IF lcd.batches = BatchesNeeded - 1 THEN LastLines ELSE Batch,
                          !.batches = @ + 1]
    /\ UNCHANGED <<main, ctx, queue, feeder, sem, glass>>

\* Mistake: producers of a frame that ended too early are left waiting.
LeavesThem(c) == c.error

\* Producers are released if the scan ends before consumption.
Underrun(c) == c.error \/ c.consumed < Lines

\* lcd_isr_vsync after the last batch, and handle_lcd_frame_done.
FrameDone ==
    /\ lcd.on /\ lcd.left = 0 /\ lcd.batches >= BatchesNeeded
    /\ lcd' = [lcd EXCEPT !.on = FALSE, !.source = "none", !.callback = FALSE]
    /\ ctx' = IF lcd.callback THEN [ctx EXCEPT !.error = Underrun(ctx)] ELSE ctx
    /\ sem' = [sem EXCEPT !.frame = @ \/ lcd.callback]
    /\ UNCHANGED <<main, queue, feeder, glass>>

(***************************************************************************)
(* A feeding task: render_thread and lcd_calculate_frame.                  *)
(***************************************************************************)
At(t, pc) == feeder[t].pc = pc
Goes(t, pc) == feeder' = [feeder EXCEPT ![t].pc = pc]

Woken(t) ==
    /\ At(t, "asleep") /\ t \in sem.notified
    /\ sem' = [sem EXCEPT !.notified = @ \ {t}]
    /\ Goes(t, "woken")
    /\ UNCHANGED <<main, ctx, queue, lcd, glass>>

Leaves(t) ==
    /\ sem' = [sem EXCEPT !.fed = @ \cup {t}]
    /\ Goes(t, "asleep")

\* "The other producer may have started and underrun already".
Begins(t) ==
    /\ At(t, "woken")
    /\ \/ ctx.error /\ Leaves(t)
       \/ ~ctx.error /\ Goes(t, "begun") /\ UNCHANGED sem
    /\ UNCHANGED <<main, ctx, queue, lcd, glass>>

\* assert(!ctx->error), a moment later: the firmware is aborted and restarts.
Aborts(t) ==
    /\ At(t, "begun") /\ ctx.error
    /\ main' = [pc |-> "idle", retry |-> FALSE, phase |-> 0]
    /\ ctx' = Prepared(FALSE) /\ queue' = Empty /\ glass' = <<>>
    /\ feeder' = [u \in Feeders |-> [pc |-> "asleep", line |-> 0]]
    /\ sem' = [frame |-> FALSE, fed |-> {}, notified |-> {}]
    /\ lcd' = [lcd EXCEPT !.source = "none", !.callback = FALSE, !.on = FALSE]

Passes(t) ==
    /\ At(t, "begun") /\ ~ctx.error
    /\ Goes(t, "next")
    /\ UNCHANGED <<main, ctx, queue, sem, lcd, glass>>

Trigger == IF Prefill < Height THEN Prefill ELSE Height

\* A line number is taken with atomic_fetch_add.
Takes(t) ==
    /\ At(t, "next") /\ ctx.prepared < Lines
    /\ ctx' = [ctx EXCEPT !.prepared = @ + 1, !.owner[ctx.prepared] = t]
    /\ feeder' = [feeder EXCEPT ![t] =
                      [pc |-> IF ctx.prepared = Trigger THEN "start" ELSE "put",
                       line |-> ctx.prepared]]
    /\ UNCHANGED <<main, queue, sem, lcd, glass>>

Finishes(t) ==
    /\ At(t, "next") /\ ctx.prepared >= Lines
    /\ ctx' = [ctx EXCEPT !.prepared = Lines]
    /\ Leaves(t)
    /\ UNCHANGED <<main, queue, lcd, glass>>

Starts(t) ==
    /\ At(t, "start")
    /\ StartFrame("retrieve", ctx)
    /\ Goes(t, "put")
    /\ UNCHANGED <<main, sem, glass>>

\* lq_current finds room; the line is looked up and committed even if the frame
\* fails in the meantime.
Reserves(t) ==
    /\ At(t, "put") /\ ~ctx.error /\ Len(queue[t]) < Size - 1
    /\ Goes(t, "commit")
    /\ UNCHANGED <<main, ctx, queue, sem, lcd, glass>>

Commits(t) ==
    /\ At(t, "commit")
    /\ queue' = [queue EXCEPT ![t] = Append(@, Content(feeder[t].line))]
    /\ Goes(t, "next")
    /\ UNCHANGED <<main, ctx, sem, lcd, glass>>

\* lq_reset, which may fall into the lq_read of an interrupt on the other core:
\* that one then moves `last` to 1 and the queue seems full.
Drops(t) ==
    /\ At(t, "put") /\ ctx.error
    /\ \E raced \in {FALSE, lcd.on} :
          queue' = [queue EXCEPT ![t] = IF raced THEN [i \in 1..Size - 1 |-> Stale] ELSE <<>>]
    /\ Leaves(t)
    /\ UNCHANGED <<main, ctx, lcd, glass>>

Feeds(t) ==
    \/ Woken(t) \/ Begins(t) \/ Aborts(t) \/ Passes(t) \/ Takes(t) \/ Finishes(t)
    \/ Starts(t) \/ Reserves(t) \/ Commits(t) \/ Drops(t)

(***************************************************************************)
(* The loop's task.                                                        *)
(***************************************************************************)
Draw ==
    /\ main.pc = "idle"
    /\ main' = [pc |-> "phase", retry |-> FALSE, phase |-> 0]
    /\ ctx' = Prepared(FALSE)
    /\ UNCHANGED <<queue, feeder, sem, lcd, glass>>

Phase ==
    /\ main.pc = "phase"
    /\ main' = [main EXCEPT !.pc = "frame"]
    /\ ctx' = Prepared(ctx.error)
    /\ sem' = [sem EXCEPT !.notified = Feeders]
    /\ lcd' = [lcd EXCEPT !.callback = TRUE, !.missed = 0]
    /\ glass' = <<>>
    /\ UNCHANGED <<queue, feeder>>

Framed ==
    /\ main.pc = "frame" /\ sem.frame
    /\ sem' = [sem EXCEPT !.frame = FALSE]
    /\ main' = [main EXCEPT !.pc = "feeders"]
    /\ UNCHANGED <<ctx, queue, feeder, lcd, glass>>

\* Mistake: the next phase does not wait for the producers of this one.
NoWait == TRUE

AllFed == sem.fed = Feeders

\* Mistake: lines left in the queues go into the next update.
KeepsLines == queue

Cleaned == IF ctx.error THEN Empty ELSE queue

Fed ==
    /\ main.pc = "feeders" /\ AllFed
    /\ sem' = [sem EXCEPT !.fed = {}]
    /\ queue' = Cleaned
    /\ main' = [main EXCEPT !.phase = IF ctx.error THEN @ ELSE @ + 1,
                            !.pc = IF ctx.error \/ main.phase + 1 = Phases THEN "over" ELSE "phase"]
    /\ UNCHANGED <<ctx, feeder, lcd, glass>>

\* DisplayUi::render: a starved refresh is repeated once, from white.
Over ==
    /\ main.pc = "over"
    /\ main' = [main EXCEPT !.pc = IF ctx.error /\ ~main.retry THEN "clear" ELSE "idle"]
    /\ UNCHANGED <<ctx, queue, feeder, sem, lcd, glass>>

\* epd_clear: frames of one colour (one of them here), not fed by the tasks.
Clear ==
    /\ main.pc = "clear"
    /\ StartFrame("push", [ctx EXCEPT !.consumed = 0])
    /\ glass' = <<>>
    /\ main' = [main EXCEPT !.pc = "clearing"]
    /\ UNCHANGED <<feeder, sem>>

Cleared ==
    /\ main.pc = "clearing" /\ sem.frame
    /\ sem' = [sem EXCEPT !.frame = FALSE]
    /\ ctx' = Prepared(FALSE)
    /\ main' = [pc |-> "phase", retry |-> TRUE, phase |-> 0]
    /\ UNCHANGED <<queue, feeder, lcd, glass>>

Update == Draw \/ Phase \/ Framed \/ Fed \/ Over \/ Clear \/ Cleared
Peripheral == Scan \/ NextBatch \/ FrameDone

Next == Update \/ Peripheral \/ Miss \/ \E t \in Feeders : Feeds(t)

Spec == Init /\ [][Next]_vars

(***************************************************************************)
(* The times of a scan line, derived from the pixel clock in clocks,       *)
(* tenths of a microsecond and microseconds (read_pico_epd_timing.c), and  *)
(* what the LCD driver makes of them (lcd_driver.c).                       *)
(***************************************************************************)
PixelClocks == 12..24          \* READ_PICO_EPD_PCLK_MIN_MHZ, ..._MAX_MHZ
Profiles == {"full", "fast"}

Width == 1216             \* E0470_DISPLAY
PanelHeight == 684
BusWidth == 16

Least(a, b) == IF a < b THEN a ELSE b
Most(a, b) == IF a < b THEN b ELSE a
Clamped(v, lo, hi) == Most(Least(v, hi), lo)
Ceiling(n, d) == (n + d - 1) \div d

\* Mistake: the time becomes whole clocks that are too short for it.
RoundsDown(ns, pclk) == (ns * pclk) \div 1000

ClocksFor(ns, pclk) == Ceiling(ns * pclk, 1000)

FrameLines == 1 + 4 + PanelHeight + 12
FrameTarget == 11090      \* E0470_WAVEFORM_FRAME_US

LineData == Width \div (BusWidth \div 2)

\* read_pico_epd_scan.
Solved(requested, profile) ==
    LET pclk  == Clamped(requested, 12, 24)
        start == ClocksFor(300, pclk)
        back  == ClocksFor(800, pclk)
        used  == LineData + start + back
        short == Ceiling(used + 4, pclk)
        us0   == IF profile = "full" THEN Most(short, (FrameTarget + FrameLines \div 2) \div FrameLines)
                 ELSE short
        us    == IF us0 * pclk - used < 4 THEN us0 + 1 ELSE us0
        covers == Ceiling((start + back + LineData) * 10, pclk)
    IN  [pclk |-> pclk, start |-> start, back |-> back, end |-> us * pclk - used, us |-> us,
         ckv |-> Clamped(Most(134, covers), 12, us * 10 - 12), covers |-> covers]

\* Mistake: the clock is changed under the line of the last one.
OldLine(last, now) == [now EXCEPT !.start = last.start, !.back = last.back, !.end = last.end,
                                  !.ckv = last.ckv]

\* apply_lcd: line timing, then clock.
Applied(last, now) == now

\* rebuild_line_geometry.
LineTime(s) ==
    LET cycles == LineData + s.start + s.back + (IF s.end > 0 THEN s.end ELSE 4)
    IN  (cycles * 10 + s.pclk \div 2) \div s.pclk

\* ckv_rmt_build_signal.
GateHigh(s) == Most(Least(s.ckv, LineTime(s) - 9), 9)

(***************************************************************************)
(* Properties                                                              *)
(***************************************************************************)

\* A phase that reports no underrun has driven every line of the panel once, in
\* its place, however the two tasks and the interrupts interleaved; unless an
\* interrupt was missed.
TornIsReported ==
    main.pc = "feeders" /\ ~ctx.error /\ lcd.missed = 0 =>
        glass = [i \in 1..Lines |-> Content(i - 1)]

\* "Release producers if scan ends before consumption; never carry stale lines
\* into the next phase."
NoStaleLines == main.pc \in {"phase", "clear"} => queue = Empty

\* "With integer division": a phase scans each line once.
ScansOnce == main.pc = "feeders" => Len(glass) = Lines

\* Between updates: whatever clock and profile follow whatever others, the line the driver
\* generates is the one that was solved: the gate is closed for 1.2 us in every
\* line, source data of the full profile is sent while it is open, blanking is
\* as long as the panel asks, and full frames last what the waveform is for.
GateCoversData ==
    main = [pc |-> "idle", retry |-> FALSE, phase |-> 0] =>
    \A p1, p2 \in PixelClocks, f1, f2 \in Profiles :
        LET s == Applied(Solved(p1, f1), Solved(p2, f2))
        IN  /\ LineTime(s) = 10 * s.us /\ LineTime(s) - GateHigh(s) >= 12
            /\ f2 = "full" =>
                   /\ GateHigh(s) >= s.covers
                   /\ s.us * FrameLines \in FrameTarget - 300 .. FrameTarget + 300
            /\ s.start * 1000 >= 300 * s.pclk /\ s.back * 1000 >= 800 * s.pclk /\ s.end >= 4
=============================================================================
