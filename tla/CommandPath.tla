---------------------------- MODULE CommandPath ----------------------------
(***************************************************************************)
(* The way of a command from the radio to the main loop: bytes become      *)
(* lines (buddy_input_guard.c), lines become requests that are checked     *)
(* (strict_json.c, time_sync.cpp, usage_command.cpp) and answered          *)
(* (ble_service.cpp), and what is accepted goes through a queue that never *)
(* blocks (app_events.cpp), as do the changes of the link.  BLE's task     *)
(* does all this; the main loop empties the queue.                         *)
(***************************************************************************)
EXTENDS Integers, Sequences

CONSTANTS
    Lines,        \* the lines the host may send, see Line
    LineMax,      \* ESP_DESKTOP_BUDDY_LINE_MAX
    Depth,        \* of the queue
    Enabled,      \* the commands this panel has besides usage and status
    MaxSends,     \* bounds the lines that are sent
    MaxChanges    \* bounds the changes of the link and of the update

Kinds == {"usage", "time_sync", "screen_toggle", "screen_page", "status"}
Defects == {"none", "json", "type", "seq", "field"}
Line(l) == l.kind \in Kinds /\ l.defect \in Defects /\ l.size \in Nat \ {0} /\ l.cr \in BOOLEAN

ConstantsOK ==
    /\ \A l \in Lines : Line(l)
    /\ LineMax \in Nat \ {0} /\ Depth \in Nat \ {0} /\ MaxSends \in Nat /\ MaxChanges \in Nat
    /\ Enabled \subseteq Kinds

VARIABLES
    sent, pos,    \* the lines so far, and how much of the last one has arrived
    buf,          \* linebuf: length, the lines it is from, whether a CR is last
    dropping,     \* linebuf's, until the next LF
    acks,         \* the answers
    queue,        \* AppEventQueue
    handled,      \* the commands the main loop took
    link, shown,  \* the link, and the main loop's ble_link
    busy,         \* OtaSession::busy()
    changes,
    torn,         \* the lines that were cut off, or put together from two
    missed        \* changes of the link that found the queue full: 0 none, 1 some, 2 the last

feed == <<sent, pos, buf, dropping, torn>>
vars == <<feed, acks, queue, handled, link, shown, busy, changes, missed>>

Empty == [len |-> 0, of |-> {}, cr |-> FALSE]

Current == Len(sent)

\* The bytes of a line, with CR and LF.
Length(l) == l.size + (IF l.cr THEN 1 ELSE 0) + 1

Idle == Current > 0 => pos = Length(sent[Current])

(***************************************************************************)
(* What is said to a line.                                                 *)
(***************************************************************************)
Answer(n, ok, error) == [line |-> n, ok |-> ok, error |-> error]
Refused(n, error) == acks' = Append(acks, Answer(n, FALSE, error)) /\ UNCHANGED queue

Full == Len(queue) >= Depth

\* Mistake: the command is acknowledged before the queue has taken it.
AcksAnyway(n) ==
    /\ acks' = Append(acks, Answer(n, TRUE, "none"))
    /\ queue' = IF Full THEN queue ELSE Append(queue, [type |-> "command", line |-> n])

\* send_*(): never waits.
Sends(n) ==
    IF Full THEN Refused(n, "queue_full")
    ELSE acks' = Append(acks, Answer(n, TRUE, "none")) /\ queue' = Append(queue, [type |-> "command", line |-> n])

RouteUsage(n, valid) ==
    IF ~valid THEN Refused(n, "invalid_request")
    ELSE IF busy THEN Refused(n, "ota_busy") ELSE Sends(n)

\* A time is taken during an update as well.
RouteTimeSync(n, valid) ==
    IF "time_sync" \notin Enabled THEN Refused(n, "unsupported")
    ELSE IF ~valid THEN Refused(n, "invalid_request") ELSE Sends(n)

RouteScreen(n, valid) ==
    IF ~valid THEN Refused(n, "invalid_request")
    ELSE IF sent[n].kind \notin Enabled THEN Refused(n, "unsupported")
    ELSE IF busy THEN Refused(n, "ota_busy") ELSE Sends(n)

Status(n) == acks' = Append(acks, Answer(n, TRUE, "none")) /\ UNCHANGED queue

\* What a command's fields must be: parse_usage_command() and the like.
Valid(l) == l.defect \notin {"seq", "field"}

Route(n) ==
    LET l == sent[n]
        valid == Valid(l)
    IN  CASE l.kind = "usage" -> RouteUsage(n, valid)
          [] l.kind = "time_sync" -> RouteTimeSync(n, valid)
          [] l.kind \in {"screen_toggle", "screen_page"} -> RouteScreen(n, valid)
          [] l.kind = "status" -> Status(n)

\* usage_json_parse(): what is not one object is not answered.
Parses(b) ==
    \E n \in b.of : b.of = {n} /\ b.len - (IF b.cr THEN 1 ELSE 0) = sent[n].size /\ sent[n].defect # "json"

\* __wrap_buddy_protocol_process_line().
Process ==
    IF ~Parses(buf) THEN UNCHANGED <<acks, queue>>
    ELSE LET n == CHOOSE m \in buf.of : TRUE IN
         IF sent[n].defect = "type" THEN Refused(n, "invalid_request") ELSE Route(n)

(***************************************************************************)
(* __wrap_buddy_linebuf_feed(), byte by byte.                              *)
(***************************************************************************)

\* Mistake: the CR of a line of full length counts.
CrCounts(cr) == buf.len < LineMax

Fits(cr) == buf.len < LineMax \/ (buf.len = LineMax /\ cr)

\* Mistake: a line that was too long takes the next one with it.
StillDropping == dropping

NoMore == FALSE

Feed ==
    /\ ~Idle /\ link = "secure" /\ pos' = pos + 1
    /\ LET l == sent[Current]
           cr == l.cr /\ pos = l.size
       IN  \/ /\ pos' = Length(l)
              /\ IF dropping \/ buf.len = (IF buf.cr THEN 1 ELSE 0) THEN UNCHANGED <<acks, queue>> ELSE Process
              /\ buf' = Empty /\ dropping' = NoMore
           \/ /\ pos' < Length(l) /\ dropping
              /\ UNCHANGED <<buf, dropping, acks, queue>>
           \/ /\ pos' < Length(l) /\ ~dropping /\ Fits(cr)
              /\ buf' = [len |-> buf.len + 1, of |-> buf.of \cup {Current}, cr |-> cr]
              /\ UNCHANGED <<dropping, acks, queue>>
           \/ /\ pos' < Length(l) /\ ~dropping /\ ~Fits(cr)
              /\ buf' = Empty /\ dropping' = TRUE /\ UNCHANGED <<acks, queue>>
    /\ UNCHANGED <<sent, torn, handled, link, shown, busy, changes, missed>>

Send ==
    /\ link = "secure" /\ Idle /\ Current < MaxSends
    /\ \E l \in Lines : sent' = Append(sent, l)
    /\ pos' = 0 /\ torn' = IF Current \in torn /\ (buf.len > 0 \/ dropping) THEN torn \cup {Current + 1} ELSE torn
    /\ UNCHANGED <<buf, dropping, acks, queue, handled, link, shown, busy, changes, missed>>

(***************************************************************************)
(* transport_trampoline(), and OtaSession.                                 *)
(***************************************************************************)

\* Mistake: the link overtakes what is in the queue.
InFront(event) == IF Full THEN queue ELSE <<event>> \o queue

Behind(event) == IF Full THEN queue ELSE Append(queue, event)

\* Nobody hears of a full queue.  A line that was on its way stays unfinished;
\* the transport may or may not empty linebuf with the link.
LinkChanges ==
    /\ changes < MaxChanges /\ changes' = changes + 1
    /\ \E to \in {"down", "pairing", "secure"} :
        /\ <<link, to>> \in {<<"down", "pairing">>, <<"pairing", "secure">>, <<"pairing", "down">>, <<"secure", "down">>}
        /\ link' = to /\ queue' = Behind([type |-> "link", state |-> to]) /\ missed' = IF Full THEN 2 ELSE IF missed = 0 THEN 0 ELSE 1
        /\ IF to # "down" \/ Idle THEN UNCHANGED <<pos, torn>>
           ELSE pos' = Length(sent[Current]) /\ torn' = torn \cup {Current}
        /\ IF to # "down" THEN UNCHANGED <<buf, dropping>>
           ELSE (buf' = Empty /\ dropping' = FALSE) \/ UNCHANGED <<buf, dropping>>
    /\ UNCHANGED <<sent, acks, handled, shown, busy>>

UpdateChanges ==
    /\ changes < MaxChanges /\ changes' = changes + 1 /\ busy' = ~busy
    /\ UNCHANGED <<feed, acks, queue, handled, link, shown, missed>>

\* while (events.receive(event)), in the main loop.
Receive ==
    /\ queue # << >> /\ queue' = Tail(queue)
    /\ IF Head(queue).type = "link" THEN shown' = Head(queue).state /\ UNCHANGED handled
       ELSE handled' = Append(handled, [line |-> Head(queue).line, during |-> shown]) /\ UNCHANGED shown
    /\ UNCHANGED <<feed, acks, link, busy, changes, missed>>

Init ==
    /\ sent = << >> /\ pos = 0 /\ buf = Empty /\ dropping = FALSE /\ torn = {} /\ acks = << >>
    /\ queue = << >> /\ handled = << >> /\ link = "down" /\ shown = "down" /\ busy = FALSE
    /\ changes = 0 /\ missed = 0

Next == Send \/ Feed \/ LinkChanges \/ UpdateChanges \/ Receive

Spec == Init /\ [][Next]_vars

(***************************************************************************)
(* Properties.                                                             *)
(***************************************************************************)
TypeOK ==
    /\ Len(sent) <= MaxSends /\ \A n \in DOMAIN sent : sent[n] \in Lines
    /\ buf.len \in 0..LineMax + 1 /\ buf.of \subseteq DOMAIN sent /\ buf.cr \in BOOLEAN
    /\ dropping \in BOOLEAN /\ busy \in BOOLEAN /\ missed \in 0..2 /\ changes \in 0..MaxChanges
    /\ \A i \in DOMAIN acks : acks[i].line \in DOMAIN sent /\ acks[i].ok \in BOOLEAN
    /\ Len(queue) <= Depth /\ torn \subseteq DOMAIN sent
    /\ link \in {"down", "pairing", "secure"} /\ shown \in {"down", "pairing", "secure"}

Arrived == {n \in DOMAIN sent : n < Current \/ Idle}
AcksOf(n) == {i \in DOMAIN acks : acks[i].line = n}

\* A command is answered when it has arrived whole, once, whatever came before
\* it on the link: a line that is too long, or no JSON, costs no other line,
\* and one of full length may end with a CR.  The rest is not answered at all.
WholeLinesAreAnswered ==
    \A n \in Arrived :
        IF n \notin torn /\ sent[n].size <= LineMax /\ sent[n].defect # "json"
        THEN \E i \in DOMAIN acks : AcksOf(n) = {i}
        ELSE AcksOf(n) = {}

\* What the host was told is accepted reaches the main loop, once and in the
\* order it was sent, and nothing else does.
Queued == {i \in DOMAIN queue : queue[i].type = "command"}
Accepted == {i \in DOMAIN acks : acks[i].ok /\ sent[acks[i].line].kind # "status"}
AcceptedIsHandled ==
    /\ {handled[i].line : i \in DOMAIN handled} \cup {queue[i].line : i \in Queued} = {acks[i].line : i \in Accepted}
    /\ \A i, j \in DOMAIN handled : i < j => handled[i].line < handled[j].line
    /\ \A i, j \in Queued : i < j => queue[i].line < queue[j].line
    /\ \A i \in DOMAIN handled, j \in Queued : handled[i].line < queue[j].line

\* The main loop shows the link as it is once it has emptied the queue, and has
\* shown it secure when it takes a command that came over it, unless a change
\* of the link found the queue full.
LinkIsShown ==
    /\ queue = << >> /\ missed # 2 => shown = link
    /\ missed = 0 => \A i \in DOMAIN handled : handled[i].during = "secure"
=============================================================================
