------------------------------- MODULE SessionLog -------------------------------
(***************************************************************************)
(* The log of one session (src-tauri/src/session_log): the output pump     *)
(* throws chunks into a bounded queue, a thread of its own runs them       *)
(* through a small terminal (transcript.rs) and appends the lines that can *)
(* no longer change to a file (store.rs), folding repeated ones; a second  *)
(* thread adds the dialogue of the agent's own transcript; gc.rs removes   *)
(* old files.  The setting is on throughout; the terminal is reduced to    *)
(* lines and redraws of one of them.                                       *)
(***************************************************************************)
EXTENDS Naturals, Sequences, FiniteSets, SequencesExt

CONSTANTS
    Texts,        \* what a line may say
    Rows,         \* rows of the screen: a redraw reaches no further up
    LiveRows,     \* live_rows
    QueueCap,     \* QUEUE_CAP
    MaxChunks,    \* bound: chunks of output
    MaxDialogue,  \* bound: lines of the agent's transcript
    MaxRestarts,  \* bound: times the app is restarted and adopts the session
    MaxSweeps     \* bound: sweeps that find too much

ConstantsFit ==
    /\ Rows \in Nat \ {0} /\ LiveRows \in Nat /\ LiveRows >= Rows
    /\ {QueueCap, MaxChunks, MaxDialogue, MaxRestarts, MaxSweeps} \subseteq Nat

VARIABLES
    queue,     \* pump and ingest thread -> log thread
    dropped,   \* chunks the full queue refused, not yet noted
    ended,     \* finish was called: "no", "exited" or "handed"
    ingest,    \* the ingest thread: "on", "told" to stop, "off"
    thread,    \* the log thread: "run" or "over"
    screen,    \* (history) the lines a terminal of any length would hold
    base,      \* (history) those that were there when this app started
    live,      \* TranscriptFilter.pending
    file,      \* entries of the file
    last,      \* SessionLogWriter.last_line, <<>> for None
    repeat,    \* SessionLogWriter.repeat
    age,       \* time since the last write
    linked,    \* the file is still in its directory
    count      \* chunks, dialogue lines, restarts and sweeps so far

writer == <<file, last, repeat, age>>
vars == <<queue, dropped, ended, ingest, thread, screen, base, live, writer,
          linked, count>>

Pty(t)    == [from |-> "pty", text |-> t]
Agent(n)  == [from |-> "agent", text |-> n]
Missed    == [from |-> "missed", text |-> 0]
Line(l)   == [entry |-> "line", line |-> l, n |-> 1]
Times(n)  == [entry |-> "times", line |-> Missed, n |-> n]
Mark(m)   == [entry |-> m, line |-> Missed, n |-> 0]

\* SessionLogWriter.open has written the header.
Init ==
    /\ queue = <<>> /\ dropped = 0 /\ ended = "no"
    /\ ingest = "on" /\ thread = "run"
    /\ screen = <<>> /\ base = 0 /\ live = <<>>
    /\ file = <<Mark("header")>> /\ last = <<>> /\ repeat = 0 /\ age = "now"
    /\ linked = TRUE
    /\ count = [chunks |-> 0, dialogue |-> 0, restarts |-> 0, sweeps |-> 0]

Counted(what) == count' = [count EXCEPT ![what] = @ + 1]

-----------------------------------------------------------------------------
(* The writer                                                               *)

\* Seeded fault: the repetitions are counted without the line itself.
FlushRepeatShort(w) ==
    IF w.repeat = 0 THEN w
    ELSE [file |-> Append(w.file, Times(w.repeat)), last |-> <<>>, repeat |-> 0]

\* flush_repeat.
FlushRepeat(w) ==
    IF w.repeat = 0 THEN w
    ELSE [file |-> Append(w.file, Times(w.repeat + 1)), last |-> <<>>, repeat |-> 0]

\* One line of write_lines.
Fold(w, l) ==
    IF w.last = <<l>> THEN [w EXCEPT !.repeat = @ + 1]
    ELSE [file |-> Append(FlushRepeat(w).file, Line(l)), last |-> <<l>>, repeat |-> 0]

\* write_lines: after a minute's silence a clock comes first.
Written(w, lines) ==
    IF lines = <<>> THEN w
    ELSE FoldLeft(Fold, IF age = "now" THEN w
                        ELSE [FlushRepeat(w) EXCEPT !.file = Append(@, Mark("clock"))],
                  lines)

Writer == [file |-> file, last |-> last, repeat |-> repeat]
WriterBecomes(w) ==
    /\ file' = w.file /\ last' = w.last /\ repeat' = w.repeat
    /\ age' = IF w.file = file THEN age ELSE "now"

-----------------------------------------------------------------------------
(* The log thread                                                           *)

\* A chunk writes a new line or redraws one of the last Rows lines.
Redrawn(lines, c) ==
    IF c.up = 0 THEN Append(lines, Pty(c.text))
    ELSE [lines EXCEPT ![Len(lines) - c.up + 1] = Pty(c.text)]

\* feed, then flush_idle or drain_overflow: all but the last keep lines are final.
Final(lines, keep) == SubSeq(lines, 1, IF Len(lines) > keep THEN Len(lines) - keep ELSE 0)
Kept(lines, keep)  == SubSeq(lines, Len(Final(lines, keep)) + 1, Len(lines))

Receive(what) ==
    /\ thread = "run" /\ queue # <<>> /\ Head(queue).is = what
    /\ queue' = Tail(queue)

OnData ==
    /\ Receive("data")
    /\ LET c == Head(queue).chunk
           lines == Redrawn(live, c)
           noted == IF dropped = 0 THEN Writer ELSE Written(Writer, <<Missed>>)
       IN /\ live' = Kept(lines, LiveRows)
          /\ WriterBecomes(Written(noted, Final(lines, LiveRows)))
          /\ screen' = Redrawn(screen, c)
    /\ dropped' = 0
    /\ UNCHANGED <<ended, ingest, thread, base, linked, count>>

\* Dialogue: what left the live region first, then the lines.
OnLines ==
    /\ Receive("lines")
    /\ WriterBecomes(Written(Writer, Append(Final(live, Rows), Head(queue).line)))
    /\ live' = Kept(live, Rows)
    /\ UNCHANGED <<dropped, ended, ingest, thread, screen, base, linked, count>>

\* Three seconds without data.
Idle ==
    /\ thread = "run" /\ queue = <<>> /\ Len(live) > Rows
    /\ WriterBecomes(Written(Writer, Final(live, Rows)))
    /\ live' = Kept(live, Rows)
    /\ UNCHANGED <<queue, dropped, ended, ingest, thread, screen, base, linked, count>>

\* Seeded fault: at the end only what left the screen is written.
CloseIdle ==
    LET w == FlushRepeat(Written(Writer, Final(live, Rows))) IN
    /\ WriterBecomes([w EXCEPT !.file = Append(@, Mark("end"))])
    /\ live' = <<>> /\ thread' = "over"

\* flush_all and finish.
Close ==
    LET w == FlushRepeat(Written(Writer, live)) IN
    /\ WriterBecomes([w EXCEPT !.file = Append(@, Mark("end"))])
    /\ live' = <<>> /\ thread' = "over"

OnEof ==
    /\ Receive("eof") /\ Close
    /\ UNCHANGED <<dropped, ended, ingest, screen, base, linked, count>>

\* The channel is closed once the session and the ingest thread let go of it.
OnDisconnect ==
    /\ thread = "run" /\ queue = <<>> /\ ended # "no" /\ ingest = "off"
    /\ Close
    /\ UNCHANGED <<queue, dropped, ended, ingest, screen, base, linked, count>>

-----------------------------------------------------------------------------
(* Its callers                                                              *)

\* data: never blocks.
Data ==
    /\ ended = "no" /\ count.chunks < MaxChunks
    /\ \E t \in Texts, up \in 0 .. Rows :
         LET waiting == SelectSeq(queue, LAMBDA m : m.is = "data")
             due == FoldLeft(LAMBDA s, m : Redrawn(s, m.chunk), screen, waiting)
             c == [text |-> t, up |-> up]
         IN /\ up <= Len(due) - base
            /\ IF Len(queue) < QueueCap
                 THEN queue' = Append(queue, [is |-> "data", chunk |-> c]) /\ UNCHANGED dropped
                 ELSE dropped' = dropped + 1 /\ UNCHANGED queue
    /\ Counted("chunks")
    /\ UNCHANGED <<ended, ingest, thread, screen, base, live, writer, linked>>

\* The ingest thread between two looks at its stop flag; a full queue refuses the
\* lines, and nobody notes it.
Ingest ==
    /\ ingest = "on" /\ count.dialogue < MaxDialogue
    /\ queue' = IF thread = "run" /\ Len(queue) < QueueCap
                  THEN Append(queue, [is |-> "lines", line |-> Agent(count.dialogue)])
                  ELSE queue
    /\ Counted("dialogue")
    /\ UNCHANGED <<dropped, ended, ingest, thread, screen, base, live, writer, linked>>

IngestStops ==
    /\ ingest = "told" /\ ingest' = "off"
    /\ UNCHANGED <<queue, dropped, ended, thread, screen, base, live, writer, linked, count>>
\* The output is over: the program has exited, or the session is handed over and its
\* reader was interrupted.
Ends(how) ==
    /\ ended = "no" /\ ended' = how
    /\ queue' = IF Len(queue) < QueueCap THEN Append(queue, [is |-> "eof"]) ELSE queue
    /\ UNCHANGED <<dropped, thread, screen, base, live, writer, linked, count>>

CanHandOver == count.restarts < MaxRestarts

\* Seeded fault: the ingest thread is not told.
FinishKeepsIngest ==
    /\ Ends("exited") \/ (CanHandOver /\ Ends("handed"))
    /\ UNCHANGED ingest

\* finish, and the handle dropped with its session.
Finish ==
    /\ Ends("exited") \/ (CanHandOver /\ Ends("handed"))
    /\ ingest' = "told"

\* What a reader of the file makes of it: folded lines unfolded.
Unfold(acc, e) ==
    CASE e.entry = "line"  -> Append(acc, e.line)
      [] e.entry = "times" -> acc \o [i \in 1 .. e.n - 1 |-> Last(acc)]
      [] OTHER -> acc
Unfolded(entries) == FoldLeft(Unfold, <<>>, entries)
PtyLines(lines) == SelectSeq(lines, LAMBDA l : l.from = "pty")

\* The app is gone, and what the log thread had not written with it; the next one
\* adopts the session: open finds its file and appends, or starts a new one.
Restart ==
    /\ ended = "handed"
    /\ file' = IF linked THEN Append(file, Mark("continued")) ELSE <<Mark("header")>>
    /\ last' = <<>> /\ repeat' = 0 /\ age' = "now" /\ linked' = TRUE
    /\ queue' = <<>> /\ dropped' = 0 /\ live' = <<>> /\ ingest' = "on"
    /\ ended' = "no" /\ thread' = "run"
    /\ screen' = IF thread = "over" /\ linked THEN screen ELSE PtyLines(Unfolded(file'))
    /\ base' = Len(screen')
    /\ Counted("restarts")

\* A minute, five minutes and more after the last write.
TimePasses ==
    /\ age # "quiet"
    /\ age' = IF age = "now" THEN "minute" ELSE "quiet"
    /\ UNCHANGED <<queue, dropped, ended, ingest, thread, screen, base, live, file,
                   last, repeat, linked, count>>

\* sweep: a file of thirty days, or, when all are too many, one nobody has written
\* for five minutes.
Sweep ==
    /\ linked /\ count.sweeps < MaxSweeps /\ age = "quiet"
    /\ linked' = FALSE
    /\ Counted("sweeps")
    /\ UNCHANGED <<queue, dropped, ended, ingest, thread, screen, base, live, writer>>

Thread == OnData \/ OnLines \/ Idle \/ OnEof \/ OnDisconnect

Next == Thread \/ Data \/ Ingest \/ IngestStops \/ Finish \/ Restart
        \/ TimePasses \/ Sweep

Spec == Init /\ [][Next]_vars

\* Both threads run, and the ingest thread looks at its flag every two seconds.
FairSpec == Spec /\ WF_vars(Thread) /\ WF_vars(IngestStops)

-----------------------------------------------------------------------------
(* Properties                                                               *)

TypeOK ==
    /\ linked \in BOOLEAN /\ ended \in {"no", "exited", "handed"}
    /\ Len(queue) <= QueueCap /\ dropped \in 0 .. MaxChunks
    /\ ingest \in {"on", "told", "off"} /\ thread \in {"run", "over"}
    /\ Len(live) <= LiveRows /\ repeat \in Nat
    /\ age \in {"now", "minute", "quiet"}
    /\ repeat > 0 => last # <<>>

\* The file, unfolded and followed by what is still live, is what the terminal
\* showed: no line is lost, doubled or reordered by folding, redraws, dialogue,
\* clocks or the end of the session, and no redraw misses a line because that
\* line was written too early (flush_idle keeps a screen for this).
LogIsTheScreen ==
    LET pending == [i \in 1 .. repeat |-> Last(last)] IN
    PtyLines(Unfolded(file) \o pending) \o live = screen

\* Once the session is over its log is closed, also when the full queue refused
\* the end mark (or its app is replaced).
LogCloses == []<>(ended = "no" \/ thread = "over")

\* Dialogue is written after the output that came before it (the log thread's
\* comment: the live region is settled first, or the order is turned round).
DialogueInOrder ==
    [][ \A e \in {file'[i] : i \in Len(file) + 1 .. Len(file')} :
          e.entry = "line" /\ e.line.from = "agent" => live' = <<>> ]_file

\* The file of a session that is being recorded is not removed (gc.rs,
\* ACTIVE_GRACE: a protection against a writer that writes into nowhere).
LiveLogStays == thread = "run" => linked
=============================================================================
