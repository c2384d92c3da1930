------------------------------- MODULE MCTerminal -------------------------------
(***************************************************************************)
(* TLC instances of what goes into a terminal, what comes out of it, what  *)
(* is written down of it, and how it moves from one app to the next, in    *)
(* one run.  A behaviour is one of these:                                  *)
(*   typing    a person, a strict and a plain producer at one gate         *)
(*   disposal  two strict producers, while sessions and gates are replaced *)
(*   bytes     reads of any bytes that are cut anywhere, nobody attached   *)
(*   sink      reads, attached to and detached from                        *)
(*   log       the session's log                                           *)
(*   stream    its output over two handoffs, opened and unopened           *)
(* The other machines stay where they begin.                               *)
(***************************************************************************)
EXTENDS InjectGate, Sequences

CONSTANTS
    s1, s2, p1, p2, none, nobody,
    \* Of OutputPipeline, attached to and detached from, and of HandoffStream.
    Alphabets, MaxBatch, BacklogCap, MaxRead, MaxBytes, MaxQueue, MaxSubs,
    Mounted, InTime, RingCap, MaxOut, MaxTrips

VARIABLES
    part,
    alphabet, msgs, eof, fed, buf, seq, timer, bell, rung, over, text, counted, channel,
    backlog, seen, subs, lost,
    queue, dropped, ended, ingest, thread, screen, base, live, file, last, repeat, age,
    linked, count,
    out, tty, mounted, phase, trips, reader, halt, shown, snap, taker, dhalt, ring, hand,
    edge, whole

Disposal ==
    INSTANCE InjectGate WITH Strict <- {p1, p2}, Plain <- {}, MaxGates <- 2, MaxTyped <- 0

Cut ==
    INSTANCE OutputPipeline WITH
        Alphabets <- {{"lead", "cont", "["}, {"bel", "esc", "]"}, {"["}},
        MaxBatch <- 4, BacklogCap <- 1, MaxRead <- 2, MaxBytes <- 4, MaxQueue <- 1,
        MaxSubs <- 0
Sink == INSTANCE OutputPipeline

Log ==
    INSTANCE SessionLog WITH Texts <- {1, 2}, Rows <- 1, LiveRows <- 2, QueueCap <- 2,
        MaxChunks <- 2, MaxDialogue <- 1, MaxRestarts <- 1, MaxSweeps <- 1

Moved == INSTANCE HandoffStream WITH app <- reader, screen <- shown, daemon <- taker

ASSUME InstancesFit ==
    Cut!ConstantsFit /\ Sink!ConstantsFit /\ Log!ConstantsFit /\ Moved!ConstantsFit

output == <<alphabet, msgs, eof, fed, buf, seq, timer, bell, rung, over, text, counted,
            channel, backlog, seen, subs, lost>>
log == <<queue, dropped, ended, ingest, thread, screen, base, live, file, last, repeat, age,
         linked, count>>
moved == <<out, tty, mounted, phase, trips, reader, halt, shown, snap, taker, dhalt, ring,
           hand, edge, whole>>
allVars == <<part, vars, output, log, moved>>

Typing == part = "typing"
MCInit ==
    /\ part \in {"typing", "disposal", "bytes", "sink", "log", "stream"}
    /\ IF part = "disposal" THEN Disposal!Init ELSE Init
    /\ IF part = "bytes" THEN Cut!Init ELSE Sink!Init
    /\ Log!Init /\ Moved!Init
    /\ part # "stream" => ~mounted
    /\ part \notin {"bytes", "sink"} => msgs = <<>>

MCNext ==
    /\ UNCHANGED part
    /\ \/ Typing /\ Next /\ UNCHANGED <<output, log, moved>>
       \/ part = "disposal" /\ Disposal!Next /\ UNCHANGED <<output, log, moved>>
       \/ part = "bytes" /\ Cut!Next /\ UNCHANGED <<vars, log, moved>>
       \/ part = "sink" /\ Sink!Next /\ UNCHANGED <<vars, log, moved>>
       \/ part = "log" /\ Log!Next /\ UNCHANGED <<vars, output, moved>>
       \/ part = "stream" /\ Moved!Next /\ UNCHANGED <<vars, output, log>>

\* The fairness of InjectGate, for the typing, and of SessionLog.
MCSpec ==
    /\ MCInit /\ [][MCNext]_allVars
    /\ \A p \in Producers : WF_vars(Typing /\ Ends(p))
    /\ WF_vars(Typing /\ TypeEnd)
    /\ WF_log(part = "log" /\ Log!Thread) /\ WF_log(part = "log" /\ Log!IngestStops)

-----------------------------------------------------------------------------
\* The types of the machines (InjectGate, OutputPipeline, SessionLog,
\* HandoffStream); in particular no two readers share a terminal (poll_reader.rs).
TerminalTypes ==
    CASE part = "typing" -> TypeOK
      [] part = "disposal" -> Disposal!TypeOK
      [] part = "bytes" -> Cut!TypeOK
      [] part = "sink" -> Sink!TypeOK
      [] part = "log" -> Log!TypeOK
      [] part = "stream" -> Moved!TypeOK /\ Moved!OneReader

\* However the output is cut into reads and flushes, its text and its count are those of
\* the whole, and complete text has a deadline (OutputPipeline, output_batcher.rs).
StreamPreserved == part = "bytes" => Cut!StreamPreserved /\ Cut!TextHasDeadline

\* No chunk is delivered twice or out of order over any attach and detach
\* (OutputPipeline, output.rs).
ChunksOnce == part = "sink" => Sink!ChunksOnce

\* A BEL rings exactly outside control strings, wherever they were cut (OutputPipeline,
\* BellDetector).
BellsAreLone == part = "bytes" => Cut!BellsAreLone

\* The log unfolded is what the terminal showed (SessionLog, session_log/).
LogIsTheScreen == part = "log" => Log!LogIsTheScreen

\* When a session is over its log is closed (SessionLog, session_log/mod.rs).
LogCloses == Log!LogCloses

\* An adopted terminal goes on with one unbroken run of output, whatever the ring
\* dropped (HandoffStream).
TailContiguous == part = "stream" => Moved!TailContiguous

\* A terminal nobody opened loses nothing of its output (HandoffStream).
NothingLost == part = "stream" => Moved!NothingLost
=============================================================================
