----------------------------- MODULE OutputPipeline -----------------------------
(***************************************************************************)
(* The output of one session on its way to the renderer                    *)
(* (src-tauri/src/session/output.rs, output_batcher.rs): the PTY reader    *)
(* hands raw bytes to the pump, the pump looks for bells, batches for 16   *)
(* ms or 64 KB, decodes UTF-8 and emits numbered chunks; the agent's sink  *)
(* sends them on its channel or keeps the newest until somebody attaches.  *)
(***************************************************************************)
EXTENDS Naturals, Sequences, FiniteSets, SequencesExt

CONSTANTS
    Alphabets,   \* sets of bytes, one of which a behaviour's output is made of
    MaxBatch,    \* MAX_BYTES
    BacklogCap,  \* BACKLOG_CAP
    MaxRead,     \* bound: bytes of one read
    MaxBytes,    \* bound: bytes of output
    MaxQueue,    \* bound: reads the pump has not received
    MaxSubs      \* bound: times the output is attached

\* Bytes by what the decoder and the bell detector make of them: the lead and a
\* continuation of a three-byte character, the controls, "[" for all the rest.
Bytes == {"lead", "cont", "bel", "esc", "can", "]", "P", "["}

ConstantsFit ==
    /\ Alphabets \subseteq SUBSET Bytes /\ {} \notin Alphabets
    /\ {MaxBatch, BacklogCap, MaxRead, MaxBytes, MaxQueue} \subseteq Nat \ {0} /\ MaxSubs \in Nat

VARIABLES
    alphabet,  \* the bytes of this behaviour
    msgs,      \* reader -> pump
    eof,       \* the reader has ended
    fed,       \* (history) the bytes the pump has received
    buf,       \* OutputBatcher.buf
    seq,       \* OutputBatcher.seq
    timer,     \* a deadline is set
    bell,      \* BellDetector.state
    rung,      \* (history) the last read and whether it rang
    over,      \* the pump has ended
    text,      \* (history) what all chunks read one after the other
    counted,   \* the sum of their byte counts, which the renderer keeps
    channel,   \* the sink's channel: none, to the page, to a page that is gone
    backlog,   \* OutputSink.backlog
    seen,      \* (history) chunks a page received
    subs,      \* times it was attached
    lost       \* (history) chunks dropped from the backlog or sent to no page

pump == <<buf, seq, timer, bell, rung, over>>
sink == <<channel, backlog, seen, subs, lost>>
emitted == <<text, counted>>
vars == <<alphabet, msgs, eof, fed, pump, emitted, sink>>

\* An adopted session's stream begins with the restored screen.
Init ==
    /\ alphabet \in Alphabets
    /\ msgs \in {<<>>, <<[restore |-> TRUE, bytes |-> <<"[">>]>>}
    /\ eof = FALSE /\ fed = <<>>
    /\ buf = <<>> /\ seq = 0 /\ timer = FALSE /\ bell = "ground"
    /\ rung = [from |-> 1, bell |-> FALSE] /\ over = FALSE
    /\ text = <<>> /\ counted = 0
    /\ channel = "none" /\ backlog = <<>> /\ seen = <<>> /\ subs = 0 /\ lost = {}

-----------------------------------------------------------------------------
(* UTF-8                                                                    *)

\* What starts at s[i]: a character, an error (as many bytes as from_utf8's
\* error_len, one U+FFFD), or a tail that more bytes may complete.
At(s, i) ==
    LET c(k) == k <= Len(s) /\ s[k] = "cont" IN
    CASE s[i] = "cont" -> [is |-> "error", len |-> 1]
      [] s[i] # "lead" -> [is |-> "char", len |-> 1]
      [] c(i + 1) /\ c(i + 2) -> [is |-> "char", len |-> 3]
      [] c(i + 1) /\ i + 1 < Len(s) -> [is |-> "error", len |-> 2]
      [] ~c(i + 1) /\ i < Len(s) -> [is |-> "error", len |-> 1]
      [] OTHER -> [is |-> "tail", len |-> Len(s) - i + 1]

\* The loop of flush_inner: the text and the bytes it consumes.
Decode(s, final) ==
    LET d[i \in 1 .. Len(s) + 1] ==
          IF i > Len(s) THEN [text |-> <<>>, used |-> 0]
          ELSE LET at == At(s, i)
                   rest == d[i + at.len]
               IN IF at.is = "tail" /\ ~final THEN [text |-> <<>>, used |-> 0]
                  ELSE [text |-> <<IF at.is = "char" THEN SubSeq(s, i, i + at.len - 1)
                                                     ELSE <<"FFFD">> >> \o rest.text,
                        used |-> at.len + rest.used]
    IN d[1]

-----------------------------------------------------------------------------
(* The bell                                                                 *)

\* Seeded fault: an escape inside a string does not end it.
BellStepEscStays(d, b) ==
    CASE d.state = "osc" /\ b = "bel" -> [d EXCEPT !.state = "ground"]
      [] d.state \in {"osc", "string"} /\ b = "can" -> [d EXCEPT !.state = "ground"]
      [] d.state \in {"osc", "string"} -> d
      [] b = "bel" -> [d EXCEPT !.bell = TRUE]
      [] b = "esc" -> [d EXCEPT !.state = "escape"]
      [] b = "]" /\ d.state = "escape" -> [d EXCEPT !.state = "osc"]
      [] b = "P" /\ d.state = "escape" -> [d EXCEPT !.state = "string"]
      [] OTHER -> [d EXCEPT !.state = "ground"]

\* BellDetector.feed, byte by byte: the state and whether a bell was seen.
BellStep(d, b) ==
    CASE d.state = "osc" /\ b = "bel" -> [d EXCEPT !.state = "ground"]
      [] d.state \in {"osc", "string"} /\ b = "can" -> [d EXCEPT !.state = "ground"]
      [] d.state \in {"osc", "string"} /\ b # "esc" -> d
      [] b = "bel" -> [d EXCEPT !.bell = TRUE]
      [] b = "esc" -> [d EXCEPT !.state = "escape"]
      [] b = "]" /\ d.state = "escape" -> [d EXCEPT !.state = "osc"]
      [] b = "P" /\ d.state = "escape" -> [d EXCEPT !.state = "string"]
      [] OTHER -> [d EXCEPT !.state = "ground"]

Feed(state, bytes) == FoldLeft(BellStep, [state |-> state, bell |-> FALSE], bytes)

-----------------------------------------------------------------------------
(* The sink                                                                 *)

\* Seeded fault: a full backlog refuses the new chunk.
TakeRefusing(ns) ==
    /\ \/ channel = "page" /\ seen' = seen \o ns /\ UNCHANGED <<backlog, lost>>
       \/ channel = "gone" /\ lost' = lost \cup ToSet(ns) /\ UNCHANGED <<backlog, seen>>
       \/ /\ channel = "none"
          /\ LET room == BacklogCap - Len(backlog)
             IN backlog' = backlog \o SubSeq(ns, 1, IF Len(ns) > room THEN room ELSE Len(ns))
          /\ UNCHANGED <<seen, lost>>
    /\ UNCHANGED <<channel, subs>>

\* OutputSink.emit of the chunks with the numbers ns, one after the other.
Take(ns) ==
    /\ \/ channel = "page" /\ seen' = seen \o ns /\ UNCHANGED <<backlog, lost>>
       \/ channel = "gone" /\ lost' = lost \cup ToSet(ns) /\ UNCHANGED <<backlog, seen>>
       \/ /\ channel = "none"
          /\ LET all == backlog \o ns
                 cut == IF Len(all) > BacklogCap THEN Len(all) - BacklogCap ELSE 0
             IN /\ backlog' = SubSeq(all, cut + 1, Len(all))
                /\ lost' = lost \cup ToSet(SubSeq(all, 1, cut))
          /\ UNCHANGED seen
    /\ UNCHANGED <<channel, subs>>

Emit(chunks) ==
    /\ text' = text \o FlattenSeq([i \in DOMAIN chunks |-> chunks[i].text])
    /\ counted' = counted + FoldLeft(LAMBDA n, c : n + c.bytes, 0, chunks)
    /\ seq' = seq + Len(chunks)
    /\ Take([i \in DOMAIN chunks |-> seq + i - 1])

\* Seeded fault: the new channel is set and the backlog stays for the next one.
AttachOnly ==
    /\ subs < MaxSubs /\ subs' = subs + 1
    /\ channel' = "page"
    /\ UNCHANGED <<alphabet, msgs, eof, fed, pump, emitted, backlog, seen, lost>>

\* attach_output: the backlog goes first, under both locks.
Attach ==
    /\ subs < MaxSubs /\ subs' = subs + 1
    /\ channel' = "page"
    /\ seen' = seen \o backlog /\ backlog' = <<>>
    /\ UNCHANGED <<alphabet, msgs, eof, fed, pump, emitted, lost>>

Detach ==
    /\ channel # "none" /\ channel' = "none"
    /\ UNCHANGED <<alphabet, msgs, eof, fed, pump, emitted, backlog, seen, subs, lost>>

\* The page reloads; sends on its channel fail and are ignored.
PageGone ==
    /\ channel = "page" /\ channel' = "gone"
    /\ UNCHANGED <<alphabet, msgs, eof, fed, pump, emitted, backlog, seen, subs, lost>>

-----------------------------------------------------------------------------
(* The reader and the pump                                                  *)

Data(m) == IF m.restore THEN <<>> ELSE m.bytes
Received == fed \o FlattenSeq([i \in DOMAIN msgs |-> Data(msgs[i])])

Read ==
    /\ ~eof /\ Len(msgs) < MaxQueue
    /\ \E n \in 1 .. MaxRead : \E b \in [1 .. n -> alphabet] :
         /\ Len(Received) + n <= MaxBytes
         /\ msgs' = Append(msgs, [restore |-> FALSE, bytes |-> b])
    /\ UNCHANGED <<alphabet, eof, fed, pump, emitted, sink>>

ReadEof ==
    /\ ~eof /\ eof' = TRUE
    /\ UNCHANGED <<alphabet, msgs, fed, pump, emitted, sink>>

\* What flush_inner emits of b, if anything, and what it leaves.
Flushed(b, final) ==
    LET d == Decode(b, final) IN
    IF d.used = 0 THEN <<>> ELSE <<[text |-> d.text, bytes |-> d.used]>>

\* Seeded fault: what a flush cannot decode yet is given up.
FlushDropsTail(b, final, more) ==
    /\ buf' = <<>>
    /\ Emit(Flushed(b, final) \o more)

Flush(b, final, more) ==
    /\ buf' = SubSeq(b, Decode(b, final).used + 1, Len(b))
    /\ Emit(Flushed(b, final) \o more)

\* Seeded fault: only the first bytes of an empty buffer set the deadline.
PumpDataArmsOnce ==
    /\ msgs # <<>> /\ ~Head(msgs).restore
    /\ LET b == Head(msgs).bytes
           f == Feed(bell, b)
       IN /\ fed' = fed \o b
          /\ bell' = f.state /\ rung' = [from |-> Len(fed) + 1, bell |-> f.bell]
          /\ IF Len(buf \o b) >= MaxBatch
               THEN Flush(buf \o b, FALSE, <<>>) /\ timer' = FALSE
               ELSE /\ buf' = buf \o b /\ timer' = (timer \/ buf = <<>>)
                    /\ UNCHANGED <<seq, emitted, sink>>
    /\ msgs' = Tail(msgs)
    /\ UNCHANGED <<alphabet, eof, over>>

PumpData ==
    /\ msgs # <<>> /\ ~Head(msgs).restore
    /\ LET b == Head(msgs).bytes
           f == Feed(bell, b)
       IN /\ fed' = fed \o b
          /\ bell' = f.state /\ rung' = [from |-> Len(fed) + 1, bell |-> f.bell]
          /\ IF Len(buf \o b) >= MaxBatch
               THEN Flush(buf \o b, FALSE, <<>>) /\ timer' = FALSE
               ELSE /\ buf' = buf \o b /\ timer' = TRUE
                    /\ UNCHANGED <<seq, emitted, sink>>
    /\ msgs' = Tail(msgs)
    /\ UNCHANGED <<alphabet, eof, over>>

\* The restored screen is a chunk of its own, no output and not counted as such.
PumpRestore ==
    /\ msgs # <<>> /\ Head(msgs).restore
    /\ Flush(buf, FALSE, <<[text |-> <<>>, bytes |-> 0]>>)
    /\ msgs' = Tail(msgs) /\ timer' = FALSE
    /\ UNCHANGED <<alphabet, eof, fed, bell, rung, over>>

PumpTimer ==
    /\ timer /\ ~over
    /\ Flush(buf, FALSE, <<>>)
    /\ timer' = FALSE
    /\ UNCHANGED <<alphabet, msgs, eof, fed, bell, rung, over>>

PumpEof ==
    /\ eof /\ msgs = <<>> /\ ~over
    /\ Flush(buf, TRUE, <<>>)
    /\ over' = TRUE /\ timer' = FALSE
    /\ UNCHANGED <<alphabet, msgs, eof, fed, bell, rung>>

Pump == PumpData \/ PumpRestore \/ PumpTimer \/ PumpEof

Next == Read \/ ReadEof \/ Pump \/ Attach \/ Detach \/ PageGone

Spec == Init /\ [][Next]_vars

-----------------------------------------------------------------------------
(* Properties                                                               *)

TypeOK ==
    /\ alphabet \in Alphabets
    /\ \A i \in DOMAIN msgs : msgs[i].restore \in BOOLEAN /\ msgs[i].bytes \in Seq(Bytes)
    /\ {eof, timer, over} \subseteq BOOLEAN
    /\ fed \in Seq(alphabet) /\ buf \in Seq(alphabet) /\ Len(buf) < MaxBatch
    /\ seq \in Nat /\ counted \in 0 .. MaxBytes
    /\ bell \in {"ground", "escape", "osc", "string"}
    /\ subs \in 0 .. MaxSubs
    /\ channel \in {"none", "page", "gone"}
    /\ backlog \in Seq(0 .. seq) /\ Len(backlog) <= BacklogCap
    /\ seen \in Seq(0 .. seq) /\ lost \subseteq 0 .. seq

\* However the output is cut into reads and flushes, its text is that of the whole
\* stream and the chunks' byte counts add up to what was consumed of it; a
\* restored screen counts nothing (the offset a handoff passes to the daemon).
StreamPreserved ==
    /\ text \o Decode(buf, TRUE).text = Decode(fed, TRUE).text
    /\ counted + Len(buf) = Len(fed)

\* No chunk is delivered twice or out of order over any attach and detach, and one
\* that was neither seen nor waits fell off the full backlog or into a dead page.
ChunksOnce ==
    /\ \A i, j \in DOMAIN (seen \o backlog) :
         i < j => (seen \o backlog)[i] < (seen \o backlog)[j]
    /\ 0 .. seq - 1 = ToSet(seen \o backlog) \cup lost
    /\ ToSet(seen \o backlog) \cap lost = {}
    /\ channel = "page" => backlog = <<>>

\* Where a control string (OSC or DCS) is open in s at position i.
InString(s, i) ==
    \E j \in 2 .. i - 1 :
        /\ s[j] \in {"]", "P"}
        /\ \E e \in 1 .. j - 1 : s[e] = "esc" /\ \A k \in e + 1 .. j - 1 : s[k] = "bel"
        /\ \A k \in j + 1 .. i - 1 :
             s[k] \notin (IF s[j] = "]" THEN {"esc", "can", "bel"} ELSE {"esc", "can"})

\* The hub hears of a read exactly when it holds a BEL outside every control
\* string, wherever the strings were cut (BellDetector).
BellsAreLone ==
    rung.bell <=> \E i \in rung.from .. Len(fed) : fed[i] = "bel" /\ ~InString(fed, i)

\* Text that is complete never waits for more output: its deadline is set.
TextHasDeadline == Decode(buf, FALSE).used > 0 => timer
=============================================================================
