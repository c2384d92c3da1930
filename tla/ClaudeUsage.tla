------------------------------ MODULE ClaudeUsage ------------------------------
(***************************************************************************)
(* Token usage of a Claude session (observer/claude.rs, observer/event.rs).*)
(* The session writes a main transcript and one per subagent.  A Stop hook *)
(* and, throttled, a PostToolUse hook scan them backwards: up to the       *)
(* message counted last, or, when none is remembered, up to the last       *)
(* prompt.  Hooks run on several threads and overlap; each file has a lock *)
(* that is held from the comparison of its length to the new watermark.    *)
(*                                                                         *)
(* A line is a prompt or one block of a response; the blocks of a response *)
(* repeat its usage.  Transcripts only grow.                               *)
(***************************************************************************)
EXTENDS Naturals, FiniteSets, Sequences, SequencesExt

CONSTANTS
    Main, Subs,    \* the transcripts
    Hooks,         \* hook handlers that may run at the same time
    TailLines,     \* lines of TRANSCRIPT_USAGE_TAIL_BYTES
    MaxLines,      \* bound: lines of all transcripts together
    MaxIds,        \* bound: responses
    MaxRestarts    \* bound: restarts of the app while the session lives on

Files == {Main} \cup Subs
ConstantsFit ==
    /\ Main \notin Subs /\ IsFiniteSet(Subs)
    /\ {TailLines, MaxLines} \subseteq Nat \ {0} /\ {MaxIds, MaxRestarts} \subseteq Nat

PromptLine == 0    \* a real prompt, or a task-notification that looks like one
Ids == 1..MaxIds
None == MaxIds + 1

VARIABLES
    file,      \* transcript -> its lines: PromptLine or the id of a response
    torn,      \* transcripts whose last line is not written to its end
    ids,       \* responses so far
    turn,      \* (history) response -> prompts in the main transcript by then
    mark,      \* transcript -> scanned_len and message_id
    from,      \* (history) transcript -> the first line its first scan counted, or 0
    counted,   \* (history) response -> how often this run of the app counted it
    earlier,   \* (history) ... and the runs before
    hook,      \* handler -> the files it has still to read, and the length it saw
    restarts

written == <<file, torn, ids, turn>>
vars == <<written, mark, from, counted, earlier, hook, restarts>>

NoMark == [len |-> 0, id |-> None]
Done   == [pc |-> "idle", todo |-> <<>>, len |-> 0]

Init ==
    /\ file = [f \in Files |-> <<>>] /\ torn = {} /\ ids = 0
    /\ turn = [i \in Ids |-> 0]
    /\ mark = [f \in Files |-> NoMark] /\ from = [f \in Files |-> 0]
    /\ counted = [i \in Ids |-> 0] /\ earlier = counted
    /\ hook = [h \in Hooks |-> Done] /\ restarts = 0

\* Two units a line, so that a torn line has a length of its own.
Length(f) == 2 * Len(file[f]) - Cardinality({f} \cap torn)

-----------------------------------------------------------------------------
(* The transcripts grow (external: claude)                                  *)

Prompts == Len(SelectSeq(file[Main], LAMBDA l : l = PromptLine))
\* The bound on all lines is one on each file's.
Extend(f, line) ==
    /\ f \notin torn /\ Len(file[f]) < MaxLines
    /\ FoldFunction(LAMBDA lines, n : Len(lines) + n, 0, file) < MaxLines
    /\ file' = [file EXCEPT ![f] = Append(@, line)]
    /\ torn' \in {torn, torn \cup {f}}

WritePrompt ==
    /\ Extend(Main, PromptLine)
    /\ UNCHANGED <<ids, turn, mark, from, counted, earlier, hook, restarts>>

WriteReply(f) ==
    /\ Prompts > 0 /\ ids < MaxIds /\ Extend(f, ids + 1)
    /\ ids' = ids + 1 /\ turn' = [turn EXCEPT ![ids + 1] = Prompts]
    /\ UNCHANGED <<mark, from, counted, earlier, hook, restarts>>

\* One more block of the response that was written last.
WriteBlock(f) ==
    /\ file[f] # <<>> /\ Last(file[f]) # PromptLine /\ Extend(f, Last(file[f]))
    /\ UNCHANGED <<ids, turn, mark, from, counted, earlier, hook, restarts>>

Complete(f) ==
    /\ f \in torn /\ torn' = torn \ {f}
    /\ UNCHANGED <<file, ids, turn, mark, from, counted, earlier, hook, restarts>>

-----------------------------------------------------------------------------
(* Hooks                                                                    *)

\* The lines a scan can parse, by position.
Readable(f) ==
    LET n == Len(file[f]) IN
    {i \in 1..n : i + TailLines > n /\ ~(i = n /\ f \in torn)}

Highest(S) == CHOOSE i \in S : \A j \in S : j <= i

\* Seeded fault: the scan goes past a line of the message counted last.
ScanFromAtMark(f) ==
    LET lines == Readable(f)
        known == {i \in lines : mark[f].id # None /\ file[f][i] = mark[f].id}
        prompts == {i \in lines : file[f][i] = PromptLine}
    IN IF known # {} THEN Highest(known)
       ELSE IF prompts # {} THEN Highest(prompts) + 1 ELSE 1

\* Seeded fault: every scan ends at a prompt.
ScanFromPrompt(f) ==
    LET lines == Readable(f)
        stops == {i \in lines : file[f][i] \in {mark[f].id, PromptLine}}
    IN IF stops # {} THEN Highest(stops) + 1 ELSE 1

\* sum_claude_turn_usage: the first line that counts.  A watermark beyond the tail, or
\* none, leaves the last prompt as the boundary, or nothing.
ScanFrom(f) ==
    LET lines == Readable(f)
        known == {i \in lines : mark[f].id # None /\ file[f][i] = mark[f].id}
        prompts == {i \in lines : file[f][i] = PromptLine}
    IN IF known # {} THEN Highest(known) + 1
       ELSE IF prompts # {} THEN Highest(prompts) + 1 ELSE 1

\* A Stop or a PostToolUse that is due: the main transcript, then the subagents'.
Hook(h) ==
    /\ hook[h].pc = "idle" /\ file[Main] # <<>>
    /\ hook' = [hook EXCEPT ![h] = [Done EXCEPT !.pc = "stat", !.todo = <<Main>>]]
    /\ UNCHANGED <<written, mark, from, counted, earlier, restarts>>

\* usage_for_path, before the lock: how long the file is.
Stat(h) ==
    /\ hook[h].pc = "stat"
    /\ hook' = [hook EXCEPT ![h].pc = "scan", ![h].len = Length(Head(hook[h].todo))]
    /\ UNCHANGED <<written, mark, from, counted, earlier, restarts>>

Fresh(f) == {file[f][i] : i \in {j \in Readable(f) : j >= ScanFrom(f)}} \ {PromptLine}

\* The subagent transcripts are listed once the main one is counted.
Following(h) ==
    LET todo == IF Head(hook[h].todo) = Main
                THEN SetToSeq({s \in Subs : file[s] # <<>>}) ELSE Tail(hook[h].todo)
    IN IF todo = <<>> THEN Done ELSE [pc |-> "stat", todo |-> todo, len |-> 0]

\* usage_for_path, under the lock of the file: a length that is the one of the last
\* scan ends it; a scan that counts nothing keeps the message.
Scan(h) ==
    /\ hook[h].pc = "scan"
    /\ LET f   == Head(hook[h].todo)
           new == Fresh(f)
       IN IF mark[f].len = hook[h].len
            THEN UNCHANGED <<mark, from, counted>>
            ELSE /\ mark' = [mark EXCEPT ![f] =
                       [len |-> hook[h].len,
                        id |-> IF new = {} THEN mark[f].id ELSE Highest(new)]]
                 /\ from' = [from EXCEPT ![f] =
                       IF from[f] = 0 /\ new # {} THEN ScanFrom(f) ELSE from[f]]
                 /\ counted' = [i \in Ids |-> counted[i] + Cardinality({i} \cap new)]
    /\ hook' = [hook EXCEPT ![h] = Following(h)]
    /\ UNCHANGED <<written, earlier, restarts>>

\* The app restarts and adopts the session; the watermarks were in memory.
Restart ==
    /\ restarts < MaxRestarts /\ restarts' = restarts + 1
    /\ mark' = [f \in Files |-> NoMark] /\ from' = [f \in Files |-> 0]
    /\ hook' = [h \in Hooks |-> Done]
    /\ earlier' = [i \in Ids |-> earlier[i] + counted[i]]
    /\ counted' = [i \in Ids |-> 0]
    /\ UNCHANGED written

Writes == WritePrompt \/ \E f \in Files : WriteReply(f) \/ WriteBlock(f) \/ Complete(f)
Next ==
    \/ Writes \/ Restart
    \/ \E h \in Hooks : Hook(h) \/ Stat(h) \/ Scan(h)

Spec == Init /\ [][Next]_vars

-----------------------------------------------------------------------------
TypeOK ==
    /\ file \in [Files -> BoundedSeq(Ids \cup {PromptLine}, MaxLines)]
    /\ torn \subseteq Files /\ ids \in 0..MaxIds
    /\ \A f \in Files : mark[f].id \in Ids \cup {None} /\ mark[f].len <= Length(f)
    /\ \A h \in Hooks : hook[h].pc \in {"idle", "stat", "scan"}

\* While the app runs no response is counted twice: not by two hooks that overlap, not
\* for its second block, not because a Stop came twice.
NeverTwice == \A i \in Ids : counted[i] <= 1

\* A transcript whose length is the one scanned last has nothing uncounted behind the
\* first line that was: neither what was torn then, nor what was written while it was
\* read, nor what lies before a prompt (with the watermark within the tail).
NoneMissed ==
    \A f \in Files : from[f] > 0 /\ mark[f].len = Length(f) =>
        \A n \in from[f]..Len(file[f]) :
            file[f][n] # PromptLine /\ ~(f \in torn /\ n = Len(file[f]))
                => counted[file[f][n]] > 0

\* After a restart at most one turn is counted again (event.rs).
RecountIsOneTurn ==
    \A i, j \in {k \in Ids : earlier[k] > 0 /\ counted[k] > 0} : turn[i] = turn[j]
=============================================================================
