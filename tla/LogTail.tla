------------------------------- MODULE LogTail -------------------------------
(* skyperf-core/src/tail.rs: last_n_lines, and follow, which polls a log file  *)
(* and reports each line once it is complete, while the file is appended to,   *)
(* rotated and removed by others.                                              *)
EXTENDS Text

CONSTANTS
    Writes,         \* what is appended to the file at a time
    MaxLen,         \* bound on the length of the file
    MaxRotations    \* bound on how often it is rotated

ASSUME WritesAssumption == Writes \subseteq Seq(Nat)

VARIABLES
    file,       \* the bytes in the file
    exists,
    pos,        \* follow: the position up to which lines were reported
    step,       \* follow: "poll", "read" once growth was seen, or "done"
    reported,   \* the lines of this file that were passed to on_line
    from,       \* history: where in this file follow began
    rotations,
    unseen,     \* history: the file was rotated and follow has not noticed
    outgrown    \* history: before follow noticed, the file grew past pos

tailVars == <<file, exists, pos, step, reported, from, rotations, unseen, outgrown>>

\* How many bytes of s are complete lines.
Complete(s) == Max({0} \cup {i \in DOMAIN s : s[i] = LF})

\* The lines of s, an unterminated last one included as it is.
AllLines(s) ==
    LinesOf(s) \o IF Complete(s) = Len(s) THEN <<>> ELSE <<Drop(s, Complete(s))>>

\* Mutant: the window is trimmed only once it is over-full.
SlideOver(window, line, n) ==
    LET room == IF Len(window) > n THEN Tail(window) ELSE window
    IN  IF n > 0 THEN Append(room, line) ELSE room

Slide(window, line, n) ==
    LET room == IF Len(window) = n /\ n > 0 THEN Tail(window) ELSE window
    IN  IF n > 0 THEN Append(room, line) ELSE room

\* A window of n lines moves over all of them.
last_n_lines(s, n) ==
    LET all == AllLines(s)
        window[k \in 0..Len(all)] ==
            IF k = 0 THEN <<>> ELSE Slide(window[k - 1], all[k], n)
    IN  window[Len(all)]

TailInit ==
    /\ file \in {<<>>} \cup Writes
    /\ exists = TRUE
    /\ pos = Len(file) /\ from = Len(file)
    /\ step = "poll"
    /\ reported = <<>>
    /\ rotations = 0 /\ unseen = FALSE /\ outgrown = FALSE

\* Mutant: a file that got shorter is not started over.
PollKeepingPos ==
    /\ step = "poll" /\ exists
    /\ step' = IF Len(file) <= pos THEN "poll" ELSE "read"
    /\ UNCHANGED <<file, exists, pos, reported, from, rotations, unseen, outgrown>>

\* The file is looked at: it has grown, or it is shorter and is started over.
Poll ==
    LET at == IF Len(file) < pos THEN 0 ELSE pos IN
    /\ step = "poll" /\ exists
    /\ pos' = at
    /\ unseen' = (unseen /\ Len(file) >= pos)
    /\ step' = IF Len(file) = at THEN "poll" ELSE "read"
    /\ UNCHANGED <<file, exists, reported, from, rotations, outgrown>>

\* The stop flag is set, or the file has gone.
PollEnds ==
    /\ step = "poll"
    /\ step' = "done"
    /\ UNCHANGED <<file, exists, pos, reported, from, rotations, unseen, outgrown>>

\* Mutant: the incomplete last line is skipped instead of left for later.
ReadSkipping ==
    LET rest == Drop(file, pos) IN
    /\ step = "read" /\ exists
    /\ pos' = pos + Len(rest)
    /\ reported' = reported \o LinesOf(rest)
    /\ step' = "poll"
    /\ UNCHANGED <<file, exists, from, rotations, unseen, outgrown>>

\* The complete lines from pos on are reported.
Read ==
    LET rest == Drop(file, pos) IN
    /\ step = "read" /\ exists
    /\ pos' = pos + Complete(rest)
    /\ reported' = reported \o LinesOf(rest)
    /\ step' = "poll"
    /\ UNCHANGED <<file, exists, from, rotations, unseen, outgrown>>

\* The file went after it was looked at: opening it is an error.
ReadFails ==
    /\ step = "read" /\ ~exists
    /\ step' = "done"
    /\ UNCHANGED <<file, exists, pos, reported, from, rotations, unseen, outgrown>>

Write(w) ==
    /\ exists /\ Len(file) + Len(w) <= MaxLen
    /\ file' = file \o w
    /\ outgrown' = (outgrown \/ (unseen /\ Len(file') >= pos))
    /\ UNCHANGED <<exists, pos, step, reported, from, rotations, unseen>>

\* Log rotation: the file is emptied, or replaced by an empty one.
Rotate ==
    /\ exists /\ rotations < MaxRotations
    /\ rotations' = rotations + 1
    /\ file' = <<>> /\ reported' = <<>> /\ from' = 0
    /\ unseen' = (pos > 0)
    /\ UNCHANGED <<exists, pos, step, outgrown>>

RemoveFile ==
    /\ exists /\ exists' = FALSE
    /\ UNCHANGED <<file, pos, step, reported, from, rotations, unseen, outgrown>>

TailNext == Poll \/ PollEnds \/ Read \/ ReadFails \/ (\E w \in Writes : Write(w)) \/ Rotate \/ RemoveFile

\* The polling thread keeps running.
TailFairness == WF_tailVars(Poll) /\ WF_tailVars(Read)

TailSpec == TailInit /\ [][TailNext]_tailVars /\ TailFairness

-----------------------------------------------------------------------------
\* Properties

\* Every line completed in the file since follow began, or since the file was
\* rotated, is reported once, whole and in order, however writes are cut and
\* wherever between a look and a read they fall; unless the file had outgrown
\* the old position before a poll could see that it had been rotated.
FollowsExactly ==
    ~outgrown => reported = (IF unseen THEN <<>> ELSE LinesOf(SubSeq(file, from + 1, pos)))

Unreported == \E i \in DOMAIN file : (unseen \/ i > pos) /\ file[i] = LF

\* A complete line is reported eventually, as long as the file is there and
\* follow is not stopped.
LinesAreReported ==
    Unreported /\ rotations = MaxRotations ~> ~Unreported \/ ~exists \/ step = "done" \/ outgrown

\* last_n_lines returns the last n lines, or all if there are fewer.
LastLinesAreLast ==
    \A n \in 0..2 :
        LET all == AllLines(file)
        IN  last_n_lines(file, n) = SubSeq(all, Max({1, Len(all) - n + 1}), Len(all))
=============================================================================
