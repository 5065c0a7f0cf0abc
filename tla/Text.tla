-------------------------------- MODULE Text --------------------------------
(* Bytes as numbers, and what it means for bytes to be lines: the reference  *)
(* the readers of streams and log files are checked against.                 *)
EXTENDS Integers, Sequences, FiniteSetsExt

LF == 10
CR == 13

Drop(s, n) == SubSeq(s, n + 1, Len(s))

\* Where the pattern first starts in s, counting from 0, and -1 if nowhere.
Find(s, pattern) ==
    LET hits == {i \in 0..(Len(s) - Len(pattern)) :
                    SubSeq(s, i + 1, i + Len(pattern)) = pattern}
    IN  IF hits = {} THEN -1 ELSE Min(hits)

StripCr(line) ==
    IF line # <<>> /\ line[Len(line)] = CR THEN SubSeq(line, 1, Len(line) - 1) ELSE line

\* s is read a byte further: the lines there are so far, and where the next one
\* begins.  A line is what is between two line feeds, less a carriage return.
NextByte(read, s, n) ==
    IF s[n] = LF
    THEN [lines |-> Append(read.lines, StripCr(SubSeq(s, read.next, n - 1))), next |-> n + 1]
    ELSE read

Reading(s) ==
    LET read[n \in 0..Len(s)] ==
            IF n = 0 THEN [lines |-> <<>>, next |-> 1] ELSE NextByte(read[n - 1], s, n)
    IN  read

\* The lines of s.  What follows the last line feed is no line.
LinesOf(s) == Reading(s)[Len(s)].lines
=============================================================================
