-------------------------------- MODULE Wire --------------------------------
(* What comes back over the Engine's socket (daemon/src/runtime/docker.rs and *)
(* demux.rs): the one-shot response DockerRuntime::request reads to its end,  *)
(* parses and dechunks, here that of an image pull; and the attached stream,  *)
(* whose head attach reads and whose frames pump_output splits into lines.    *)
(* The bytes arrive in pieces of any size, and the connection can close after *)
(* any of them.                                                               *)
(*                                                                            *)
(* Numbers keep their encoding with smaller digits: a chunk size is written   *)
(* in base Radix (16 in the code), a frame header is the stream type and a    *)
(* two-digit size, most significant digit first (8 bytes in the code).  The   *)
(* head of a response, which httparse reads, is the status, a byte for        *)
(* Transfer-Encoding: chunked if it is set, and an empty line.                *)
EXTENDS Text, SequencesExt

CONSTANTS
    Radix,
    Scripts     \* what the Engine may send: [kind, status, chunks, frames]

STREAM_STDOUT == 1
STREAM_STDERR == 2
HeaderLen == 3
Crlf == <<CR, LF>>
ChunkedHeader == 84
Zero == 48                  \* the digit 0
ErrorObject == <<101, 111>> \* a line of a pull's progress that reports an error

VARIABLES
    script,     \* what the Engine sends on this connection
    left,       \* the bytes that have still to arrive
    buf,        \* bytes read and not yet used
    phase,      \* "head" and "pump" of an attach, "body" of a request, then
                \* "closed", "ok" or "failed"
    partial,    \* LineSplitter: the line that is not complete yet
    out         \* the lines sent to the console's receiver

wireVars == <<script, left, buf, phase, partial, out>>

-----------------------------------------------------------------------------
\* What the Engine sends.

Digits(n) == IF n < Radix THEN <<Zero + n>> ELSE <<Zero + (n \div Radix), Zero + (n % Radix)>>
Chunk(c) == Digits(Len(c)) \o Crlf \o c \o Crlf
Frame(f) == <<f.type, Len(f.payload) \div Radix, Len(f.payload) % Radix>> \o f.payload
ResponseHead(s) == <<s.status>> \o (IF s.kind = "pull" THEN <<ChunkedHeader>> ELSE <<>>) \o Crlf \o Crlf

Bytes(s) ==
    ResponseHead(s) \o IF s.kind = "pull"
               THEN FlattenSeq([i \in DOMAIN s.chunks |-> Chunk(s.chunks[i])]) \o <<Zero>> \o Crlf \o Crlf
               ELSE FlattenSeq([i \in DOMAIN s.frames |-> Frame(s.frames[i])])

-----------------------------------------------------------------------------
\* Responses

Failed == [ok |-> FALSE, body |-> <<>>]

\* usize::from_str_radix; the Engine adds no extensions to the size.
ChunkSize(line) ==
    LET digits == [i \in DOMAIN line |-> line[i] - Zero] IN
    IF line = <<>> \/ \E i \in DOMAIN line : digits[i] \notin 0..(Radix - 1) THEN -1
    ELSE FoldLeft(LAMBDA n, d : n * Radix + d, 0, digits)

\* Mutant: a body that ends without its last chunk is taken as it is.
RECURSIVE dechunkLenient(_, _)
dechunkLenient(data, done) ==
    LET nl == Find(data, Crlf)
        size == ChunkSize(SubSeq(data, 1, nl))
        rest == Drop(data, nl + 2)
        next == Drop(rest, size)
    IN  IF nl = -1 \/ size = 0 THEN [ok |-> TRUE, body |-> done]
        ELSE IF size = -1 \/ Len(rest) < size THEN Failed
        ELSE dechunkLenient(IF IsPrefix(Crlf, next) THEN Drop(next, 2) ELSE next,
                            done \o SubSeq(rest, 1, size))

RECURSIVE dechunk(_, _)
dechunk(data, done) ==
    LET nl == Find(data, Crlf)
        size == ChunkSize(SubSeq(data, 1, nl))
        rest == Drop(data, nl + 2)
        next == Drop(rest, size)
    IN  IF nl = -1 \/ size = -1 THEN Failed
        ELSE IF size = 0 THEN [ok |-> TRUE, body |-> done]
        ELSE IF Len(rest) < size THEN Failed
        ELSE dechunk(IF IsPrefix(Crlf, next) THEN Drop(next, 2) ELSE next,
                     done \o SubSeq(rest, 1, size))

parse_response(b) ==
    LET end == Find(b, Crlf \o Crlf)
        body == Drop(b, end + 4)
    IN  IF end = -1 THEN Failed
        ELSE IF ChunkedHeader \in {b[i] : i \in 1..end} THEN dechunk(body, <<>>)
        ELSE [ok |-> TRUE, body |-> body]

\* The lines of the body, the unterminated last one included; JSON ignores a
\* carriage return at the end of one.
extract_pull_error(body) ==
    \E i \in DOMAIN LinesOf(Append(body, LF)) : LinesOf(Append(body, LF))[i] = ErrorObject

-----------------------------------------------------------------------------
\* The attached stream

parse_frame_header(b) == [stream_type |-> b[1], size |-> b[2] * Radix + b[3]]

\* LineSplitter::feed, data having been appended to what was buffered.
RECURSIVE feed(_, _)
feed(data, lines) ==
    LET pos == Find(data, <<LF>>)
    IN  IF pos = -1 THEN [partial |-> data, out |-> lines]
        ELSE feed(Drop(data, pos + 1), Append(lines, StripCr(SubSeq(data, 1, pos))))

\* The inner loop of pump_output, on everything that has been read.
RECURSIVE Pump(_, _, _)
Pump(b, rest, lines) ==
    LET header == parse_frame_header(b)
        end == HeaderLen + header.size
        fed == feed(rest \o SubSeq(b, HeaderLen + 1, end), lines)
    IN  IF Len(b) < HeaderLen \/ Len(b) < end THEN [buf |-> b, partial |-> rest, out |-> lines]
        ELSE IF header.stream_type \in {STREAM_STDOUT, STREAM_STDERR}
             THEN Pump(Drop(b, end), fed.partial, fed.out)
             ELSE Pump(Drop(b, end), rest, lines)
-----------------------------------------------------------------------------

WireInit ==
    /\ script \in Scripts
    /\ left = Bytes(script)
    /\ buf = <<>> /\ partial = <<>> /\ out = <<>>
    /\ phase = IF script.kind = "pull" THEN "body" ELSE "head"

\* A read returns the next n bytes.
Arrives(n) ==
    /\ n \in 1..Len(left)
    /\ left' = Drop(left, n)
    /\ UNCHANGED script

\* DockerRuntime::request: read_to_end
ReadBody(n) ==
    /\ phase = "body"
    /\ Arrives(n)
    /\ buf' = buf \o SubSeq(left, 1, n)
    /\ UNCHANGED <<phase, partial, out>>

\* Mutant: what was read past the head is dropped.
ReadHeadDropping(n) ==
    LET all == buf \o SubSeq(left, 1, n)
        end == Find(all, Crlf \o Crlf) IN
    /\ phase = "head"
    /\ Arrives(n)
    /\ phase' = IF end = -1 THEN "head" ELSE IF all[1] # 101 THEN "failed" ELSE "pump"
    /\ buf' = IF end = -1 THEN all ELSE <<>>
    /\ UNCHANGED <<partial, out>>

\* attach: once the head is complete, pump_output is seeded with what was read
\* past it.
ReadHead(n) ==
    LET all == buf \o SubSeq(left, 1, n)
        end == Find(all, Crlf \o Crlf)
        pumped == Pump(Drop(all, end + 4), <<>>, <<>>) IN
    /\ phase = "head"
    /\ Arrives(n)
    /\ \/ end = -1 /\ buf' = all /\ UNCHANGED <<phase, partial, out>>
       \/ end # -1 /\ all[1] # 101 /\ phase' = "failed" /\ buf' = <<>> /\ UNCHANGED <<partial, out>>
       \/ /\ end # -1 /\ all[1] = 101 /\ phase' = "pump"
          /\ buf' = pumped.buf /\ partial' = pumped.partial /\ out' = pumped.out

\* pump_output
ReadFrames(n) ==
    LET pumped == Pump(buf \o SubSeq(left, 1, n), partial, out) IN
    /\ phase = "pump"
    /\ Arrives(n)
    /\ buf' = pumped.buf /\ partial' = pumped.partial /\ out' = pumped.out
    /\ UNCHANGED phase

\* The connection closes.  pull_image then looks at the response: the status,
\* and an error reported in its progress.
Close ==
    LET response == parse_response(buf) IN
    /\ phase \in {"head", "pump", "body"}
    /\ phase' = CASE phase = "head" -> "failed"
                  [] phase = "pump" -> "closed"
                  [] phase = "body" ->
                        IF response.ok /\ buf[1] = 200 /\ ~extract_pull_error(response.body)
                        THEN "ok" ELSE "failed"
    /\ UNCHANGED <<script, left, buf, partial, out>>

WireNext ==
    \/ \E n \in 1..Len(left) : ReadBody(n) \/ ReadHead(n) \/ ReadFrames(n)
    \/ Close

-----------------------------------------------------------------------------
\* Properties

\* A pull is reported as done only if the whole response arrived, with status
\* 200 and no error on any line of its progress, wherever chunks were cut; and
\* such a response is never reported as failed.
PullIsTrue ==
    (script.kind = "pull" /\ phase \in {"ok", "failed"}) =>
        LET text == FlattenSeq(script.chunks)
            reported == \E i \in DOMAIN LinesOf(Append(text, LF)) :
                            LinesOf(Append(text, LF))[i] = ErrorObject
        IN  /\ phase = "ok" => Len(left) <= 2 /\ script.status = 200 /\ ~reported
            /\ (left = <<>> /\ script.status = 200 /\ ~reported) => phase = "ok"

\* The frames that have arrived in full.
Arrived(s, count) ==
    LET size(k) == Len(FlattenSeq([i \in 1..k |-> Frame(s.frames[i])]))
    IN  SubSeq(s.frames, 1, Max({k \in 0..Len(s.frames) : size(k) <= count}))

\* The console's receiver has been sent exactly the lines of the standard output
\* and error in the frames that have arrived, each once and in order, wherever
\* the stream was cut into reads, heads, headers and payloads.
LinesAreExact ==
    phase \in {"pump", "closed"} =>
        LET count == Len(Bytes(script)) - Len(left) - Len(ResponseHead(script))
            shown == SelectSeq(Arrived(script, count), LAMBDA f : f.type \in {1, 2})
        IN  out = LinesOf(FlattenSeq([i \in DOMAIN shown |-> shown[i].payload]))
=============================================================================
