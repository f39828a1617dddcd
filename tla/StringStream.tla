---------------------------- MODULE StringStream ----------------------------
(***************************************************************************)
(* A stream of rq_stream_string.c, read with rq_stream.c: characters in    *)
(* memory that grows, one position for reading and writing.  `content' is  *)
(* what a file would hold after the same writes.                           *)
(***************************************************************************)
EXTENDS Integers, SequencesExt

CONSTANTS
    InitialSize,  \* s_initial_buffer_size
    GrowSize,     \* s_initial_buffer_grow_size
    Chunk,        \* bound: what is written at a time
    MaxLength     \* bound: how far buffer_len goes

ASSUME StreamAssumption ==
    /\ InitialSize \in Nat \ {0} /\ GrowSize \in Nat \ {0} /\ MaxLength \in Nat

VARIABLES
    buffer,     \* the max_buffer_size characters, "?" where realloc's memory was not set
    buffer_len,
    ptr,
    is_open,
    content,    \* history: what was written, each character at its place, "?" between
    answer,     \* the last characters read, and those of content they should be
    overwrote,  \* history: something was written before the end
    beyond      \* memory behind the buffer was read or written

streamVars == <<buffer, buffer_len, ptr, is_open, content, answer, overwrote, beyond>>

NoAnswer == [got |-> <<>>, due |-> <<>>]

\* What is in memory from..to, counted from 1: anything, behind the buffer.
At(from, to) == [i \in 1..to-from+1 |-> IF from+i-1 \in DOMAIN buffer THEN buffer[from+i-1] ELSE "?"]

Remaining == buffer_len - ptr

\* Slip: one character is left out.
GrowBy_Slip(n) == IF Remaining > n THEN 0 ELSE n - Remaining - 1

\* The memory a write of n characters adds: none when they are fewer than those that
\* are left to read, else a multiple of GrowSize.
GrowBy(n) ==
    IF Remaining > n THEN 0
    ELSE CHOOSE g \in {GrowSize * k : k \in 1..n+1} :
            /\ g >= n - Remaining
            /\ \A k \in 1..n+1 : GrowSize * k >= n - Remaining => g <= GrowSize * k

Put(text, offset, s) ==
    [i \in 1..(IF offset + Len(s) > Len(text) THEN offset + Len(s) ELSE Len(text)) |->
        IF i \in offset+1..offset+Len(s) THEN s[i - offset]
        ELSE IF i \in DOMAIN text THEN text[i] ELSE "?"]
Upto(i) == IF i < Len(content) THEN i ELSE Len(content)
-----------------------------------------------------------------------------
\* rq_stream_string_init, of a new stream.
StreamInit ==
    /\ buffer = [i \in 1..InitialSize |-> "NUL"] /\ buffer_len = 0 /\ ptr = 0 /\ is_open = TRUE
    /\ content = <<>> /\ answer = NoAnswer /\ overwrote = FALSE /\ beyond = FALSE

\* An open stream is closed first.
StreamOpen ==
    /\ buffer' = [i \in 1..InitialSize |-> "NUL"] /\ buffer_len' = 0 /\ ptr' = 0 /\ is_open' = TRUE
    /\ content' = <<>> /\ answer' = NoAnswer /\ overwrote' = FALSE
    /\ UNCHANGED beyond

StreamClose ==
    /\ is_open
    /\ buffer' = <<>> /\ buffer_len' = 0 /\ ptr' = 0 /\ is_open' = FALSE
    /\ content' = <<>> /\ answer' = NoAnswer /\ overwrote' = FALSE
    /\ UNCHANGED beyond

StreamWrite(s) ==
    LET grown == buffer \o [i \in 1..GrowBy(Len(s)) |-> "?"] IN
    /\ is_open /\ buffer_len + Len(s) <= MaxLength
    /\ beyond' = (ptr + Len(s) > Len(grown))
    /\ buffer' = SubSeq(Put(grown, ptr, s), 1, Len(grown))
    /\ ptr' = ptr + Len(s)
    /\ buffer_len' = buffer_len + Len(s)
    /\ content' = Put(content, ptr, s)
    /\ overwrote' = (overwrote \/ ptr < buffer_len)
    /\ answer' = NoAnswer
    /\ UNCHANGED is_open

\* What is read, and what content has there.
Answered(n) ==
    /\ answer' = [got |-> At(ptr + 1, ptr + n), due |-> SubSeq(content, ptr + 1, Upto(ptr + n))]
    /\ ptr' = ptr + n
    /\ beyond' = (ptr + n > Len(buffer))
    /\ UNCHANGED <<buffer, buffer_len, is_open, content, overwrote>>

StreamRead(n) == is_open /\ Answered(IF Remaining < n THEN Remaining ELSE n)

\* rq_stream_read_line: a character at a time, up to a line's end or maxbuflen - 1.
ReadLine(maxbuflen) ==
    LET most == IF Remaining < maxbuflen - 1 THEN Remaining ELSE maxbuflen - 1
        ends == SelectInSeq(At(ptr + 1, ptr + most), LAMBDA c : c = "\n")
    IN is_open /\ Answered(IF ends # 0 THEN ends ELSE most)

\* A position behind the end is refused.
Seek(offset) ==
    /\ is_open /\ offset <= buffer_len
    /\ ptr' = offset /\ answer' = NoAnswer
    /\ UNCHANGED <<buffer, buffer_len, is_open, content, overwrote, beyond>>
StreamRewind == Seek(0)

\* Nothing more is asked once foreign memory was touched.
StreamNext ==
    /\ ~beyond
    /\ \/ StreamOpen \/ StreamClose \/ StreamRewind
       \/ \E s \in Chunk : StreamWrite(s)
       \/ \E n \in 1..4 : StreamRead(n) \/ ReadLine(n)
       \/ \E offset \in 0..MaxLength : Seek(offset)
-----------------------------------------------------------------------------
\* What was written is in the stream's memory, each character where it was written,
\* and is read as it is; with nothing written before the end, this is all there is,
\* and a line that is read ends where a line of it ends.  After an overwrite the
\* stream counts characters twice, and then only it reads or writes foreign memory.
StreamKept ==
    /\ beyond => overwrote
    /\ ~beyond /\ is_open =>
         /\ Len(content) <= buffer_len
         /\ \A i \in DOMAIN content : content[i] \in {buffer[i], "?"}
         /\ \A i \in DOMAIN answer.due : answer.due[i] \in {answer.got[i], "?"}
    /\ ~overwrote =>
         /\ buffer_len = Len(content) /\ answer.due = answer.got
         /\ \A i \in DOMAIN answer.got : answer.got[i] # "?"
=============================================================================
