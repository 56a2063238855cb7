------------------------------ MODULE LineTable ------------------------------
(***************************************************************************)
(* Pairs of the line table of 3.10, as encode_lnotab() and decode_lnotab() *)
(* of src/src/linetable.cpp write and read them: <<span in bytes, line     *)
(* delta>>.  A pair moves the running line by its delta and covers its     *)
(* span; the delta NoLine covers it with no line.                          *)
(***************************************************************************)
EXTENDS Integers, Sequences

CONSTANTS
    SpanMax,       \* the largest span a byte holds: 255 in the code
    DeltaMax       \* the largest delta a signed byte holds: 127

ASSUME PairAssumption == {SpanMax, DeltaMax} \subseteq Nat \ {0}

NoLine == -DeltaMax - 1

\* The chunk taken off a negative delta is not NoLine.
LeastChunk == -DeltaMax

LineChunks[d \in Int] ==
    IF d > DeltaMax THEN <<DeltaMax>> \o LineChunks[d - DeltaMax]
    ELSE IF d < -DeltaMax THEN <<LeastChunk>> \o LineChunks[d - LeastChunk]
    ELSE <<d>>

SpanChunks[b \in Nat] ==
    IF b > SpanMax THEN <<SpanMax>> \o SpanChunks[b - SpanMax] ELSE <<b>>

\* Mutant: a range without a line goes on as "the same line".
ContinuesSame(line) == 0

Continuation(line) == IF line < 0 THEN NoLine ELSE 0

\* The pairs of a range of span bytes at line, after one at prev: the whole
\* delta first, on no bytes, and then the span.
WriteRange(line, prev, span) ==
    LET deltas == IF line < 0 THEN <<NoLine>> ELSE LineChunks[line - prev]
        spans == SpanChunks[span]
        d == Len(deltas)
    IN  [k \in 1 .. d - 1 |-> <<0, deltas[k]>>]
          \o <<<<spans[1], deltas[d]>>>>
          \o [k \in 1 .. Len(spans) - 1 |-> <<spans[k + 1], Continuation(line)>>]

LineAfterRange(line, prev) == IF line < 0 THEN prev ELSE line
=============================================================================
