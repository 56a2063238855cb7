---------------------------- MODULE LocationTable ----------------------------
(***************************************************************************)
(* Entries of the location table of 3.11 and later, as encode_linetable()  *)
(* and decode_linetable() of src/src/linetable.cpp write and read them.    *)
(* Bytes are numbers below 256; positions in a table count from 1.         *)
(***************************************************************************)
EXTENDS Integers, Sequences, FiniteSetsExt

CONSTANT IntModulus    \* the values of an unsigned int: 2^32 in the code

ASSUME IntModulusAssumption == IntModulus \in Nat \ {0}

MSB == 128             \* marks the first byte of an entry
MaxRun == 8            \* words an entry can cover

NONE == 15
LONG == 14
NO_COLUMNS == 13
ONE_LINE == 10         \* the first of three codes, one per line delta

\* Lines and columns whose differences keep their value next to a sign bit.
Limit == IntModulus \div 4
Field == -Limit .. Limit - 1

NoLocation == [lineno |-> -1, end_lineno |-> -1, col_offset |-> -1, end_col |-> -1]

-----------------------------------------------------------------------------
(***************************************************************************)
(* Varints: groups of six bits, the least significant first; bit 6 says    *)
(* that another group follows.                                             *)
(***************************************************************************)
Unsigned(x) == x % IntModulus
Signed(x) == IF 2 * x >= IntModulus THEN x - IntModulus ELSE x

\* Mutant: the group is not masked.
UnmaskedGroup(v) == v + 64

\* The low group of v, when more follow.
LowGroup(v) == (v % 64) + 64

WriteVarint[v \in Nat] == IF v < 64 THEN <<v>> ELSE <<LowGroup(v)>> \o WriteVarint[v \div 64]

WriteSigned(v) == WriteVarint[IF v < 0 THEN 1 - 2 * v ELSE 2 * v]

Continues(b) == (b \div 64) % 2 = 1

ReadVarint(bytes, p) ==
    LET last == Min({q \in p .. Len(bytes) : ~ Continues(bytes[q])} \cup {Len(bytes)})
        val[q \in p .. last + 1] == IF q > last THEN 0 ELSE (bytes[q] % 64) + 64 * val[q + 1]
    IN  [val |-> Signed(val[p]), next |-> last + 1]

\* The sign is the low bit.
ReadSigned(bytes, p) ==
    LET u == ReadVarint(bytes, p)
    IN  [val |-> IF u.val % 2 = 1 THEN -(u.val \div 2) ELSE u.val \div 2, next |-> u.next]

-----------------------------------------------------------------------------
(***************************************************************************)
(* Writing the entry of run words at loc, when the last entry with a line  *)
(* left the running line at cur.                                           *)
(***************************************************************************)
\* Mutant: single-line entries lose their marker.
UnmarkedHeader(code, run) ==
    (IF code \in ONE_LINE .. ONE_LINE + 2 THEN 0 ELSE MSB) + code * 8 + (run - 1)

Header(code, run) == MSB + code * 8 + (run - 1)

FitsShort(loc, cur) ==
    /\ loc.lineno = cur
    /\ loc.col_offset < 80
    /\ loc.end_col - loc.col_offset \in 0 .. 15

FitsOneLine(loc, cur) ==
    /\ loc.lineno - cur \in 0 .. 2
    /\ loc.col_offset \in 0 .. 127
    /\ loc.end_col \in 0 .. 127

Short(loc, run) ==
    <<Header(loc.col_offset \div 8, run),
      (loc.col_offset % 8) * 16 + (loc.end_col - loc.col_offset)>>

OneLine(loc, run, cur) ==
    <<Header(ONE_LINE + (loc.lineno - cur), run), loc.col_offset, loc.end_col>>

Long(loc, run, cur) ==
    <<Header(LONG, run)>>
      \o WriteSigned(loc.lineno - cur)
      \o WriteVarint[Unsigned(loc.end_lineno - loc.lineno)]
      \o WriteVarint[Unsigned(loc.col_offset + 1)]
      \o WriteVarint[Unsigned(loc.end_col + 1)]

WriteLocation(loc, run, cur) ==
    CASE loc.lineno < 0 -> <<Header(NONE, run)>>
      [] loc.lineno >= 0 /\ loc.col_offset < 0 ->
            <<Header(NO_COLUMNS, run)>> \o WriteSigned(loc.lineno - cur)
      [] OTHER ->
            IF loc.lineno = loc.end_lineno /\ FitsShort(loc, cur) THEN Short(loc, run)
            ELSE IF loc.lineno = loc.end_lineno /\ FitsOneLine(loc, cur)
            THEN OneLine(loc, run, cur)
            ELSE Long(loc, run, cur)

\* The running line after the entry.
LineAfter(loc, cur) == IF loc.lineno < 0 THEN cur ELSE loc.lineno

-----------------------------------------------------------------------------
(***************************************************************************)
(* Reading the entry at position p.                                        *)
(***************************************************************************)
CodeAt(bytes, p) == (bytes[p] \div 8) % 16
LengthAt(bytes, p) == (bytes[p] % 8) + 1

OnLine(line, from, to) ==
    [lineno |-> line, end_lineno |-> line, col_offset |-> from, end_col |-> to]

\* Its location, the running line after it, and where the next entry starts.
ReadLocation(bytes, p, lineno) ==
    LET code == CodeAt(bytes, p)
        delta == ReadSigned(bytes, p + 1)
        line == lineno + delta.val
        span == ReadVarint(bytes, delta.next)
        from == ReadVarint(bytes, span.next)
        to == ReadVarint(bytes, from.next)
        col == code * 8 + bytes[p + 1] \div 16
    IN  CASE code = NONE ->
               [loc |-> NoLocation, lineno |-> lineno, next |-> p + 1]
          [] code = LONG ->
               [loc |-> [lineno |-> line, end_lineno |-> line + span.val,
                         col_offset |-> from.val - 1, end_col |-> to.val - 1],
                lineno |-> line, next |-> to.next]
          [] code = NO_COLUMNS ->
               [loc |-> OnLine(line, -1, -1), lineno |-> line, next |-> delta.next]
          [] code \in ONE_LINE .. ONE_LINE + 2 ->
               [loc |-> OnLine(lineno + code - ONE_LINE, bytes[p + 1], bytes[p + 2]),
                lineno |-> lineno + code - ONE_LINE, next |-> p + 3]
          [] OTHER ->
               [loc |-> OnLine(lineno, col, col + (bytes[p + 1] % 16)),
                lineno |-> lineno, next |-> p + 2]

-----------------------------------------------------------------------------
(***************************************************************************)
(* The interpreter's reading of the table.  To find the line of a word it  *)
(* moves from marker to marker, and decodes no more of an entry than its   *)
(* line delta.                                                             *)
(***************************************************************************)
EntryStarts(bytes) == {p \in 1 .. Len(bytes) : bytes[p] >= MSB}

LineDeltaAt(bytes, p) ==
    CASE CodeAt(bytes, p) \in {LONG, NO_COLUMNS} -> ReadSigned(bytes, p + 1).val
      [] CodeAt(bytes, p) \in ONE_LINE .. ONE_LINE + 2 -> CodeAt(bytes, p) - ONE_LINE
      [] OTHER -> 0

\* f[1] + ... + f[n].
SumTo(f, n) ==
    LET sum[k \in 0 .. n] == IF k = 0 THEN 0 ELSE sum[k - 1] + f[k]
    IN  sum[n]

UnitsBefore(bytes, p) ==
    SumTo([q \in DOMAIN bytes |-> IF bytes[q] >= MSB THEN LengthAt(bytes, q) ELSE 0], p - 1)

\* The line of word w (from 0), -1 for none.
InterpreterLine(bytes, w, firstlineno) ==
    LET covers(p) == w - UnitsBefore(bytes, p) \in 0 .. LengthAt(bytes, p) - 1
        entries == {p \in EntryStarts(bytes) : covers(p)}
        p == Min(entries)
        deltas == [q \in DOMAIN bytes |-> IF bytes[q] >= MSB THEN LineDeltaAt(bytes, q) ELSE 0]
    IN  IF entries = {} \/ CodeAt(bytes, p) = NONE THEN -1
        ELSE firstlineno + SumTo(deltas, p)
=============================================================================
